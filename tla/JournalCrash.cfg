SPECIFICATION JournalSpec
CONSTANTS
    Text = {"user"}
    Label = {"fork"}
    MaxEdits = 4
    MaxLines = 5
    MaxTears = 1
    MaxCrashes = 1
    Wide = TRUE
    FirstSaved = TRUE
INVARIANTS SavedIsLoaded LoadedIsTree
PROPERTIES KeepsConversation
CHECK_DEADLOCK FALSE
