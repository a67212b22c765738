SPECIFICATION ToolSpec
CONSTANTS
    User = {e1, w1}
    Poller = e1
    MaxToolOps = 3
    MaxEvents = 3
INVARIANTS ConnectedIsCurrent ListIsFresh
CHECK_DEADLOCK FALSE
