SPECIFICATION FairSpec
CONSTANTS
    Tagged = {j}
    Events = {e}
    Custom = {c}
    Account = {a}
    Nobody = Nobody
    Batch = 1
    MaxTurns = 3
    MaxSpends = 2
    MaxMishaps = 2
INVARIANTS SpentOnce TurnIsWhole SentIsUploaded
PROPERTIES UploadsArrive
CHECK_DEADLOCK FALSE
