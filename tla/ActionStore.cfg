SPECIFICATION Spec
CONSTANTS
    Call = {c1, c2}
    MaxIds = 2
    MaxOps = 4
    MaxMishaps = 2
    Failing = {"deferred", "decided", "closed", "reopened"}
INVARIANTS ListedIsHeld
PROPERTIES KeepsTheBook
CHECK_DEADLOCK FALSE
SYMMETRY Calls
