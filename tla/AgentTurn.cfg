SPECIFICATION Spec
CONSTANTS
    Msg = {m1, m2}
    Images = {m2}
    Shell = {}
    Edit = {write}
    AskRule = {}
    Worker = {w1, w2}
    Sub = {s1}
    None = none
    Modes = {"manual", "auto"}
    MaxOps = 2
    MaxMishaps = 2
    MaxBoth = 3
INVARIANTS EachMessageOnce TurnIsHeard ParkedIsGated RunningHasWorker
PROPERTIES DecisionsStand
