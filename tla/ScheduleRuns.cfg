SPECIFICATION RunsFairSpec
CONSTANTS
    MaxFailures = 2
    MaxRuns = 2
    MaxUpsets = 1
INVARIANTS SwitchedOffInTime StartIsUnderWay FollowedRunIsOver
PROPERTIES RunsEnd
CHECK_DEADLOCK FALSE
