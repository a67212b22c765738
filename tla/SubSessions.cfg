SPECIFICATION SubFairSpec
CONSTANTS
    Call = {c1, c2}
    MaxMessages = 3
    MaxReplies = 2
    MaxMishaps = 3
INVARIANTS StoppedIsTold DoneIsOver
 
CHECK_DEADLOCK FALSE
