SPECIFICATION FairSpec
CONSTANTS
    e1 = e1
    e2 = e2
    e3 = e3
    p1 = p1
    p2 = p2
    p3 = p3
    None = None
    Session = {s1, s2}
    Engine = {e1, e2, e3}
    Process = {p1, p2, p3}
    Of <- Apart
    MaxCrashes = 1
INVARIANTS OneHolder
PROPERTIES AcquireReturns
CHECK_DEADLOCK FALSE
