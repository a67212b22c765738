SPECIFICATION FairSpec
CONSTANTS
    Session = {s1}
    Locked = {}
    Client = {c1, c2}
    Sender = {}
    NoSession = NoSession
    MaxGen = 2
    MaxCalls = 3
    MaxLive = 1
    Ops = {"open", "close", "watch", "message", "disconnect", "stop"}
INVARIANTS WatchersConnected
PROPERTIES OnlyOwnEndUnhosts OrphansEnd
CHECK_DEADLOCK FALSE
