SPECIFICATION Spec
CONSTANTS
    Session = {s1}
    Locked = {s1}
    Client = {c1, c2}
    Sender = {d1}
    NoSession = NoSession
    MaxGen = 2
    MaxCalls = 3
    MaxLive = 0
    Ops = {"open", "options", "watch", "message", "send", "tune", "sweep", "background", "quit", "restart", "tui"}
SYMMETRY Clients
INVARIANTS AttendedInSync
PROPERTIES LockedSuccession IdleCloseCutsNoTurn
CHECK_DEADLOCK FALSE
