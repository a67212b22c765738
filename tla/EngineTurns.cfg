SPECIFICATION EngineSpec
CONSTANTS
    Kinds = {"claude", "codex", "acp"}
    MaxMsgs = 3
    MaxWork = 5
    MaxBacklog = 1
    MaxAsks = 1
    Ops = {"steer", "interrupt", "unqueue", "queue_move", "set_approval_mode", "set_gateway", "rewind", "tui", "shutdown", "dies"}
INVARIANTS EachInOnePlace BusyAgrees AsksAreShown RestsWithNothingLeft
PROPERTIES MessagesSettleOnce RunsInPickedMode
CHECK_DEADLOCK FALSE
