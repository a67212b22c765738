SPECIFICATION Spec
CONSTANTS
    daemon = daemon
    cli = cli
    gateway = gateway
    e1 = e1
    e2 = e2
    Process = {daemon, cli}
    Thread = {gateway, e1, e2}
    Engine = {e1, e2}
    HomeOf <- Home
    NoLogin = NoLogin
    NoThread = NoThread
    MaxDevices = 2
    MaxOps = 4
    MaxSpends = 2
    MaxMishaps = 1
INVARIANTS SavedLoginWorks
PROPERTIES GoodLoginStays SignedOutStays
CHECK_DEADLOCK FALSE
