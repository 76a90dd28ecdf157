SPECIFICATION FairAdminSpec
CONSTANTS
    Clients = {c1, c2}
    Topics = {t}
    Odd = {"unknown", "empty", "oversized", "nocmd"}
    Uint32 = 2
    SlowQueue = 1
    MaxCount = 2
    BusyPorts = {{}, {1}, {3}}
INVARIANTS
    AdminTypeOK
    JoinedIsServed
    StatsWithinWindow
    WaitsIfBehind
PROPERTIES
    EndsOnlyOnOdd
    EveryRequestIsAnswered
CHECK_DEADLOCK FALSE
