SPECIFICATION DirectSpec
CONSTANTS
    Peers = {c1, c2, c3}
    FirstFd = 1
    MaxRaces = 1
    MaxMsgs = 2
PROPERTY NextIsNextElement
CHECK_DEADLOCK FALSE
