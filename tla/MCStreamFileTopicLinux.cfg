SPECIFICATION StreamSpec
CONSTANTS
    Lengths = {1, 3}
    Header = 2
    MaxFileSize = 5
    Faults = {}
    MaxMsgs = 3
    MaxRestarts = 0
    Peers = {c1, c2}
    FirstFd = 3
    MaxRaces = 1
    MaxChunk = 3
    Apple = FALSE
INVARIANT SentIsLogPrefix
CHECK_DEADLOCK FALSE
