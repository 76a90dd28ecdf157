SPECIFICATION FileSpec
CONSTANTS
    Lengths = {1, 3}
    Header = 2
    MaxFileSize = 5
    Faults = {}
    MaxMsgs = 2
    MaxRestarts = 1
INVARIANT NothingCommittedIsLost
CHECK_DEADLOCK FALSE
