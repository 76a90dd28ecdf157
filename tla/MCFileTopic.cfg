SPECIFICATION FairFileSpec
CONSTANTS
    Lengths = {1, 2}
    Header = 2
    MaxFileSize = 4
    Faults = {"length", "payload"}
    MaxMsgs = 4
    MaxRestarts = 1
INVARIANTS
    FileTypeOK
    CumulativeOffsets
    FetchesCommitted
    NoGapsInFileTopic
PROPERTY FileImplementsLog
CHECK_DEADLOCK FALSE
