SPECIFICATION FairDirectSpec
CONSTANTS
    Peers = {c1, c2, c3}
    FirstFd = 1
    MaxRaces = 1
    MaxMsgs = 3
INVARIANTS
    DirectTypeOK
    OnePayloadPerMessage
    WholeMessages
    TakesTurns
    EndsOnlyBeforeConsumer
PROPERTY GetsDone
CHECK_DEADLOCK FALSE
