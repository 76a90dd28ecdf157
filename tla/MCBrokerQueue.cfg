SPECIFICATION FairQueueSpec
CONSTANTS
    Publishers = {p1, p2}
    Lengths = {0, 1}
    NoMsg = NoMsg
    MinCapacity = 1
    MaxCapacity = 2
    PipeHwm = 2
    MaxSent = 3
    Relaxed = TRUE
INVARIANTS
    QueueTypeOK
    Fifo
    SizeNeverWraps
    PublisherOrder
PROPERTY ImplementsLog
CHECK_DEADLOCK FALSE
