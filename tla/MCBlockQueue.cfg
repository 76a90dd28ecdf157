SPECIFICATION FairBlockSpec
CONSTANTS
    Sizes = {3, 4}
    MaxBlockSize = 2
    Kinds = 3
INVARIANTS
    BlockTypeOK
    NextBlockIsEmpty
    NextBlockIsNotEmpty
PROPERTIES
    RefusesOnlyIfFull
    MissesOnlyIfEmpty
    ImplementsFifo
