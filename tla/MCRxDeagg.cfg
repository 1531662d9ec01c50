CONSTANTS
    Descs <- MCDescs
    MaxSubframes = 3
    Cuts = {0, 1, 4, 5, 26}
SPECIFICATION FairSpec
INVARIANTS
    TypeOK
    OwnBytesOnly
    OrderedOnce
    NothingMissed
    NothingInvented
PROPERTIES
    WalkEnds
