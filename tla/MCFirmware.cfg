CONSTANTS
    FwSize = 9
    MaxPayload = 3
    WordSize = 16
    PollMax = 2
    Tails = {2, 4, 5, 6, 12, 14}
    GoodTail = 4
    GateValues = {"null", "stale"}
SPECIFICATION FairSpec
INVARIANTS
    TypeOK
    SuccessRunsNewImage
    StartFollowsWholeImage
    ChunksWithinImage
    NormalModeRestored
    RestartUrbsReaped
PROPERTIES
    DownloadReturns
