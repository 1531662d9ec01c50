CONSTANTS
    NumRxUrbs = 2
    TxCallers = {a}
    MaxTxUrbs = 1
SPECIFICATION FairSpec
INVARIANTS
    TypeOK
    FreedMeansQuiet
    StopLeavesQuiet
    VifHeldDuringBeacon
    BeaconOffIsOff
PROPERTIES
    KeepsContract
    StopReturns
    DisconnectCompletes
