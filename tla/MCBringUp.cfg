SPECIFICATION Spec
CONSTANTS
    DlLens <- MCDlLens
    Fuses <- MCFuses
    NumBlocks <- MCBlocks
    MaxFaults = 1
INVARIANTS
    ImageAnnouncedIsSent
    EfuseUsedRight
    FirmwarePrepared
    RegistersConsistent
