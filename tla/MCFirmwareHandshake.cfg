CONSTANTS
    FwSize = 9
    MaxPayload = 3
    WordSize = 16
    PollMax = 2
    Tails = {4}
    GoodTail = 4
    GateValues = {"null"}
SPECIFICATION Spec
INVARIANTS
    UploadOnlyToRom
