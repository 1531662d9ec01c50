CONSTANTS
    Ids = {a}
    Frames <- MCFrames
SPECIFICATION Spec
INVARIANTS
    ReportedIntact
    ChipSeesFrame
    RateAsRequested
    AckWasAsked
