SPECIFICATION Spec
CONSTANTS
    Ssids <- MCSsids
    Channels = {6, 11}
    Damage = {0, 3, 254, 255}
INVARIANTS
    WritesWhatItSums
    WalkWithinFrame
    ParsersTellTheTruth
PROPERTY WalkEnds
