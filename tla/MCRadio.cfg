CONSTANTS
    ChanDefs <- MCChanDefs
    Intervals = {0, 200}
    MaxMonitors = 2
    MaxFaults = 1
SPECIFICATION Spec
INVARIANTS
    ReceiverTuned
    
    SyncFollowsBeacon
PROPERTIES
    NumbersInTurn
