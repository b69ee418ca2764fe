SPECIFICATION MessageSpec
CONSTANTS
    Masks <- MCMasks
    MaxWire = 2
PROPERTIES
    SyncReqEnds
    NeededIsHeard
