CONSTANTS
    Lower = lower
    Higher = higher
    Seen <- MCSeen
    Listed <- MCListed
    MaxInits = 3
    MaxWire = 2
    MaxQueue = 3
SPECIFICATION Spec
INVARIANT NoBlackHole
 
PROPERTY Meets
PROPERTY NoStaleAdoption
CHECK_DEADLOCK FALSE
