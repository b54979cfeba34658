CONSTANTS
    Kinds <- MCKinds
    Windows = {1, 2}
    MaxNack = 1
    RetxMax = 2
    MaxRepair = 1
    Extra = 0
    MaxObjects = 1
    MaxNet = 2
    MaxCounter = 2
SPECIFICATION Spec
 
INVARIANT Accounted
 
CHECK_DEADLOCK FALSE
