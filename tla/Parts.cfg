SPECIFICATION PartsSpec
CONSTANTS
  WordBits = 2
  StandardWords = 2
  WideWords = 4
  MaxCounter = 10
  Item = {a, b}
  Cap = 2
  Modulus = 8
  MaxBatch = 3
  NoItem = NoItem
  NumShards = 2
  MaxPendingTun = 2
  RingCap = 1
  MaxKeys = 3
  MaxSeal = 2
  Ladder <- MCLadder
  FirstSize = 5
  ObjectSizes = {5}
  Repair = 1
  MaxAttempts = 1
  MaxFallbacks = 1
  MaxWire = 2
  Key = {k1, k2, k3}
  MaxTag = 3
  Client = {n1, n2}
  RegTtl = 2
  RegSkew = 1
  MaxRegs = 1
  MaxNow = 5
  Conn = {1, 2}
  Depth = 1
  SeenTtl = 3
  Patience = 1
  MaxSeen = 4
  SealTime <- MCSealTime
  SkewMin = 2
  WindowMin = 4
  MaxBucket = 1
  StartMin = 1
  LastMin = 8
  ObjKey = {1, 2, 3}
  Places = 4
  Mac = {m1, m2, m3, m4}
  MacCapacity = 3
  MacTtl = 1
  MaxMacTime = 3
  SendSlots = 2
  RecvDepth = 1
  ReadDepth = 1
  MaxRun = 2
  MaxPending = 3
  Shape <- MCShape
INVARIANT PartsTypeOK
 
INVARIANT RefusedIsSeen
INVARIANT SlotDiscipline
INVARIANT ReuseOnlyInBurst
INVARIANT WorkersCatchUp
INVARIANT NoStaleAck
INVARIANT RebuiltWhenAgreed
INVARIANT TableRight
INVARIANT NewestServed
INVARIANT LastIsRouted
 
 
INVARIANT FindsStored
INVARIANT LinksAreRecency
 
 
 
CHECK_DEADLOCK FALSE
