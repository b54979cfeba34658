SPECIFICATION HealedSpec
CONSTANTS
  Small = Small
  Large = Large
  RekeyInterval = 2
  Grace = 1
  HandshakeTotal = 2
  MaxPendingTun = 1
  Mesh = FALSE
  Lifetime = 0
  MaxFresh = 12
  MaxCrashes = 0
  Reserve = 0
PROPERTY Reconnects
INVARIANT Seamless
 
