SPECIFICATION Spec
CONSTANTS
  Small = Small
  Large = Large
  RekeyInterval = 2
  Grace = 1
  HandshakeTotal = 2
  MaxPendingTun = 1
  Mesh = TRUE
  Lifetime = 1
  MaxFresh = 3
  MaxCrashes = 1
INVARIANT TypeOK
INVARIANT NoKeyReuse
