SPECIFICATION TimelySpec
CONSTANTS
  Small = Small
  Large = Large
  RekeyInterval = 2
  Grace = 1
  HandshakeTotal = 2
  MaxPendingTun = 1
  Mesh = TRUE
  Lifetime = 0
  MaxFresh = 4
  MaxCrashes = 1
  Reserve = 2
INVARIANT RevokedDropped
