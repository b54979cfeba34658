SPECIFICATION SpecEstablished
CONSTANTS
  Small = Small
  Large = Large
  RekeyInterval = 2
  Grace = 1
  HandshakeTotal = 2
  MaxPendingTun = 1
  Mesh = FALSE
  Lifetime = 1
  MaxFresh = 6
  MaxCrashes = 0
INVARIANT OneSessionPerInit
PROPERTY ConfirmedSwitch
