SPECIFICATION FairSpec
CONSTANTS
  Shipped <- Minus1
  MaxId = 1
  Sleep = 1
  Limit = 3
  MaxLag = 1
  TimeRange = 256
  Capacity = 2
  MaxFaults = 2
  Refusals = TRUE
  Commands = TRUE
INVARIANTS TypeOK SocketsReady IdentityAgrees AliveIdentity
PROPERTIES Registered SilenceNoticed
