SPECIFICATION FairSpec
CONSTANTS
  Shipped <- Minus1
  MaxId = 1
  Sleep = 1
  Limit = 2
  MaxLag = 1
  TimeRange = 256
  Capacity = 2
  MaxFaults = 0
  Refusals = FALSE
  Commands = TRUE
PROPERTIES GivenUpEnds
