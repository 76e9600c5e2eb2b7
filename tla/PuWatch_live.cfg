SPECIFICATION FairSpec
CONSTANTS
  k1 = k1  k2 = k2
  NoStream = NoStream
  NoEntry = NoEntry
  Stream <- Two
  Dead <- OneDead
  MaxCalls = 2
  Nodes <- Both
  Limit = 2
  MaxLag = 1
  MaxNodes = 2
  TimeRange = 256
INVARIANT TypeOK
PROPERTIES SilentRemoved LockReleased
