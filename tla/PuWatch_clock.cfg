SPECIFICATION Spec
CONSTANTS
  k1 = k1  k2 = k2
  NoStream = NoStream
  NoEntry = NoEntry
  Stream <- Two
  Dead <- OneDead
  MaxCalls = 2
  Nodes <- Direct
  Limit = 2
  MaxLag = 1
  MaxNodes = 3
  TimeRange = 256
PROPERTY SilentOnly
