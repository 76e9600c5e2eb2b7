SPECIFICATION Spec
CONSTANTS
  u1 = u1  u2 = u2  u3 = u3  p1 = p1  p2 = p2  a1 = a1  a2 = a2
  NoStream = NoStream
  NoCU = NoCU
  CU <- ThreeCUs
  PU <- OnePU
  SubStream <- MainOnly
  Request <- VideoAndAudio
  Port <- OnePort
  MaxCalls = 2
  MaxLinks = 2
  Front <- Relayed
  Routed <- AnyRoute
  FreedNext <- AnyFreed
  MaxRefs = 2
  MaxNodes = 2
VIEW TablesOnly
SYMMETRY Symmetry
INVARIANTS RefsCover NoDangling Unique Sourced
PROPERTIES Subscribed
