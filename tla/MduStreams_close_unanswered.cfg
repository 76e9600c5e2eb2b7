SPECIFICATION Spec
CONSTANTS
  u1 = u1  u2 = u2  u3 = u3  p1 = p1  p2 = p2  a1 = a1  a2 = a2
  NoStream = NoStream
  NoCU = NoCU
  CU <- TwoCUs
  PU <- TwoPUs
  SubStream <- MainOnly
  Request <- TwoVideos
  Port <- OnePort
  MaxCalls = 2
  MaxLinks = 2
  Front <- Direct
  Routed <- NoRoute
  FreedNext <- AllFreed
  MaxRefs = 2
  MaxNodes = 2
PROPERTIES AnswerRelayed
