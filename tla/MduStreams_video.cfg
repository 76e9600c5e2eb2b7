SPECIFICATION Spec
CONSTANTS
  u1 = u1  u2 = u2  u3 = u3  p1 = p1  p2 = p2  a1 = a1  a2 = a2
  NoStream = NoStream
  NoCU = NoCU
  CU <- TwoCUs
  PU <- OnePU
  SubStream <- MainOnly
  Request <- VideoAndAudio
  Port <- TwoPorts
  MaxCalls = 2
  MaxLinks = 2
  Front <- Direct
  Routed <- NoRoute
  FreedNext <- AnyFreed
  MaxRefs = 3
  MaxNodes = 2
SYMMETRY Symmetry
INVARIANTS TypeOK FreeUnlisted OwnAnswersTrue EveryViewer FailedOpenRemoved
PROPERTIES LeaksOnlyAtLoss AnswerIsLocal Subscribed
