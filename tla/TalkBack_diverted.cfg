SPECIFICATION Spec
CONSTANTS
  u1 = u1  u2 = u2  u3 = u3  g1 = g1  g2 = g2
  NoCU = NoCU
  NoCsg = NoCsg
  CU <- TwoCUs
  Csg <- TwoCsgs
  MaxEntries = 2
  MaxLinks = 3
  RefRange = 8
  MaxListed = 4
  MaxNodes = 3
  MaxCloses = 2
INVARIANTS Undisturbed
