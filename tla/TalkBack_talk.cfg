SPECIFICATION Spec
CONSTANTS
  u1 = u1  u2 = u2  u3 = u3  g1 = g1  g2 = g2
  NoCU = NoCU
  NoCsg = NoCsg
  CU <- ThreeCUs
  Csg <- TwoCsgs
  MaxEntries = 2
  MaxLinks = 3
  RefRange = 4
  MaxListed = 4
  MaxNodes = 2
  MaxCloses = 2
SYMMETRY Symmetry
INVARIANTS TypeOK OneEntry FirstCloseHarmless
PROPERTIES OpenHeard CloseSent
