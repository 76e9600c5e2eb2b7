SPECIFICATION Spec
CONSTANTS
  s1 = s1  s2 = s2  r1 = r1  r2 = r2  p1 = p1  p2 = p2  k1 = k1  k2 = k2
  App = App
  NoThread = NoThread
  Null = Null
  OpKeys <- Keys
  Senders <- TwoSenders
  Receivers <- OneReceiver
  Pollers <- OnePoller
  Uses <- MduUses
  MaxMessages = 1
  Size = 1
  MaxArrivals = 0
INVARIANTS ListsLinked
CHECK_DEADLOCK FALSE
