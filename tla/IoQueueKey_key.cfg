SPECIFICATION Spec
CONSTANTS
  s1 = s1  s2 = s2  r1 = r1  r2 = r2  p1 = p1  p2 = p2  k1 = k1  k2 = k2
  App = App
  NoThread = NoThread
  Null = Null
  OpKeys <- Keys
  Senders <- TwoSenders
  Receivers <- TwoReceivers
  Pollers <- TwoPollers
  Uses <- SafeUses
  MaxMessages = 2
  Size = 2
  MaxArrivals = 3
SYMMETRY Symmetry
INVARIANTS TypeOK PendingWatched ListsLinked CompletedOnce ReportedTrue SentOnce InOrder ReadsInOrder NothingLost LockExcludes
PROPERTIES NoWatchAfterClose
CHECK_DEADLOCK FALSE
