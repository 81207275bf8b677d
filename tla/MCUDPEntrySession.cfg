SPECIFICATION Spec
CONSTANTS
  d1 = d1
  d2 = d2
  Nil = Nil
  Datagram <- MCBoth
  Size <- MCSize
  MaxSessions = 2
  MaxTransports = 1
  MaxGen = 1
  MaxAttempts = 1
  QueueEntries = 2
  QueueBytes = 2
INVARIANTS
  OneLiveSession
  QueueAccounting
CHECK_DEADLOCK FALSE
