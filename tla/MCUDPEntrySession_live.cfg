SPECIFICATION FairSpec
CONSTANTS
  d1 = d1
  d2 = d2
  Nil = Nil
  Datagram <- MCOne
  Size <- MCSize
  MaxSessions = 1
  MaxTransports = 2
  MaxGen = 2
  MaxAttempts = 2
  QueueEntries = 2
  QueueBytes = 2
INVARIANTS
  NoTransportLeak
  FirstSendNotReplayed
PROPERTY
  StoppedSessionsEnd
CHECK_DEADLOCK FALSE
