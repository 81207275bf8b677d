SPECIFICATION FairSpec
CONSTANTS
  Conn = {c1, c2}
  Admin = {a1}
  None = None
  MaxFaults = 2
INVARIANTS
  OneControlConnection
  RevokedIsCut

PROPERTIES
  ConnectedIsOnline
  RevocationEnds
  RegistrationEnds
