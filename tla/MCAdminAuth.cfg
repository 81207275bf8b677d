SPECIFICATION Spec
CONSTANTS
  Request = {r1, r2, r3, r4}
  User = {root, other}
  Threshold = 2
  BlockUnit = 2
  TTL = 2
  MaxEntries = 2
  MaxSessions = 1
  Lifetime = 2
  MaxNow = 3
SYMMETRY Symmetric
INVARIANTS
  OneAdministrator
  EnabledIsProved
PROPERTIES
  BlockHolds
