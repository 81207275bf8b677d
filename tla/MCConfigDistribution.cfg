SPECIFICATION FairSpec
CONSTANTS
  Admin = {a1, a2}
  MaxRev = 2
  MaxFaults = 1
PROPERTIES
  RunningNeverRollsBack
  RevisionConverges
  RevocationEffective
CHECK_DEADLOCK FALSE
