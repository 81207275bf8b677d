SPECIFICATION Spec
CONSTANTS
  a1 = a1
  a2 = a2
  None = None
  Addr <- MCAddr
  Revision <- MCRevision
  Content <- MCContent
  TimerId = {1, 2, 3}
  MaxTime = 3
INVARIANT LeaseKeepsRoutes
