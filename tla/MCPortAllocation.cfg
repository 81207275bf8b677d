SPECIFICATION Spec
CONSTANTS
  n1 = n1
  n2 = n2
  n3 = n3
  t1 = t1
  t2 = t2
  f1 = f1
  f2 = f2
  Absent = Absent
  Node <- MCNode
  Tunnel <- MCTunnel
  Forward <- MCForward
  Handler = {h1, h2}
  PortRange <- MCPortRange
  Transport <- MCTransport
  TunnelRequest <- MCChainRequest
  ForwardRequest <- MCForwardRequest
  MaxRev = 4
INVARIANTS
  AllocationsUnique
  AllocationsAgree
  RoutesMeet
  KeysStay
PROPERTY LedgerSpec
SYMMETRY HandlerSymmetry
CHECK_DEADLOCK FALSE
