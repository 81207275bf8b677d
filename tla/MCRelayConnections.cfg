SPECIFICATION FairSpec
CONSTANTS
  c1 = c1
  c2 = c2
  f0 = f0
  f1 = f1
  t0 = t0
  t1 = t1
  t2 = t2
  Conn = {c1, c2}
  Forward = {f0, f1}
  Tunnel = {t0, t1, t2}
  Stage <- MCStage
  Configs <- MCConfigs
  Absent = Absent
  MaxSlots = 1
  Attempts = 2
  MaxRuntimes = 2
INVARIANTS SocketsHoldSlots AuthorisedDial BlameIsDeserved
PROPERTY StoppedConnectionsEnd
