SPECIFICATION HistoryFairSpec
CONSTANTS
  Patch = {h1, h2}
  Request <- MCRequest
  Default <- MCDefault
  MaxNow = 4
  MaxTraffic = 1
  MaxFaults = 1
INVARIANTS
  TimerFollowsSettings
  CountedOnce
PROPERTIES
  KeptForRetention
  ExpiredRowsGo
CHECK_DEADLOCK FALSE
