SPECIFICATION FairSpec
CONSTANTS
  Docs = {d1, d2}
  BatchSize = 1
  Slack = 2
  Drift = 0
  SendTime = 1
  ListAge = 1
  MaxClock = 5
  MaxFaults = 1
INVARIANTS
  NothingSlipsBy
PROPERTIES
  PaidDayKept
  RowsCatchUp
CHECK_DEADLOCK FALSE
