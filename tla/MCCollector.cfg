SPECIFICATION ColFairSpec
CONSTANTS
  Monitors = {m1, m2, m3, m4, m5}
  BadMonitors = {m3}
  LateMonitors = {m4, m5}
  Unparsed = {m4}
  Rereads = TRUE
  NoAddress = NoAddress
  MaxInits = 2
  MaxTicks = 2
INVARIANTS
  SentOnce
  GoodRunLeavesNothing
  MeasuredAtUsable
PROPERTIES
  GoodRunSent
CHECK_DEADLOCK FALSE
