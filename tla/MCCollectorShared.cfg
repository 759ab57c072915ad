SPECIFICATION ColSpec
CONSTANTS
  Monitors = {m1, m2}
  BadMonitors = {}
  LateMonitors = {}
  Unparsed = {}
  Rereads = FALSE
  NoAddress = NoAddress
  MaxInits = 2
  MaxTicks = 2
INVARIANTS
  SentAsConfigured
CHECK_DEADLOCK FALSE
