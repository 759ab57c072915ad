SPECIFICATION FanFairSpec
CONSTANTS
  Names = {w1, w2}
  Options = {"good", "badUrl", "oddHeaders"}
  MaxBatches = 2
  MaxChanges = 3
  NoWriter = NoWriter
INVARIANTS
  BatchOrder
  DuplicatesOnlyByReRegister
  CrashCause
PROPERTIES
  StableWritersServed
CHECK_DEADLOCK FALSE
