SPECIFICATION FanFairSpec
CONSTANTS
  Names = {w1, w2}
  Options = {"good"}
  MaxBatches = 1
  MaxChanges = 3
  NoWriter = NoWriter
PROPERTIES
  WritesToAllWriters
CHECK_DEADLOCK FALSE
