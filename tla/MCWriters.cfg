SPECIFICATION WritersFairSpec
CONSTANTS
  Producers = {p1}
  MaxSize = 2
  BatchSize = 2
  MaxItems = 2
  MaxCalls = 2
  Names = {w1}
  Options = {"good"}
  MaxBatches = 2
  MaxChanges = 2
  NoWriter = NoWriter
INVARIANTS
  ConstantWriterGetsAll
PROPERTIES
  QueueRefined
  EndToEnd
CHECK_DEADLOCK FALSE
