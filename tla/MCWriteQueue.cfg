SPECIFICATION WQSpec
CONSTANTS
  Producers = {p1, p2}
  MaxSize = 2
  BatchSize = 2
  MaxItems = 2
  MaxCalls = 2
SYMMETRY Symmetry
INVARIANTS
  QueueBound
  FifoPerProducer
  CallsContiguous
  CountersAccount
PROPERTIES
  ImplementsPipe
