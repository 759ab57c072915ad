SPECIFICATION PushFairSpec
CONSTANTS
  Names = {w1}
  Namespaces = {ns1}
  Keys <- MCKeys
  Options = {"a", "b", "bad"}
  BadOptions = {"bad"}
  NoWriter = NoWriter
  NoObject = NoObject
  MaxEdits = 2
  MaxFaults = 0
PROPERTIES
  ReconcileEnds
CHECK_DEADLOCK FALSE
