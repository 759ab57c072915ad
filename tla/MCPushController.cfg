SPECIFICATION PushFairSpec
CONSTANTS
  Names = {w1, w2}
  Namespaces = {ns1}
  Keys <- MCKeys
  Options = {"a", "b", "bad"}
  BadOptions = {"bad"}
  NoWriter = NoWriter
  NoObject = NoObject
  MaxEdits = 3
  MaxFaults = 1
INVARIANTS
  SettledWriters
PROPERTIES
  WritersFollowObjects
CHECK_DEADLOCK FALSE
