SPECIFICATION MCFairSpec
CONSTANTS
  Names = {m1}
  Namespaces = {ns1}
  Specs = {"a", "b"}
  BadSpecs = {}
  Keys <- MCKeys
  Jobs <- MCJobs
  NoTask = NoTask
  NoObject = NoObject
  MaxEdits = 2
  MaxRuns = 1
  MaxFaults = 0
  MaxSteps = 1
PROPERTIES
  DesiredSpecReached
CHECK_DEADLOCK FALSE
