SPECIFICATION MCFairSpec
CONSTANTS
  Names = {m1}
  Namespaces = {ns1}
  Specs = {"a", "b", "bad"}
  BadSpecs = {"bad"}
  Keys <- MCKeys
  Jobs <- MCJobs
  NoTask = NoTask
  NoObject = NoObject
  MaxEdits = 3
  MaxRuns = 2
  MaxFaults = 1
  MaxSteps = 2
INVARIANTS
  MCTypeOK
  NoDoubleClose
  NoLeakedLoop
  OneLoopPerName
  SettledTasks
PROPERTIES
  LastPushBackwards
  LoopForMonitor
  LoopsEnd
CHECK_DEADLOCK FALSE
