SPECIFICATION BlockingFairSpec
CONSTANTS
  Configs <- MCConfigs
  Answers <- MCAnswers
  Accepted = {"SLAVE"}
  MaxMyInits = 1
  MaxHurt = 1
  Addresses = {a1, a2, bad}
  Refused = {bad}
  Unlabelled = {bad}
  Gathers = {g1, g2}
  MaxInits = 2
  MaxRows = 1
  None = None
  s1 = s1
  s2 = s2
  Servers = {s1, s2}
  Masters = {s1}
  EsConfigs <- MCEsConfigs
  MaxEsCalls = 2
  MaxFailures = 2
INVARIANTS
  BytesSane
  NothingLostAlone
  StatesAddUp
  NoPoolLeftAlone
  OneServerAlone
  NilMeansComplete
  CrashCauses
PROPERTIES
  StatsFromMaster
  EveryGatherReturns
CHECK_DEADLOCK FALSE
