SPECIFICATION HandlersSpec
CONSTANTS
  InfoLines <- MCInfoLines
  MaxLines = 4
  ChConfigs <- MCChConfigs
  BadUrls = {"bad"}
  Clusters <- MCClusters
  UserOf <- MCUserOf
  RowsOf <- MCRowsOf
  MaxChFaults = 1
  MaxChInits = 2
  EsConfigs <- MCEsConfigs
  Names = {1, 2, 3, 4}
  Matches <- MCMatches
  BadPatterns = {"bad"}
  Trees <- MCTrees
  Flatten <- FullFlattenJSON
  MaxEsInits = 2
INVARIANTS
  InfoExact
  HostsAskedOnce
  MostRecentSampled
  FieldsExact
CHECK_DEADLOCK FALSE
