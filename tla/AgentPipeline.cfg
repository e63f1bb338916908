SPECIFICATION Spec
CONSTANTS
  UniverseSize = 5
  LunaMax = 3
  BatchSize = 3
  MinBatch = 1
  BatchTopK = 2
  FinalMax = 3
  FinalTopK = 3
  MaxRuns = 3
  MaxScreenings = 1
  MaxToolRounds = 1
  SolOnlyMax = 3
  DeepFrom = 3
  TopCount = 2
  Configs <- MCConfigs
INVARIANTS
  EveryRowOnce
  NoDecisionOnAGap
  BoughtWasCompared
  ResumedWhereItFailed
\* No run starts after the last one.
CHECK_DEADLOCK FALSE
