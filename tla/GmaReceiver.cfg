SPECIFICATION FairSpec
CONSTANTS
  Cids = {0, 11}
  PreferLargeCidValue = TRUE
  DelayThresh = 5
  StepThresh = 1
  LossBound = 2
  MaxDelay = 1048575
  LsnSpace = 256
  FirstLsn = 254
  MaxMeasureInterval = 3
  MinDuration = 10
  MaxDuration = 1000
  BurstScalar = 2
  Propagation <- MCPropagation
  Scenarios <- MCScenarios
  MaxEvents = 3
INVARIANTS LossIsCounted
PROPERTIES DecisionIsMeasured CyclesEnd SplitSettles
