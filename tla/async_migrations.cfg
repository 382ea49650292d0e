SPECIFICATION FairMonitoredSpec
CONSTANTS
  Operations <- TwoMigrations
  Required = {2}
  Workers = {w1, w2}
  Requests = {"r1", "r2", "r3"}
  Scenarios <- Combinations
  MaxTasks = 3
  NoTask = 0
INVARIANTS TypeOK OperationsInOrder StatusTellsEffects
PROPERTIES ImplementsChain RunsEnd
CHECK_DEADLOCK FALSE
