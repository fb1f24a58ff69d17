SPECIFICATION ExecutionSpec
INVARIANTS
  PoolIsExact
  BlocksReplay
PROPERTIES
  CommitIsExecution
CHECK_DEADLOCK FALSE
