CONSTANTS
  c1 = c1
  c2 = c2
  c3 = c3
  Calls <- MCCalls
  ConfigAttempts <- MCAttempts
  MaxConns = 2
  Backoff <- MCBackoff
SPECIFICATION FairRunnerSpec
INVARIANTS
  RunnerTypeOK
  AtMostOneCommit
  ReplyIsTruthful
  PoolDiscipline
PROPERTIES
  RetryOnlyAfterRollback
  EveryCallReturns
CHECK_DEADLOCK FALSE
