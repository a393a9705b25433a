SPECIFICATION ThreadSpec
CONSTANTS
  Functions = {"reactor","workers","once"}
  Restartable = {"reactor","workers"}
  Pools = {"workers"}
  PoolSize = 2
  Ids = {1,2,3}
  Retries = 1
  MaxReturns = 4
  MaxSpawnFailures = 1
INVARIANTS
    ThreadInv
    NoThreadForgotten
PROPERTIES
    DeadThreadsRestart
    ExitsComplete
CHECK_DEADLOCK FALSE
