\* the claim of invocation.go:164 that pools still stop, two workers and two calls
CONSTANTS
  Workers = {w1, w2}
  NoWorker = NoWorker
  Tasks = {t1, t2}
  NilTasks = {}
  Direct = {}
  NoTask = NoTask
SPECIFICATION FairSpec
PROPERTY PoolsStop
CHECK_DEADLOCK FALSE
