\* safety and liveness of one FIFO lane: two workers, four calls of which one
\* passes nil and one comes from a listener, and a Stop at any moment
CONSTANTS
  Workers = {w1, w2}
  NoWorker = NoWorker
  Tasks = {t1, t2, t3, n1}
  NilTasks = {n1}
  Direct = {t3}
  NoTask = NoTask
SPECIFICATION FairSpec
INVARIANTS TypeOK GuardedWait Ledger WakeupsCoverQueue
PROPERTIES QueuedBeforeStopRuns OutsideWindowExits KeepsPromise
CHECK_DEADLOCK FALSE
