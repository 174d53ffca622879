CONSTANTS
  Workers = {w1, w2}
  NoWorker = NoWorker
  NaN = NaN
  Tasks <- MCTasks
  NoTask = NoTask
  MaxCalls = 3
SPECIFICATION FairSpec
INVARIANT WakeupsCoverHeap
PROPERTIES PushedBeforeStopRuns KeepsPromise
CHECK_DEADLOCK FALSE
