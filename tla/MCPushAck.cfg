\* three packets to one client, two protocol workers, a window of two frames
CONSTANTS
  MaxPushes = 3
  PWorkers = {w1, w2}
  Nobody = Nobody
  Window = 2
SPECIFICATION FairSpec
INVARIANTS CopiesAdjacent StrayAcksAreLate NotClosedUnderSend
PROPERTIES WorkerComesBack RefusedIsResent
CHECK_DEADLOCK FALSE
