\* three drop messages, two timer flushes, with Stop and a process exit at any moment
CONSTANTS
  Msgs = {m1, m2, m3}
  BufSize = 1
  Timers = {t1, t2, t3}
  Flushes = {f1, f2}
  Timeout = 2
  Stop = Stop
  Logger = Logger
  Off = Off
SPECIFICATION FairSpec
INVARIANTS TypeOK BatchCovered OnePlace
PROPERTY PendingIsFlushed
CHECK_DEADLOCK FALSE
