\* two connections on one address, two packets, two workers for handlers and for frames
CONSTANTS
  Packets = {1, 2}
  Datagrams = {2}
  Conns = {1, 2}
  Addrs = {a1}
  Nobody = Nobody
  IWidth = 1
  HWidth = 2
  PWidth = 2
SPECIFICATION FairSpec
INVARIANTS TypeOK ClosedOnce AnswersGoHome WireInTsOrder
PROPERTIES NoneLeaks Accounted PoolsAsPromised
CHECK_DEADLOCK FALSE
