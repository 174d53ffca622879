\* the claim of tcp.go:65 about an ack that comes late, two packets
CONSTANTS
  MaxPushes = 2
  PWorkers = {w1, w2}
  Nobody = Nobody
  Window = 2
SPECIFICATION Spec
INVARIANT LateAckDropped
CHECK_DEADLOCK FALSE
