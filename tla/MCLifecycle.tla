--------------------------- MODULE MCLifecycle ---------------------------
EXTENDS Lifecycle

TcpUdpHttp == <<"tcp", "udp", "http">>

Settings(i, p, h, r, a, n, l) ==
  [IWorkers |-> i, PWorkers |-> p, Workers |-> h, ICoreWorkers |-> r,
   Allocate |-> a, HeadroomN |-> n, Listen |-> l]

\* what is left for hPool on two and eight cores: some, exactly none, less than none;
\* without iWorkers, or fewer, no calibration returns, and there are listeners instead
Spread ==
  {Settings(1, 1, 0, 0, "all", 0, {}), Settings(3, 2, 5, 1, "all", 0, {}),
   Settings(2, 1, 0, 3, "some", 2, {"udp"}), Settings(1, 1, 4, 0, "some", 1, {}),
   Settings(-1, 1, -2, 0, "other", 0, {"tcp", "http"}), Settings(4, 2, 3, 2, "other", 1, {})}

\* negative, and values about Enough per worker for 1 to 4 workers
AroundEnough == {-1, 2, 5, 8}
=============================================================================
