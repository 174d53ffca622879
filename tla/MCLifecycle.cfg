\* hosts of 2 and 8 cores, six Configs, two Starts of one engine or of two
CONSTANTS
  CoreCounts = {2, 8}
  Configs <- Spread
  Throughputs <- AroundEnough
  Enough = 2
  Order <- TcpUdpHttp
  MaxStarts = 2
SPECIFICATION FairSpec
INVARIANTS AdviceIsRange OpenWhileRunning
PROPERTY PublishedReturns
CHECK_DEADLOCK FALSE
