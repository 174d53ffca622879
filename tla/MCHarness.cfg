\* two clients at once in three scenarios, two workers, a Reset and a Stop at any moment
CONSTANTS
  Clients = {1, 2}
  Scenarios <- TwoClients
  MaxTasks = 3
  Bad <- Refused
  Width = 2
  TickUs = 3
  Scale = 2
  MaxNow = 1
  MaxSeq = 4
SPECIFICATION FairSpec
INVARIANTS RealOrder GroupsInOrder NoSendOnClosed CountsAddUp
PROPERTY JoinReturns
CHECK_DEADLOCK FALSE
