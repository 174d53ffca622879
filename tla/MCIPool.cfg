\* a standard lane of one worker and one call, iCore with two workers, one
\* receipt from AssignR and one from a reader, and a Stop at any moment
CONSTANTS
  IWorkers = {i1}
  ITasks = {t1}
  RWorkers = {c1, c2}
  RTasks = {r1, r2}
  RDirect = {r2}
  NoWorker = NoWorker
  NoTask = NoTask
SPECIFICATION FairSpec
PROPERTY LanesApart
CHECK_DEADLOCK FALSE
