CONSTANTS
  MaxPool = 2
  PoolSizes = {1, 2}
  Napi = {TRUE, FALSE}
  Lockups = {TRUE, FALSE}
  MaxAsked <- Asked
  MayClose = {1}
  Watched = {0}
  Cpus = 1
SPECIFICATION Spec
CHECK_DEADLOCK FALSE
INVARIANTS
  Conserved
  NeverDeaf
  QueueRestarts
