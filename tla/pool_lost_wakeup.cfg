SPECIFICATION FairSpec
CONSTANTS
  w1 = w1
  w2 = w2
  u1 = u1
  u2 = u2
  wa = wa
  wb = wb
  wc = wc
  None = None
  Workers = {w1, w2}
  Users = {u1}
  Works = {wa, wb, wc}
  WorkObj <- DistinctObjects
  MayFail = {}
  QueueTypes = {"MultiThread"}
  MaxQueues = 2
  MaxBatch = 2
  ForceChoices = {TRUE, FALSE}
  Adders = {w1, w2, u1}
  Executors = {}
  Runners = {}
  Removers = {w1}
  Shutters = {}
PROPERTIES
  RemoveQueueReturns
CHECK_DEADLOCK FALSE
