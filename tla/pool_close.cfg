SPECIFICATION FairSpec
CONSTANTS
  w1 = w1
  w2 = w2
  u1 = u1
  u2 = u2
  wa = wa
  wb = wb
  wc = wc
  None = None
  Workers = {w1}
  Users = {u1, u2}
  Works = {wa, wb}
  WorkObj <- DistinctObjects
  MayFail = {}
  QueueTypes = {"SingleThread"}
  MaxQueues = 2
  MaxBatch = 2
  ForceChoices = {TRUE, FALSE}
  Adders = {w1, u2}
  Executors = {u2}
  Runners = {}
  Removers = {u1}
  Shutters = {u1}
PROPERTIES
  PendingIsTaken
  RemoveQueueReturns
  ShutdownCompletes
