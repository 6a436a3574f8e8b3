SPECIFICATION Spec
CONSTANTS
  w1 = w1
  w2 = w2
  u1 = u1
  u2 = u2
  wa = wa
  wb = wb
  wc = wc
  None = None
  Workers = {w1, w2}
  Users = {u1, u2}
  Works = {wa, wb, wc}
  WorkObj <- SharedObject
  MayFail = {}
  QueueTypes = {"SingleThread", "Manual"}
  MaxQueues = 2
  MaxBatch = 2
  ForceChoices = {TRUE, FALSE}
  Adders = {w1, w2, u1}
  Executors = {}
  Runners = {u1, u2}
  Removers = {u1}
  Shutters = {u1}
SYMMETRY WorkerSymmetry
INVARIANTS
  LoadCount
  SingleThreadExclusive
  MultiThreadNeverWaits
  RemovedQueueIsQuiet
  SubscriptsAreValid
  ShutdownLosesNothing
PROPERTIES
  SingleThreadInOrder
  ImplementsWorkPool
