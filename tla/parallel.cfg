SPECIFICATION FairSpec
CONSTANTS
  Callers = {0, 1, 2}
  Submitters = {0, 1, 2}
  NoCaller = NoCaller
  MaxRounds = 2
  NrTraces = 3
  maxqueuesize = 2
  MinThreadSize = 1
  Scenarios <- Served
INVARIANTS
  RoundsAreSeparate
  WrittenInOrder
  DoneWhenReturned
PROPERTIES
  ExecuteReturns
CHECK_DEADLOCK FALSE
