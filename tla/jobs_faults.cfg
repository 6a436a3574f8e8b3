SPECIFICATION FairSpec
CONSTANTS
  h1 = h1
  h2 = h2
  None = None
  Hosts = {h1}
  NrJobs = 1
  MaxJobFailures = 0
  MaxJobHostFails = 1
  MaxHostFailures = 0
  MaxQueue = 1
  MaxCalls = 1
  MaxStartFails = 1
  MaxDeaths = 1
  MaxLost = 1
  Chat = {"progress", "working", "joberror", "hosterror"}
  Pausing = TRUE
INVARIANTS
  CompletedIsDone
PROPERTIES
  AssignedEnds
