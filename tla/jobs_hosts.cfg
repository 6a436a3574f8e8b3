SPECIFICATION Spec
CONSTANTS
  h1 = h1
  h2 = h2
  None = None
  Hosts = {h1, h2}
  NrJobs = 2
  MaxJobFailures = 0
  MaxJobHostFails = 1
  MaxHostFailures = 3
  MaxQueue = 1
  MaxCalls = 3
  MaxStartFails = 0
  MaxDeaths = 0
  MaxLost = 0
  Chat = {}
  Pausing = FALSE
SYMMETRY HostSymmetry
INVARIANTS
  RetriesAreBounded
  UsedHostHasJob
  OneJobPerHost
  ListensToAssigned
PROPERTIES
  EndedStaysEnded
