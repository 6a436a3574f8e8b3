SPECIFICATION FairSpec
CONSTANTS
  main = main
  worker = worker
  guest = guest
  host = host
  hall = hall
  door = door
  Nobody = Nobody
  Threads = {main, worker}
  Main = main
  Objects = {guest, host}
  Notifiers = {hall, door}
  Owner <- Owned
  Calls <- SoundCalls
  QueuedCalls = {"attach", "detach"}
  MaxCalls = 5
  MaxDepth = 1
INVARIANTS
  NothingDangles
  AttachmentIsMutual
PROPERTIES
  NoCallAfterEnd
  LocksAreReleased
  PostedIsCalled
CHECK_DEADLOCK FALSE
