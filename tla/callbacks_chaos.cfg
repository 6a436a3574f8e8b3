SPECIFICATION Spec
CONSTANTS
  main = main
  worker = worker
  guest = guest
  host = host
  hall = hall
  door = door
  Nobody = Nobody
  Threads = {main, worker}
  Main = main
  Objects = {guest, host}
  Notifiers = {hall, door}
  Owner <- Owned
  Calls <- ChaosCalls
  QueuedCalls = {}
  MaxCalls = 3
  MaxDepth = 1
PROPERTIES
  NoCallAfterEnd
CHECK_DEADLOCK FALSE
