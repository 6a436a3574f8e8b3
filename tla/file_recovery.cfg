SPECIFICATION Spec
CONSTANTS
  w1 = w1
  r1 = r1
  Procs = {w1, r1}
  Readers = {w1, r1}
  Writers = {w1}
  Removers = {w1}
  Settings <- UsedSettings
  IgnoreLock = {TRUE, FALSE}
  LockRetries = 1
  MaxWrites = 2
  MaxFaults = 2
INVARIANTS
  ReadsAreWhole
  ReadsAreRecent
  AVersionRemains
  NoLockIsLeft
PROPERTIES
  CommitSucceeds
  CallsEnd
