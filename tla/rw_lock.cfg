SPECIFICATION FairSpec
CONSTANTS
  t1 = t1
  t2 = t2
  t3 = t3
  Threads = {t1, t2, t3}
  Uses <- SoundUses
  MaxCalls = 3
INVARIANTS
  WriterIsAlone
  LockKnowsHolders
  PermissiveIsAlone
PROPERTIES
  CallsReturn
CHECK_DEADLOCK FALSE
