SPECIFICATION FairSpec
CONSTANTS
  t1 = t1
  t2 = t2
  v1 = v1
  v2 = v2
  None = None
  Uninit = Uninit
  Idle = Idle
  Thread <- MCThread
  Value <- MCValue
INVARIANTS
  TypeOK
  NeverReadsUninit
PROPERTIES
  ImplementsWriteOnce
  LockReleased
