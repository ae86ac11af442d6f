SPECIFICATION Spec
CONSTANTS
  t1 = t1
  t2 = t2
  Task = {t1, t2}
  PageSize = 3
  HeaderSize = 2
  EntrySize = 1
  EntryAlign = 2
  MinCapacity = 2
  N = 24
  HEAP_START = 1
  Programs <- MCPrograms
  STACK_INIT = 15
  UserSize = 18
CHECK_DEADLOCK FALSE
INVARIANTS
  TypeOK
  ImageLoaded
  WellFormedNeverPanics
PROPERTY ExecuteEnds
