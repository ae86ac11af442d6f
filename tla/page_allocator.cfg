SPECIFICATION FairSpec
CONSTANTS
  t1 = t1
  t2 = t2
  Thread <- MCThread
  PageSize = 3
  Capacity = 10
  Layouts <- MCLayout
  MaxAllocs = 4
INVARIANTS
  TypeOK
  GrantsAreSafe
  LivePagesDisjoint
  NothingWasted
PROPERTIES
  CursorMonotonic
  AllocReturns
