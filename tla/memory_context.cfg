SPECIFICATION Spec
CONSTANTS
  t1 = t1
  t2 = t2
  c1 = c1
  c2 = c2
  Thread = {t1, t2}
  Context = {c1, c2}
  NoContext = NoContext
  TlbSize = 1
  Address <- MCAddress
  PageSize = 2
  ROW_COUNT = 3
  L3_TABLE_COUNT = 2
  TABLES = 0
  Capacity = 24
  ASID_COUNT = 3
  MaxCalls = 3
SYMMETRY Symmetry
INVARIANTS
  TypeOK
  PagesExclusive
  ReturnedPageIsMapped
  TlbMatchesTables
  KernelMapIsLinear
PROPERTY ImplementsAddressMap
