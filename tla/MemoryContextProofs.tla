-------------------------- MODULE MemoryContextProofs -------------------------
(***************************************************************************)
(* Proofs about MemoryContext, for any number of threads and contexts and  *)
(* for tables and memory of any size.                                      *)
(***************************************************************************)
EXTENDS MemoryContext, FiniteSetTheorems, TLAPS

-------------------------------------------------------------------------------
(***************************************************************************)
(* The inductive invariant.                                                *)
(***************************************************************************)
\* The pages that some context uses as a table.
Tables == {p \in PageAddress : kind[p] \in Level}

\* Memory is handed out in ascending order, after the kernel's own tables, which
\* nothing changes.
CursorInv ==
  /\ cursor % PageSize = 0 /\ End <= cursor
  /\ \A p \in PageAddress : kind[p] # -1 => End <= p /\ p < cursor
  /\ \A p \in KernelPages : mem[p] = CreateTables[p]

\* A page that is in use belongs to one context, whose root is a table of level 0.
OwnerInv ==
  /\ \A c \in Context : \A p \in owned[c] : kind[p] # -1
  /\ \A c, d \in Context : \A p \in owned[c] : p \in owned[d] => c = d
  /\ \A p \in PageAddress : kind[p] # -1 => \E c \in created : p \in owned[c]
  /\ \A c \in created :
       PhysicalAddress(root[c]) \in owned[c] /\ kind[PhysicalAddress(root[c])] = LEVEL_ROOT

\* A row of a table is zero, or it refers to a page of the level below in the
\* same context; no two rows refer to the same page.
RowInv ==
  /\ \A p \in Tables, i \in Index : mem[p][i] # EmptyRow =>
       /\ mem[p][i].type = TYPE_TABLE
       /\ mem[p][i].address \in PageAddress
       /\ kind[mem[p][i].address] = kind[p] + 1
       /\ mem[p][i].user = (kind[p] = LEVEL_MAX)
       /\ \A c \in Context : p \in owned[c] => mem[p][i].address \in owned[c]
  /\ \A p, q \in Tables, i, j \in Index :
       /\ mem[p][i] # EmptyRow /\ mem[q][j] # EmptyRow
       /\ mem[p][i].address = mem[q][j].address
       => p = q /\ i = j

\* The call that is under way in a thread has its context's lock, and has come
\* to a table of that context.
Walking(t) ==
  /\ arg[t].context \in created /\ lock[arg[t].context] /\ ~ret[t].ok
  /\ TablePage(t) \in owned[arg[t].context] /\ kind[TablePage(t)] = tm[t].level
  /\ tm[t].start % TableLen(tm[t].level) = 0
  /\ tm[t].level = LEVEL_ROOT => tm[t].start = 0
  /\ tm[t].level # LEVEL_ROOT => InTable(tm[t], arg[t].address)

\* The page that it has allocated is zero as far as it is a table, nothing refers
\* to it, and the row is still zero that its descriptor will be written to.
Writing(t) ==
  /\ InTable(tm[t], arg[t].address) /\ Value(t) = EmptyRow
  /\ new[t] \in owned[arg[t].context] /\ kind[new[t]] = tm[t].level + 1
  /\ tm[t].level # LEVEL_MAX => mem[new[t]] = ZeroTable
  /\ \A p \in Tables, i \in Index : mem[p][i] # EmptyRow => mem[p][i].address # new[t]

CallInv ==
  /\ \A t \in Thread : pc[t] # "idle" => Walking(t)
  /\ \A t \in Thread : pc[t] = "write" => Writing(t)
  /\ \A t, u \in Thread :
       pc[t] # "idle" /\ pc[u] # "idle" /\ arg[t].context = arg[u].context => t = u

\* What is cached was found in the kernel's tables, or in those of a context.
TlbInv ==
  \A e \in tlb :
    \/ e.asid = 0 /\ ~e.user
    \/ \E c \in created :
         e.asid = asid[c] /\ Translate(c, e.address) = {[page |-> e.page, user |-> e.user]}

\* The tables that the hardware's walk of an address comes to, level by level.
HwIndex(level, address) == (address \div RowLen(level)) % ROW_COUNT
Follow(m, S, level, address) == NextTables(RowsAt(m, S, level, address))
Reached(m, r, level, address) ==
  LET T1 == Follow(m, {r}, 0, address)
      T2 == Follow(m, T1, 1, address)
      T3 == Follow(m, T2, 2, address)
  IN  CASE level = 0 -> {r} [] level = 1 -> T1 [] level = 2 -> T2 [] level = 3 -> T3

\* The call has come to the table that the hardware's walk comes to.
PathInv ==
  \A t \in Thread : pc[t] # "idle" =>
    /\ TablePage(t) \in Reached(mem, PhysicalAddress(root[arg[t].context]), tm[t].level, arg[t].address)
    /\ arg[t].address \in Address
    /\ tm[t].level # LEVEL_ROOT => arg[t].address < VA_SIZE

\* What a call has returned is what the context that it was made for maps.
RetInv == \A t \in Thread : ret[t].ok => arg[t].context \in created

\* The identifiers are distinct, and not the boot tables', until the counter wraps.
AsidInv ==
  /\ IsFiniteSet(created)
  /\ Cardinality(created) < ASID_COUNT =>
       /\ counter = (Cardinality(created) + 1) % ASID_COUNT
       /\ \A c \in created : asid[c] \in 1 .. Cardinality(created)
       /\ \A c, d \in created : asid[c] = asid[d] => c = d

Inv ==
  /\ TypeOK /\ CursorInv /\ OwnerInv /\ RowInv /\ CallInv /\ TlbInv

-------------------------------------------------------------------------------
(***************************************************************************)
(* Addresses.                                                              *)
(***************************************************************************)
\* What a row of a table maps is what a table of the next level maps, and a row
\* of the last level maps a page.
LEMMA Sizes ==
  /\ \A l \in Level : /\ TableLen(l) \in Nat \ {0} /\ RowLen(l) \in Nat \ {0}
                      /\ TableLen(l) = ROW_COUNT * RowLen(l)
  /\ RowLen(0) = TableLen(1) /\ RowLen(1) = TableLen(2) /\ RowLen(2) = TableLen(3)
  /\ RowLen(3) = PageSize
  /\ TableLen(0) = VA_SIZE /\ VA_SIZE \in Nat \ {0}
<1> USE PageTableAssumption
<1>1. \A a \in Nat : (ROW_COUNT * a) \div ROW_COUNT = a
  OBVIOUS
<1>2. \A a, b \in Nat \ {0} : a * b \in Nat \ {0}
  OBVIOUS
<1> DEFINE R1 == PageSize * ROW_COUNT
           R2 == ROW_COUNT * R1
           R3 == ROW_COUNT * R2
           R4 == ROW_COUNT * R3
<1>3. R1 \in Nat \ {0} /\ R2 \in Nat \ {0} /\ R3 \in Nat \ {0} /\ R4 \in Nat \ {0}
  BY <1>2
<1>4. /\ TableLen(3) = R1 /\ TableLen(2) = R2 /\ TableLen(1) = R3
      /\ TableLen(0) = R4 /\ VA_SIZE = R4
  BY DEF TableLen, Pow, LEVEL_MAX, VA_SIZE
<1>5. /\ TableLen(3) = ROW_COUNT * PageSize /\ TableLen(2) = ROW_COUNT * R1
      /\ TableLen(1) = ROW_COUNT * R2 /\ TableLen(0) = ROW_COUNT * R3
  BY <1>4
<1> HIDE DEF R1, R2, R3, R4
<1>6. RowLen(3) = PageSize /\ RowLen(2) = R1 /\ RowLen(1) = R2 /\ RowLen(0) = R3
  BY <1>1, <1>3, <1>5 DEF RowLen
<1>7. \A l \in Level : l = 0 \/ l = 1 \/ l = 2 \/ l = 3
  BY DEF Level, LEVEL_ROOT, LEVEL_MAX
<1> QED BY <1>3, <1>4, <1>5, <1>6, <1>7

LEMMA Levels == Level = {0, 1, 2, 3} /\ LEVEL_MAX = 3 /\ LEVEL_ROOT = 0
BY DEF Level, LEVEL_ROOT, LEVEL_MAX

\* A page of memory is a multiple of the page size that lies below Capacity, and
\* so below the end of what one table base register reaches.
LEMMA Pages ==
  /\ \A p \in PageAddress : p \in Nat /\ p % PageSize = 0 /\ p + PageSize <= Capacity
  /\ \A p \in Nat : p % PageSize = 0 /\ p + PageSize <= Capacity => p \in PageAddress
  /\ \A p \in PageAddress : p < VA_SIZE
<1> USE PageTableAssumption, MemoryContextAssumption
<1>1. ASSUME NEW p \in PageAddress
      PROVE  p \in Nat /\ p % PageSize = 0 /\ p + PageSize <= Capacity
  <2> PICK n \in 0 .. (Capacity \div PageSize) - 1 : p = n * PageSize
    BY DEF PageAddress
  <2>1. n \in Nat /\ (n + 1) * PageSize <= Capacity
    OBVIOUS
  <2> QED BY <2>1
<1>2. ASSUME NEW p \in Nat, p % PageSize = 0, p + PageSize <= Capacity
      PROVE  p \in PageAddress
  <2>1. p = (p \div PageSize) * PageSize /\ p \div PageSize \in Nat
    BY <1>2
  <2> DEFINE n == p \div PageSize
  <2>2. (n + 1) * PageSize <= Capacity
    BY <1>2, <2>1
  <2>3. n <= (Capacity \div PageSize) - 1
    BY <2>1, <2>2
  <2>4. n \in 0 .. (Capacity \div PageSize) - 1
    BY <2>1, <2>3
  <2> QED BY <2>1, <2>4 DEF PageAddress
<1>3. Capacity <= VA_SIZE
  <2>1. RowLen(0) \in Nat /\ VA_SIZE = ROW_COUNT * RowLen(0)
    BY Sizes, Levels
  <2> HIDE DEF VA_SIZE, RowLen
  <2>2. RowLen(0) <= ROW_COUNT * RowLen(0)
    BY <2>1
  <2> QED BY <2>1, <2>2
<1>4. VA_SIZE \in Nat
  BY Sizes
<1> QED BY <1>1, <1>2, <1>3, <1>4

\* virtual_address and physical_address are inverses on memory.
LEMMA Mapper ==
  ASSUME NEW p \in PageAddress
  PROVE  VirtualAddress(p) \in Nat /\ PhysicalAddress(VirtualAddress(p)) = p
<1>1. p \in Nat /\ p < VA_SIZE /\ VA_SIZE \in Nat \ {0}
  BY Pages, Sizes
<1>2. p % VA_SIZE = p
  BY <1>1
<1>3. 65535 * VA_SIZE + p \in Nat /\ (65535 * VA_SIZE + p) % VA_SIZE = p
  BY <1>1
<1> QED BY <1>2, <1>3 DEF VirtualAddress, PhysicalAddress, VA_START

\* The kernel's own tables are pages of memory below the first page that is
\* handed out.
LEMMA Kernel ==
  /\ KernelPages \subseteq PageAddress
  /\ \A p \in KernelPages : p < End
  /\ End \in Nat /\ End % PageSize = 0
<1> USE PageTableAssumption, MemoryContextAssumption
<1>1. ASSUME NEW n \in Nat
      PROVE  TABLES + n * PageSize \in Nat /\ (TABLES + n * PageSize) % PageSize = 0
  <2> DEFINE k == TABLES \div PageSize
  <2>1. k \in Nat /\ TABLES = k * PageSize
    OBVIOUS
  <2> HIDE DEF k
  <2>2. TABLES + n * PageSize = (k + n) * PageSize
    BY <2>1
  <2>3. \A m \in Nat : (m * PageSize) % PageSize = 0
    OBVIOUS
  <2> QED BY <2>1, <2>2, <2>3
<1>2. ASSUME NEW p \in KernelPages PROVE p \in PageAddress /\ p < End
  <2> PICK i \in 0 .. 2 + L3_TABLE_COUNT : p = TABLES + i * PageSize
    BY DEF KernelPages, KernelTable
  <2>1. p + PageSize <= Capacity
    BY <1>1
  <2>2. i * PageSize < (3 + L3_TABLE_COUNT) * PageSize
    <3>1. \A a, b \in Nat : a < b => a * PageSize < b * PageSize
      OBVIOUS
    <3> QED BY <3>1
  <2> QED BY <1>1, <2>1, <2>2, Pages DEF End
<1>3. 3 + L3_TABLE_COUNT \in Nat
  OBVIOUS
<1> QED BY <1>1, <1>2, <1>3 DEF End

\* The page that alloc() returns when it succeeds.
LEMMA Fresh ==
  ASSUME cursor \in Nat, cursor % PageSize = 0, CanAlloc
  PROVE  cursor \in PageAddress
BY Pages DEF CanAlloc

\* The row of an address that is in a table is a row of that table.
LEMMA RowsInTable ==
  ASSUME NEW l \in Level, NEW s \in Nat, NEW a \in Nat, s <= a, a < s + TableLen(l)
  PROVE  (a - s) \div RowLen(l) \in Index
<1>1. RowLen(l) \in Nat \ {0} /\ TableLen(l) = ROW_COUNT * RowLen(l) /\ ROW_COUNT \in Nat
  BY Sizes, PageTableAssumption
<1>2. \A r \in Nat \ {0}, n, k \in Nat : k < n * r => k \div r \in 0 .. n - 1
  OBVIOUS
<1> QED BY <1>1, <1>2 DEF Index

\* How the start of the next table relates to the address, and that the row that
\* row_by_address finds is the one that the hardware looks at.
LEMMA NextTable ==
  ASSUME NEW l \in Level, NEW s \in Nat, NEW a \in Nat,
         s % TableLen(l) = 0, s <= a, a < s + TableLen(l)
  PROVE  LET i == (a - s) \div RowLen(l)
             n == s + RowLen(l) * i
         IN  /\ n \in Nat /\ n % RowLen(l) = 0 /\ n <= a /\ a < n + RowLen(l)
             /\ i = HwIndex(l, a)
<1> DEFINE R == RowLen(l)
           i == (a - s) \div R
           k == s \div TableLen(l)
<1>1. R \in Nat \ {0} /\ TableLen(l) = ROW_COUNT * R /\ ROW_COUNT \in Nat \ {0}
  BY Sizes, PageTableAssumption
<1>2. i \in 0 .. ROW_COUNT - 1
  BY RowsInTable DEF Index
<1>3. k \in Nat /\ s = k * TableLen(l)
  BY Sizes
<1> HIDE DEF R, k
<1>4. a - s \in Nat
  OBVIOUS
<1>5. R * i <= a - s /\ a - s < R * i + R
  BY <1>1, <1>4
<1>6. s = (k * ROW_COUNT) * R
  BY <1>1, <1>3
<1> HIDE DEF i
<1>7. s + R * i = (k * ROW_COUNT + i) * R /\ k * ROW_COUNT + i \in Nat
  BY <1>1, <1>2, <1>3, <1>6
<1>8. \A m \in Nat : (m * R) % R = 0 /\ m * R \in Nat
  BY <1>1
<1>9. s + R * i \in Nat /\ (s + R * i) % R = 0
  BY <1>7, <1>8
<1>10. s + R * i <= a /\ a < s + R * i + R
  BY <1>1, <1>2, <1>5
<1>11. a \div R = k * ROW_COUNT + i
  <2>1. \A m, b \in Nat : m * R <= b /\ b < m * R + R => b \div R = m
    BY <1>1
  <2> QED BY <1>7, <1>10, <2>1
<1>12. (k * ROW_COUNT + i) % ROW_COUNT = i
  BY <1>1, <1>2, <1>3
<1> QED BY <1>9, <1>10, <1>11, <1>12 DEF HwIndex, i, R

LEMMA HwIndexIn == ASSUME NEW l \in Level, NEW a \in Nat PROVE HwIndex(l, a) \in Index
<1>1. RowLen(l) \in Nat \ {0} /\ ROW_COUNT \in Nat \ {0}
  BY Sizes, PageTableAssumption
<1>2. a \div RowLen(l) \in Nat
  BY <1>1
<1> QED BY <1>1, <1>2 DEF HwIndex, Index

-------------------------------------------------------------------------------
(***************************************************************************)
(* The hardware's walk, through any memory.                                *)
(***************************************************************************)
\* Level by level, and what the walk finds.
LEMMA WalkSteps ==
  ASSUME NEW m, NEW r, NEW a
  PROVE  /\ Reached(m, r, 0, a) = {r}
         /\ Reached(m, r, 1, a) = Follow(m, Reached(m, r, 0, a), 0, a)
         /\ Reached(m, r, 2, a) = Follow(m, Reached(m, r, 1, a), 1, a)
         /\ Reached(m, r, 3, a) = Follow(m, Reached(m, r, 2, a), 2, a)
         /\ Walk(m, r, a) =
              Leaves(RowsAt(m, Reached(m, r, 1, a), 1, a), TYPE_BLOCK, 1, a) \cup
              Leaves(RowsAt(m, Reached(m, r, 2, a), 2, a), TYPE_BLOCK, 2, a) \cup
              Leaves(RowsAt(m, Reached(m, r, 3, a), 3, a), TYPE_PAGE, 3, a)
BY DEF Walk, Reached, Follow

LEMMA FollowMembers ==
  ASSUME NEW m, NEW S, NEW l, NEW a, NEW q
  PROVE  q \in Follow(m, S, l, a) <=>
           \E p \in S : m[p][HwIndex(l, a)].type = TYPE_TABLE /\ m[p][HwIndex(l, a)].address = q
BY DEF Follow, NextTables, RowsAt, HwIndex

LEMMA LeafMembers ==
  ASSUME NEW m, NEW S, NEW type, NEW l, NEW a, NEW w
  PROVE  w \in Leaves(RowsAt(m, S, l, a), type, l, a) <=>
           \E p \in S :
             /\ m[p][HwIndex(l, a)].type = type
             /\ w = [page |-> m[p][HwIndex(l, a)].address + PageOf(a % RowLen(l)),
                     user |-> m[p][HwIndex(l, a)].user]
BY DEF Leaves, RowsAt, HwIndex

\* The same from one table, or from none.
LEMMA FollowNothing ==
  ASSUME NEW m, NEW q, NEW l, NEW a, m[q][HwIndex(l, a)].type # TYPE_TABLE
  PROVE  Follow(m, {q}, l, a) = {}
BY DEF Follow, NextTables, RowsAt, HwIndex

LEMMA FindNothing ==
  ASSUME NEW m, NEW q, NEW type, NEW l, NEW a, m[q][HwIndex(l, a)].type # type
  PROVE  Leaves(RowsAt(m, {q}, l, a), type, l, a) = {}
BY DEF Leaves, RowsAt, HwIndex

LEMMA FromNothing ==
  ASSUME NEW m, NEW type, NEW l, NEW a
  PROVE  Follow(m, {}, l, a) = {} /\ Leaves(RowsAt(m, {}, l, a), type, l, a) = {}
BY DEF Follow, NextTables, Leaves, RowsAt

\* The tables of the contexts in memory m, with the levels k: a row is zero or
\* refers to a page of the level below.
IsTree(m, k) ==
  \A p \in PageAddress : k[p] \in Level => \A i \in Index :
    \/ m[p][i] = EmptyRow
    \/ /\ m[p][i].type = TYPE_TABLE
       /\ m[p][i].address \in PageAddress
       /\ k[m[p][i].address] = k[p] + 1
       /\ m[p][i].user = (k[p] = LEVEL_MAX)

\* A walk of such tables comes to one table of each level at most.
LEMMA TreePath ==
  ASSUME NEW m, NEW k, IsTree(m, k), NEW r \in PageAddress, k[r] = 0, NEW a \in Nat
  PROVE  \A l \in Level : /\ \A p \in Reached(m, r, l, a) : p \in PageAddress /\ k[p] = l
                          /\ \A p, q \in Reached(m, r, l, a) : p = q
<1> DEFINE Good(S, l) == /\ \A p \in S : p \in PageAddress /\ k[p] = l
                         /\ \A p, q \in S : p = q
<1>1. ASSUME NEW S, NEW l \in 0 .. 2, Good(S, l) PROVE Good(Follow(m, S, l, a), l + 1)
  <2>1. l \in Level /\ HwIndex(l, a) \in Index
    BY HwIndexIn, Levels
  <2>2. ASSUME NEW q \in Follow(m, S, l, a)
        PROVE  q \in PageAddress /\ k[q] = l + 1
    <3>1. PICK p \in S : /\ m[p][HwIndex(l, a)].type = TYPE_TABLE
                         /\ m[p][HwIndex(l, a)].address = q
      BY FollowMembers
    <3>2. p \in PageAddress /\ k[p] = l
      BY <1>1
    <3>3. m[p][HwIndex(l, a)] # EmptyRow
      BY <3>1 DEF EmptyRow, TYPE_TABLE
    <3> QED BY <2>1, <3>1, <3>2, <3>3 DEF IsTree
  <2>3. ASSUME NEW q1 \in Follow(m, S, l, a), NEW q2 \in Follow(m, S, l, a) PROVE q1 = q2
    <3>1. PICK p1 \in S : m[p1][HwIndex(l, a)].address = q1
      BY FollowMembers
    <3>2. PICK p2 \in S : m[p2][HwIndex(l, a)].address = q2
      BY FollowMembers
    <3> QED BY <1>1, <3>1, <3>2
  <2> QED BY <2>2, <2>3
<1>2. Good({r}, 0)
  OBVIOUS
<1> HIDE DEF Good
<1>3. Good(Reached(m, r, 0, a), 0)
  BY <1>2, WalkSteps
<1>4. Good(Reached(m, r, 1, a), 1)
  BY <1>1, <1>3, WalkSteps
<1>5. Good(Reached(m, r, 2, a), 2)
  BY <1>1, <1>4, WalkSteps
<1>6. Good(Reached(m, r, 3, a), 3)
  BY <1>1, <1>5, WalkSteps
<1> QED BY <1>3, <1>4, <1>5, <1>6, Levels DEF Good

\* The rows that it goes by: no blocks, and at the last level the user's page.
LEMMA TreeWalk ==
  ASSUME NEW m, NEW k, IsTree(m, k), NEW r \in PageAddress, k[r] = 0, NEW a \in Nat, NEW w
  PROVE  w \in Walk(m, r, a) <=>
           \E p \in Reached(m, r, 3, a) :
             /\ m[p][HwIndex(3, a)] # EmptyRow
             /\ w = [page |-> m[p][HwIndex(3, a)].address, user |-> TRUE]
<1> DEFINE T(l) == Reached(m, r, l, a)
<1>1. ASSUME NEW l \in Level, NEW p \in T(l)
      PROVE  /\ p \in PageAddress /\ k[p] = l
             /\ HwIndex(l, a) \in Index
             /\ \/ m[p][HwIndex(l, a)] = EmptyRow
                \/ /\ m[p][HwIndex(l, a)].type = TYPE_TABLE
                   /\ m[p][HwIndex(l, a)].address \in PageAddress
                   /\ m[p][HwIndex(l, a)].user = (l = LEVEL_MAX)
  <2>1. p \in PageAddress /\ k[p] = l
    BY TreePath
  <2>2. HwIndex(l, a) \in Index
    BY HwIndexIn
  <2> QED BY <2>1, <2>2 DEF IsTree
<1>2. ASSUME NEW l \in {1, 2} PROVE Leaves(RowsAt(m, T(l), l, a), TYPE_BLOCK, l, a) = {}
  <2> SUFFICES ASSUME NEW x \in Leaves(RowsAt(m, T(l), l, a), TYPE_BLOCK, l, a) PROVE FALSE
    OBVIOUS
  <2>1. PICK p \in T(l) : m[p][HwIndex(l, a)].type = TYPE_BLOCK
    BY LeafMembers
  <2>2. l \in Level
    BY Levels
  <2> QED BY <1>1, <2>1, <2>2 DEF TYPE_BLOCK, TYPE_TABLE, EmptyRow
<1>3. Walk(m, r, a) = Leaves(RowsAt(m, T(3), 3, a), TYPE_PAGE, 3, a)
  <2>1. Leaves(RowsAt(m, T(1), 1, a), TYPE_BLOCK, 1, a) = {}
    BY <1>2
  <2>2. Leaves(RowsAt(m, T(2), 2, a), TYPE_BLOCK, 2, a) = {}
    BY <1>2
  <2> DEFINE B1 == Leaves(RowsAt(m, T(1), 1, a), TYPE_BLOCK, 1, a)
             B2 == Leaves(RowsAt(m, T(2), 2, a), TYPE_BLOCK, 2, a)
             P3 == Leaves(RowsAt(m, T(3), 3, a), TYPE_PAGE, 3, a)
  <2>3. Walk(m, r, a) = B1 \cup B2 \cup P3
    BY WalkSteps
  <2> HIDE DEF B1, B2, P3
  <2>4. B1 \cup B2 \cup P3 = P3
    BY <2>1, <2>2 DEF B1, B2
  <2> QED BY <2>3, <2>4 DEF P3
<1>4. PageOf(a % RowLen(3)) = 0
  <2>1. PageSize \in Nat \ {0} /\ RowLen(3) = PageSize
    BY Sizes, PageTableAssumption
  <2>2. (a % PageSize) \div PageSize = 0
    BY <2>1
  <2> QED BY <2>1, <2>2 DEF PageOf
<1>5. ASSUME NEW p \in T(3)
      PROVE  /\ m[p][HwIndex(3, a)].type = TYPE_PAGE <=> m[p][HwIndex(3, a)] # EmptyRow
             /\ m[p][HwIndex(3, a)].type = TYPE_PAGE =>
                  /\ m[p][HwIndex(3, a)].user = TRUE
                  /\ m[p][HwIndex(3, a)].address + PageOf(a % RowLen(3)) = m[p][HwIndex(3, a)].address
  <2>1. 3 \in Level /\ LEVEL_MAX = 3
    BY Levels
  <2>2. CASE m[p][HwIndex(3, a)] = EmptyRow
    BY <2>2 DEF EmptyRow, TYPE_PAGE
  <2>3. CASE m[p][HwIndex(3, a)] # EmptyRow
    <3>1. /\ m[p][HwIndex(3, a)].type = TYPE_PAGE /\ m[p][HwIndex(3, a)].user = TRUE
          /\ m[p][HwIndex(3, a)].address \in Nat
      BY <1>1, <2>1, <2>3, Pages DEF TYPE_PAGE, TYPE_TABLE
    <3> QED BY <1>4, <2>3, <3>1
  <2> QED BY <2>2, <2>3
<1> HIDE DEF T
<1>6. w \in Walk(m, r, a) <=>
        \E p \in T(3) : /\ m[p][HwIndex(3, a)].type = TYPE_PAGE
                        /\ w = [page |-> m[p][HwIndex(3, a)].address + PageOf(a % RowLen(3)),
                                user |-> m[p][HwIndex(3, a)].user]
  BY <1>3, LeafMembers
<1>7. w \in Walk(m, r, a) <=>
        \E p \in T(3) : /\ m[p][HwIndex(3, a)] # EmptyRow
                        /\ w = [page |-> m[p][HwIndex(3, a)].address, user |-> TRUE]
  BY <1>5, <1>6
<1> QED BY <1>7 DEF T

\* The walk finds nothing, or one page that the user may write.
LEMMA TreeWalkUnique ==
  ASSUME NEW m, NEW k, IsTree(m, k), NEW r \in PageAddress, k[r] = 0, NEW a \in Nat,
         NEW v \in Walk(m, r, a), NEW w \in Walk(m, r, a)
  PROVE  v = w
<1>1. PICK p \in Reached(m, r, 3, a) :
        w = [page |-> m[p][HwIndex(3, a)].address, user |-> TRUE]
  BY TreeWalk
<1>2. PICK q \in Reached(m, r, 3, a) :
        v = [page |-> m[q][HwIndex(3, a)].address, user |-> TRUE]
  BY TreeWalk
<1>3. q = p
  BY TreePath, Levels
<1> QED BY <1>1, <1>2, <1>3

LEMMA TreeWalkPage ==
  ASSUME NEW m, NEW k, IsTree(m, k), NEW r \in PageAddress, k[r] = 0, NEW a \in Nat,
         NEW w \in Walk(m, r, a)
  PROVE  \E p \in PageAddress : k[p] = LEVEL_MAX + 1 /\ w = [page |-> p, user |-> TRUE]
<1>1. PICK p \in Reached(m, r, 3, a) :
        /\ m[p][HwIndex(3, a)] # EmptyRow
        /\ w = [page |-> m[p][HwIndex(3, a)].address, user |-> TRUE]
  BY TreeWalk
<1>2. 3 \in Level /\ LEVEL_MAX = 3
  BY Levels
<1>3. p \in PageAddress /\ k[p] = 3 /\ HwIndex(3, a) \in Index
  BY <1>2, TreePath, HwIndexIn
<1>4. m[p][HwIndex(3, a)].address \in PageAddress /\ k[m[p][HwIndex(3, a)].address] = 4
  BY <1>1, <1>2, <1>3 DEF IsTree
<1> DEFINE q == m[p][HwIndex(3, a)].address
<1>5. q \in PageAddress /\ k[q] = LEVEL_MAX + 1 /\ w = [page |-> q, user |-> TRUE]
  BY <1>1, <1>2, <1>4
<1> HIDE DEF q
<1> QED BY <1>5

\* No row that is in use changes from m to n.
Grows(m, n, k) ==
  \A p \in PageAddress, i \in Index :
    k[p] \in Level /\ m[p][i] # EmptyRow => n[p][i] = m[p][i]

\* As tables only grow, so does what is reached ...
LEMMA ReachedGrows ==
  ASSUME NEW m, NEW n, NEW k, IsTree(m, k), Grows(m, n, k),
         NEW r \in PageAddress, k[r] = 0, NEW a \in Nat
  PROVE  \A l \in Level : Reached(m, r, l, a) \subseteq Reached(n, r, l, a)
<1> DEFINE M(l) == Reached(m, r, l, a)
           N(l) == Reached(n, r, l, a)
<1>1. ASSUME NEW l \in 0 .. 2, M(l) \subseteq N(l)
      PROVE  Follow(m, M(l), l, a) \subseteq Follow(n, N(l), l, a)
  <2> SUFFICES ASSUME NEW q \in Follow(m, M(l), l, a) PROVE q \in Follow(n, N(l), l, a)
    OBVIOUS
  <2>1. PICK p \in M(l) : /\ m[p][HwIndex(l, a)].type = TYPE_TABLE
                          /\ m[p][HwIndex(l, a)].address = q
    BY FollowMembers
  <2>2. l \in Level
    BY Levels
  <2>3. p \in PageAddress /\ k[p] = l /\ HwIndex(l, a) \in Index
    BY <2>2, TreePath, HwIndexIn
  <2>4. m[p][HwIndex(l, a)] # EmptyRow
    BY <2>1 DEF EmptyRow, TYPE_TABLE
  <2>5. n[p][HwIndex(l, a)] = m[p][HwIndex(l, a)]
    BY <2>2, <2>3, <2>4 DEF Grows
  <2>6. p \in N(l)
    BY <1>1
  <2> QED BY <2>1, <2>5, <2>6, FollowMembers
<1>2. M(0) \subseteq N(0)
  BY WalkSteps
<1>3. /\ M(1) = Follow(m, M(0), 0, a) /\ M(2) = Follow(m, M(1), 1, a)
      /\ M(3) = Follow(m, M(2), 2, a)
      /\ N(1) = Follow(n, N(0), 0, a) /\ N(2) = Follow(n, N(1), 1, a)
      /\ N(3) = Follow(n, N(2), 2, a)
  BY WalkSteps
<1> HIDE DEF M, N
<1>4. M(1) \subseteq N(1)
  BY <1>1, <1>2, <1>3
<1>5. M(2) \subseteq N(2)
  BY <1>1, <1>4, <1>3
<1>6. M(3) \subseteq N(3)
  BY <1>1, <1>5, <1>3
<1>7. \A l \in Level : M(l) \subseteq N(l)
  BY <1>2, <1>4, <1>5, <1>6, Levels
<1> QED BY <1>7 DEF M, N

\* ... and what the walk has found, it keeps finding.
LEMMA WalkGrows ==
  ASSUME NEW m, NEW k, NEW n, NEW j, IsTree(m, k), IsTree(n, j), Grows(m, n, k),
         NEW r \in PageAddress, k[r] = 0, j[r] = 0, NEW a \in Nat, Walk(m, r, a) # {}
  PROVE  Walk(n, r, a) = Walk(m, r, a)
<1>1. PICK w : w \in Walk(m, r, a)
  OBVIOUS
<1>2. PICK p \in Reached(m, r, 3, a) :
        /\ m[p][HwIndex(3, a)] # EmptyRow
        /\ w = [page |-> m[p][HwIndex(3, a)].address, user |-> TRUE]
  BY <1>1, TreeWalk
<1>3. 3 \in Level
  BY Levels
<1>4. p \in PageAddress /\ k[p] = 3 /\ HwIndex(3, a) \in Index
  BY <1>3, TreePath, HwIndexIn
<1>5. n[p][HwIndex(3, a)] = m[p][HwIndex(3, a)]
  BY <1>2, <1>3, <1>4 DEF Grows
<1>6. p \in Reached(n, r, 3, a)
  BY <1>3, ReachedGrows
<1>7. w \in Walk(n, r, a)
  BY <1>2, <1>5, <1>6, TreeWalk
<1>8. \A v \in Walk(m, r, a) : v = w
  BY <1>1, TreeWalkUnique
<1>9. \A v \in Walk(n, r, a) : v = w
  BY <1>7, TreeWalkUnique
<1> QED BY <1>1, <1>7, <1>8, <1>9

-------------------------------------------------------------------------------
(***************************************************************************)
(* The kernel's own tables.                                                *)
(***************************************************************************)
\* They are different pages.
LEMMA KernelTableAt ==
  /\ \A i \in Nat : KernelTable(i) \in Nat
  /\ \A i, j \in Nat : KernelTable(i) = KernelTable(j) => i = j
  /\ \A i \in 0 .. 2 + L3_TABLE_COUNT : KernelTable(i) \in KernelPages
  /\ \A i \in Nat : (KernelTable(3 + i) - KernelTable(3)) \div PageSize = i
<1> USE PageTableAssumption
<1>1. \A i \in Nat : i * PageSize \in Nat
  OBVIOUS
<1>2. \A i, j \in Nat : i * PageSize = j * PageSize => i = j
  OBVIOUS
<1>3. ASSUME NEW i \in Nat PROVE (KernelTable(3 + i) - KernelTable(3)) \div PageSize = i
  <2>1. KernelTable(3 + i) - KernelTable(3) = i * PageSize
    BY DEF KernelTable
  <2>2. (i * PageSize) \div PageSize = i
    OBVIOUS
  <2> QED BY <2>1, <2>2
<1>4. \A i, j \in Nat : KernelTable(i) = KernelTable(j) => i = j
  BY <1>1, <1>2 DEF KernelTable
<1> QED BY <1>1, <1>3, <1>4 DEF KernelTable, KernelPages

LEMMA KernelFirstPages ==
  KernelTable(0) \in KernelPages /\ KernelTable(1) \in KernelPages /\ KernelTable(2) \in KernelPages
<1>1. 0 \in 0 .. 2 + L3_TABLE_COUNT /\ 1 \in 0 .. 2 + L3_TABLE_COUNT /\ 2 \in 0 .. 2 + L3_TABLE_COUNT
  BY PageTableAssumption
<1> QED BY <1>1 DEF KernelPages

\* Where they begin.
LEMMA KernelStarts ==
  /\ L0.table = KernelTable(0) /\ L1.table = KernelTable(1) /\ L2.table = KernelTable(2)
  /\ \A i \in Nat : L3(i).table = KernelTable(3 + i)
  /\ \A i \in Nat : RowStart(L1, i) = RowLen(1) * i /\ RowStart(L2, i) = RowLen(2) * i
  /\ \A i, j \in Nat : RowStart(L3(i), j) = RowLen(2) * i + RowLen(3) * j
<1>1. RowLen(0) \in Nat /\ RowLen(1) \in Nat /\ RowLen(2) \in Nat /\ RowLen(3) \in Nat
  BY Sizes, Levels
<1>2. \A a, b \in Nat : a * b \in Nat
  OBVIOUS
<1>3. L0.start = 0 /\ L0.level = 0 /\ L1.level = 1 /\ L2.level = 2 /\ \A i \in Nat : L3(i).level = 3
  BY DEF L0, L1, L2, L3
<1>4. L1.start = 0
  BY <1>1, <1>3 DEF L1, RowStart
<1>5. L2.start = 0
  BY <1>1, <1>3, <1>4 DEF L2, RowStart
<1>6. \A i \in Nat : RowStart(L1, i) = RowLen(1) * i /\ RowStart(L2, i) = RowLen(2) * i
  BY <1>1, <1>2, <1>3, <1>4, <1>5 DEF RowStart
<1>7. \A i \in Nat : L3(i).start = RowLen(2) * i
  BY <1>6 DEF L3
<1>8. \A i, j \in Nat : RowStart(L3(i), j) = RowLen(2) * i + RowLen(3) * j
  BY <1>1, <1>2, <1>3, <1>7 DEF RowStart
<1> QED BY <1>6, <1>8 DEF L0, L1, L2, L3

\* The descriptors of the kernel's pages, and all rows that are not the user's.
KernelPageDescriptor(a) == PageDescriptor(a, FALSE)
KernelRow == {row \in Row : row.user = FALSE}

\* What create_tables writes to them.
LEMMA KernelRows ==
  ASSUME NEW i \in Index
  PROVE  /\ CreateTables[KernelTable(0)][i] =
              IF i = 0 THEN TableDescriptor(KernelTable(1)) ELSE EmptyRow
         /\ CreateTables[KernelTable(1)][i] =
              IF i = 0 THEN TableDescriptor(KernelTable(2)) ELSE BlockDescriptor(RowLen(1) * i)
         /\ CreateTables[KernelTable(2)][i] =
              IF i < L3_TABLE_COUNT THEN TableDescriptor(KernelTable(3 + i))
                                    ELSE BlockDescriptor(RowLen(2) * i)
         /\ \A n \in 0 .. L3_TABLE_COUNT - 1 :
              CreateTables[KernelTable(3 + n)][i] =
                KernelPageDescriptor(RowLen(2) * n + RowLen(3) * i)
<1> USE PageTableAssumption
<1>1. 0 \in 0 .. 2 + L3_TABLE_COUNT /\ 1 \in 0 .. 2 + L3_TABLE_COUNT /\ 2 \in 0 .. 2 + L3_TABLE_COUNT
  OBVIOUS
<1>2. i \in Nat
  BY DEF Index
<1>3. CreateTables[KernelTable(0)][i] =
        IF i = 0 THEN TableDescriptor(KernelTable(1)) ELSE EmptyRow
  <2>1. CreateTables[KernelTable(0)] =
          [j \in Index |-> IF j = 0 THEN TableDescriptor(KernelTable(1)) ELSE EmptyRow]
    BY <1>1, KernelTableAt, KernelStarts DEF CreateTables
  <2> QED BY <2>1
<1>4. CreateTables[KernelTable(1)][i] =
        IF i = 0 THEN TableDescriptor(KernelTable(2)) ELSE BlockDescriptor(RowLen(1) * i)
  <2>1. CreateTables[KernelTable(1)] =
          [j \in Index |-> IF j = 0 THEN TableDescriptor(KernelTable(2)) ELSE BlockRow(L1, j)]
    BY <1>1, KernelTableAt, KernelStarts DEF CreateTables
  <2> QED BY <1>2, <2>1, KernelStarts DEF BlockRow
<1>5. CreateTables[KernelTable(2)][i] =
        IF i < L3_TABLE_COUNT THEN TableDescriptor(KernelTable(3 + i))
                              ELSE BlockDescriptor(RowLen(2) * i)
  <2>1. CreateTables[KernelTable(2)] =
          [j \in Index |-> IF j < L3_TABLE_COUNT THEN TableDescriptor(L3(j).table)
                                                 ELSE BlockRow(L2, j)]
    BY <1>1, KernelTableAt, KernelStarts DEF CreateTables
  <2> QED BY <1>2, <2>1, KernelStarts DEF BlockRow
<1>6. ASSUME NEW n \in 0 .. L3_TABLE_COUNT - 1
      PROVE  CreateTables[KernelTable(3 + n)][i] =
               KernelPageDescriptor(RowLen(2) * n + RowLen(3) * i)
  <2>1. 3 + n \in 0 .. 2 + L3_TABLE_COUNT /\ n \in Nat /\ 3 + n \in Nat
    OBVIOUS
  <2>2. KernelTable(3 + n) \in KernelPages
    BY <2>1, KernelTableAt
  <2>3. /\ KernelTable(3 + n) # L0.table /\ KernelTable(3 + n) # L1.table
        /\ KernelTable(3 + n) # L2.table
    <3>1. 3 + n # 0 /\ 3 + n # 1 /\ 3 + n # 2
      OBVIOUS
    <3>2. L0.table = KernelTable(0) /\ L1.table = KernelTable(1) /\ L2.table = KernelTable(2)
      BY KernelStarts
    <3>3. \A j \in Nat : j # 3 + n => KernelTable(3 + n) # KernelTable(j)
      BY <2>1, KernelTableAt
    <3> QED BY <3>1, <3>2, <3>3
  <2>4. (KernelTable(3 + n) - L3(0).table) \div PageSize = n
    <3>1. L3(0).table = KernelTable(3)
      BY KernelStarts
    <3> QED BY <2>1, <3>1, KernelTableAt
  <2>5. CreateTables[KernelTable(3 + n)] =
          [j \in Index |-> KernelPageDescriptor(RowStart(L3(n), j))]
    BY <2>2, <2>3, <2>4 DEF CreateTables, KernelPageDescriptor
  <2>6. RowStart(L3(n), i) = RowLen(2) * n + RowLen(3) * i
    BY <1>2, <2>1, KernelStarts
  <2> QED BY <2>5, <2>6
<1> QED BY <1>3, <1>4, <1>5, <1>6

LEMMA KernelPageCases ==
  ASSUME NEW p \in KernelPages
  PROVE  \/ p = KernelTable(0) \/ p = KernelTable(1) \/ p = KernelTable(2)
         \/ \E n \in 0 .. L3_TABLE_COUNT - 1 : p = KernelTable(3 + n)
<1> PICK i \in 0 .. 2 + L3_TABLE_COUNT : p = KernelTable(i)
  BY DEF KernelPages
<1>1. CASE i < 3
  BY <1>1
<1>2. CASE i >= 3
  <2>1. i - 3 \in 0 .. L3_TABLE_COUNT - 1 /\ 3 + (i - 3) = i
    BY <1>2, PageTableAssumption
  <2> QED BY <2>1
<1> QED BY <1>1, <1>2, PageTableAssumption

\* Their rows are descriptors that user programs cannot use.
LEMMA KernelRowType ==
  ASSUME NEW p \in KernelPages, NEW i \in Index
  PROVE  CreateTables[p][i] \in KernelRow
<1>1. /\ RowLen(1) \in Nat /\ RowLen(2) \in Nat /\ RowLen(3) \in Nat
      /\ i \in Nat /\ L3_TABLE_COUNT \in Nat
  BY Sizes, Levels, PageTableAssumption DEF Index
<1>2. RowLen(1) * i \in Nat /\ RowLen(2) * i \in Nat /\ \A n \in Nat : RowLen(2) * n + RowLen(3) * i \in Nat
  BY <1>1
<1>3. \A a \in Nat : /\ TableDescriptor(a) \in KernelRow /\ BlockDescriptor(a) \in KernelRow
                     /\ KernelPageDescriptor(a) \in KernelRow
  BY DEF KernelRow, Row, TableDescriptor, BlockDescriptor, PageDescriptor, KernelPageDescriptor,
         TYPE_TABLE, TYPE_BLOCK, TYPE_PAGE
<1>4. EmptyRow \in KernelRow
  BY DEF Row, EmptyRow, KernelRow
<1>5. \A n \in Nat : KernelTable(n) \in Nat
  BY KernelTableAt
<1>6. CASE p = KernelTable(0)
  BY <1>3, <1>4, <1>5, <1>6, KernelRows
<1>7. CASE p = KernelTable(1)
  BY <1>2, <1>3, <1>4, <1>5, <1>7, KernelRows
<1>8. CASE p = KernelTable(2)
  <2>1. TableDescriptor(KernelTable(3 + i)) \in KernelRow /\ BlockDescriptor(RowLen(2) * i) \in KernelRow
    BY <1>1, <1>2, <1>3, <1>5
  <2> QED BY <1>8, <2>1, KernelRows
<1>9. ASSUME NEW n \in 0 .. L3_TABLE_COUNT - 1, p = KernelTable(3 + n)
      PROVE  CreateTables[p][i] \in KernelRow
  <2>1. CreateTables[p][i] = KernelPageDescriptor(RowLen(2) * n + RowLen(3) * i)
    BY <1>9, KernelRows
  <2> QED BY <1>2, <1>3, <2>1
<1> QED BY <1>6, <1>7, <1>8, <1>9, KernelPageCases

\* The hardware's walk from the kernel's root stays in the kernel's tables.
LEMMA KernelReached ==
  ASSUME NEW m, \A p \in KernelPages : m[p] = CreateTables[p], NEW a \in Nat
  PROVE  /\ Reached(m, L0.table, 0, a) = {KernelTable(0)}
         /\ \A p \in Reached(m, L0.table, 1, a) : p = KernelTable(1)
         /\ \A p \in Reached(m, L0.table, 2, a) : p = KernelTable(2)
         /\ \A p \in Reached(m, L0.table, 3, a) :
              \E n \in 0 .. L3_TABLE_COUNT - 1 : p = KernelTable(3 + n)
<1> USE PageTableAssumption
<1>1. /\ m[KernelTable(0)] = CreateTables[KernelTable(0)]
      /\ m[KernelTable(1)] = CreateTables[KernelTable(1)]
      /\ m[KernelTable(2)] = CreateTables[KernelTable(2)]
  BY KernelFirstPages
<1>2. \A l \in 0 .. 3 : HwIndex(l, a) \in Index
  BY HwIndexIn, Levels
<1>3. Reached(m, L0.table, 0, a) = {KernelTable(0)}
  BY WalkSteps, KernelStarts
<1>4. ASSUME NEW q \in Reached(m, L0.table, 1, a) PROVE q = KernelTable(1)
  <2>1. /\ m[KernelTable(0)][HwIndex(0, a)].type = TYPE_TABLE
        /\ m[KernelTable(0)][HwIndex(0, a)].address = q
    BY <1>3, WalkSteps, FollowMembers
  <2>2. CreateTables[KernelTable(0)][HwIndex(0, a)] =
          IF HwIndex(0, a) = 0 THEN TableDescriptor(KernelTable(1)) ELSE EmptyRow
    BY <1>2, KernelRows
  <2> QED BY <1>1, <2>1, <2>2 DEF TableDescriptor, EmptyRow, TYPE_TABLE
<1>5. ASSUME NEW q \in Reached(m, L0.table, 2, a) PROVE q = KernelTable(2)
  <2>1. /\ m[KernelTable(1)][HwIndex(1, a)].type = TYPE_TABLE
        /\ m[KernelTable(1)][HwIndex(1, a)].address = q
    BY <1>4, WalkSteps, FollowMembers
  <2>2. CreateTables[KernelTable(1)][HwIndex(1, a)] =
          IF HwIndex(1, a) = 0 THEN TableDescriptor(KernelTable(2))
                               ELSE BlockDescriptor(RowLen(1) * HwIndex(1, a))
    BY <1>2, KernelRows
  <2> QED BY <1>1, <2>1, <2>2 DEF TableDescriptor, BlockDescriptor, TYPE_TABLE, TYPE_BLOCK
<1>6. ASSUME NEW q \in Reached(m, L0.table, 3, a)
      PROVE  \E n \in 0 .. L3_TABLE_COUNT - 1 : q = KernelTable(3 + n)
  <2> DEFINE i == HwIndex(2, a)
  <2>1. /\ m[KernelTable(2)][i].type = TYPE_TABLE
        /\ m[KernelTable(2)][i].address = q
    BY <1>5, WalkSteps, FollowMembers
  <2>2. i \in Index
    BY <1>2
  <2>3. i \in Nat
    BY <2>2 DEF Index
  <2> HIDE DEF i
  <2>4. CreateTables[KernelTable(2)][i] =
          IF i < L3_TABLE_COUNT THEN TableDescriptor(KernelTable(3 + i))
                                ELSE BlockDescriptor(RowLen(2) * i)
    BY <2>2, KernelRows
  <2>5. i < L3_TABLE_COUNT /\ q = KernelTable(3 + i)
    BY <1>1, <2>1, <2>4 DEF TableDescriptor, BlockDescriptor, TYPE_TABLE, TYPE_BLOCK
  <2>6. i \in 0 .. L3_TABLE_COUNT - 1
    BY <2>3, <2>5
  <2> QED BY <2>5, <2>6
<1> QED BY <1>3, <1>4, <1>5, <1>6

\* Whatever address it looks up there, what it finds is not the user's.
LEMMA KernelWalk ==
  ASSUME NEW m, \A p \in KernelPages : m[p] = CreateTables[p], NEW a \in Nat,
         NEW w \in Walk(m, L0.table, a)
  PROVE  w \in [page : Nat, user : {FALSE}]
<1>1. ASSUME NEW l \in 1 .. 3, NEW p \in Reached(m, L0.table, l, a) PROVE p \in KernelPages
  <2>1. CASE l = 1 \/ l = 2
    BY <2>1, KernelReached, KernelFirstPages
  <2>2. CASE l = 3
    <3> PICK n \in 0 .. L3_TABLE_COUNT - 1 : p = KernelTable(3 + n)
      BY <2>2, KernelReached
    <3>1. 3 + n \in 0 .. 2 + L3_TABLE_COUNT
      BY PageTableAssumption
    <3> QED BY <3>1, KernelTableAt
  <2> QED BY <2>1, <2>2
<1>2. \E l \in 1 .. 3, type \in {TYPE_BLOCK, TYPE_PAGE} : w \in Leaves(RowsAt(m, Reached(m, L0.table, l, a), l, a), type, l, a)
  <2>1. 1 \in 1 .. 3 /\ 2 \in 1 .. 3 /\ 3 \in 1 .. 3
    OBVIOUS
  <2> QED BY <2>1, WalkSteps
<1>3. PICK l \in 1 .. 3, type \in {TYPE_BLOCK, TYPE_PAGE} : w \in Leaves(RowsAt(m, Reached(m, L0.table, l, a), l, a), type, l, a)
  BY <1>2
<1>4. PICK p \in Reached(m, L0.table, l, a) :
        w = [page |-> m[p][HwIndex(l, a)].address + PageOf(a % RowLen(l)),
             user |-> m[p][HwIndex(l, a)].user]
  BY <1>3, LeafMembers
<1>5. l \in Level /\ HwIndex(l, a) \in Index
  BY HwIndexIn, Levels
<1>6. m[p][HwIndex(l, a)] \in KernelRow
  BY <1>1, <1>5, KernelRowType
<1>7. PageOf(a % RowLen(l)) \in Nat
  <2>1. RowLen(l) \in Nat \ {0} /\ PageSize \in Nat \ {0}
    BY <1>5, Sizes, PageTableAssumption
  <2>2. a % RowLen(l) \in Nat
    BY <2>1
  <2>3. \A b \in Nat : (b \div PageSize) * PageSize \in Nat
    BY <2>1
  <2> QED BY <2>2, <2>3 DEF PageOf
<1>8. m[p][HwIndex(l, a)].address \in Nat /\ m[p][HwIndex(l, a)].user = FALSE
  BY <1>6 DEF KernelRow, Row
<1>9. m[p][HwIndex(l, a)].address + PageOf(a % RowLen(l)) \in Nat
  BY <1>7, <1>8
<1> QED BY <1>4, <1>8, <1>9

\* What a row maps is a number of pages.
LEMMA RowLenPages == \A l \in Level : \E x \in Nat : RowLen(l) = x * PageSize
<1> DEFINE P == PageSize
           n == ROW_COUNT
<1>1. /\ RowLen(3) = 1 * P /\ RowLen(2) = n * RowLen(3)
      /\ RowLen(1) = n * RowLen(2) /\ RowLen(0) = n * RowLen(1)
  BY Sizes, Levels, PageTableAssumption
<1>2. n \in Nat /\ P \in Nat
  BY PageTableAssumption
<1>3. \A x, y, z \in Nat : x * (y * z) = (x * y) * z /\ x * y \in Nat
  OBVIOUS
<1> HIDE DEF P, n
<1>4. RowLen(3) = 1 * P /\ RowLen(2) = (n * 1) * P
  BY <1>1, <1>2, <1>3
<1>5. RowLen(1) = (n * (n * 1)) * P
  BY <1>1, <1>2, <1>3, <1>4
<1>6. RowLen(0) = (n * (n * (n * 1))) * P
  BY <1>1, <1>2, <1>3, <1>5
<1>7. n * 1 \in Nat /\ n * (n * 1) \in Nat /\ n * (n * (n * 1)) \in Nat
  BY <1>2, <1>3
<1> QED BY <1>4, <1>5, <1>6, <1>7, Levels DEF P

\* A page address is what its row at any level maps first, and the rest.
LEMMA RowAndRest ==
  ASSUME NEW l \in Level, NEW p \in PageAddress
  PROVE  RowLen(l) * (p \div RowLen(l)) + PageOf(p % RowLen(l)) = p
<1> DEFINE R == RowLen(l)
           P == PageSize
<1>1. R \in Nat \ {0} /\ P \in Nat \ {0} /\ p \in Nat /\ p % P = 0
  BY Sizes, Pages, PageTableAssumption
<1>2. \E x \in Nat : R = x * P
  BY RowLenPages
<1> HIDE DEF R, P
<1>3. PICK x \in Nat : R = x * P
  BY <1>2
<1> DEFINE d == p \div R
           e == p % R
           n == p \div P
<1>4. d \in Nat /\ e \in Nat /\ p = R * d + e
  BY <1>1
<1>5. n \in Nat /\ p = n * P
  BY <1>1
<1> HIDE DEF d, e, n
<1>6. e = (n - x * d) * P
  BY <1>1, <1>3, <1>4, <1>5
<1>7. n - x * d \in Int
  BY <1>4, <1>5
<1> DEFINE z == n - x * d
<1>8. z \in Int /\ e = z * P
  BY <1>6, <1>7
<1> HIDE DEF z
<1>9. (e \div P) * P = e
  BY <1>1, <1>4, <1>8
<1> QED BY <1>4, <1>9 DEF PageOf, d, e, P, R

\* create_tables maps all of memory to itself.
LEMMA KernelLinear ==
  ASSUME NEW m, \A p \in KernelPages : m[p] = CreateTables[p], NEW p \in PageAddress
  PROVE  Walk(m, L0.table, p) = {[page |-> p, user |-> FALSE]}
<1> DEFINE T(l) == Reached(m, L0.table, l, p)
           B1 == Leaves(RowsAt(m, T(1), 1, p), TYPE_BLOCK, 1, p)
           B2 == Leaves(RowsAt(m, T(2), 2, p), TYPE_BLOCK, 2, p)
           P3 == Leaves(RowsAt(m, T(3), 3, p), TYPE_PAGE, 3, p)
           found == [page |-> p, user |-> FALSE]
<1> USE PageTableAssumption
<1>1. p \in Nat /\ p < RowLen(0)
  BY Pages, MemoryContextAssumption, Sizes, Levels
<1>2. /\ RowLen(0) = ROW_COUNT * RowLen(1) /\ RowLen(1) = ROW_COUNT * RowLen(2)
      /\ RowLen(2) = ROW_COUNT * RowLen(3) /\ RowLen(3) = PageSize
      /\ RowLen(0) \in Nat \ {0} /\ RowLen(1) \in Nat \ {0} /\ RowLen(2) \in Nat \ {0}
  BY Sizes, Levels
<1>3. HwIndex(0, p) = 0
  <2>1. p \div RowLen(0) = 0
    BY <1>1, <1>2
  <2> QED BY <2>1 DEF HwIndex
<1>4. HwIndex(1, p) = p \div RowLen(1)
  <2>1. \A r \in Nat \ {0} : p < ROW_COUNT * r => p \div r \in Nat /\ p \div r < ROW_COUNT
    BY <1>1
  <2>2. p \div RowLen(1) \in Nat /\ p \div RowLen(1) < ROW_COUNT
    BY <1>1, <1>2, <2>1
  <2> QED BY <2>2 DEF HwIndex
<1>5. \A l \in 0 .. 3 : HwIndex(l, p) \in Index /\ HwIndex(l, p) \in Nat
  <2>1. \A l \in 0 .. 3 : HwIndex(l, p) \in Index
    BY <1>1, HwIndexIn, Levels
  <2> QED BY <2>1 DEF Index
<1>6. /\ m[KernelTable(0)] = CreateTables[KernelTable(0)]
      /\ m[KernelTable(1)] = CreateTables[KernelTable(1)]
      /\ m[KernelTable(2)] = CreateTables[KernelTable(2)]
  BY KernelFirstPages
<1>7. T(0) = {KernelTable(0)}
  BY <1>1, KernelReached
<1>8. T(1) = {KernelTable(1)}
  <2>1. m[KernelTable(0)][HwIndex(0, p)] = TableDescriptor(KernelTable(1))
    BY <1>3, <1>5, <1>6, KernelRows
  <2>2. KernelTable(1) \in T(1)
    BY <1>7, <2>1, WalkSteps, FollowMembers DEF TableDescriptor
  <2> QED BY <1>1, <2>2, KernelReached
<1>9. Walk(m, L0.table, p) = B1 \cup B2 \cup P3
  BY WalkSteps
<1>10. /\ T(2) = Follow(m, T(1), 1, p) /\ T(3) = Follow(m, T(2), 2, p)
  BY WalkSteps
<1> DEFINE i1 == HwIndex(1, p)
           i2 == HwIndex(2, p)
           i3 == HwIndex(3, p)
<1> HIDE DEF T
<1>11. CASE i1 # 0
  <2>1. m[KernelTable(1)][i1] = BlockDescriptor(RowLen(1) * i1)
    BY <1>5, <1>6, <1>11, KernelRows
  <2>2. /\ m[KernelTable(1)][i1].type = TYPE_BLOCK /\ TYPE_BLOCK # TYPE_TABLE
        /\ m[KernelTable(1)][i1].address = RowLen(1) * i1 /\ m[KernelTable(1)][i1].user = FALSE
    BY <2>1 DEF BlockDescriptor, TYPE_TABLE, TYPE_BLOCK
  <2>3. T(2) = {}
    BY <1>8, <1>10, <2>2, FollowNothing
  <2>4. T(3) = {}
    BY <1>10, <2>3, FromNothing
  <2>5. B2 = {} /\ P3 = {}
    BY <2>3, <2>4, FromNothing
  <2>6. RowLen(1) * i1 + PageOf(p % RowLen(1)) = p
    BY <1>4, RowAndRest, Levels
  <2>7. B1 = {found}
    <3>1. \A w : w \in Leaves(RowsAt(m, {KernelTable(1)}, 1, p), TYPE_BLOCK, 1, p) <=> w = found
      <4>1. [page |-> m[KernelTable(1)][i1].address + PageOf(p % RowLen(1)), user |-> m[KernelTable(1)][i1].user]
             = found
        BY <2>2, <2>6
      <4>2. \A w : w \in Leaves(RowsAt(m, {KernelTable(1)}, 1, p), TYPE_BLOCK, 1, p) <=> w =
            [page |-> m[KernelTable(1)][i1].address + PageOf(p % RowLen(1)), user |-> m[KernelTable(1)][i1].user]
        BY <2>2, <2>6, LeafMembers
      <4> QED BY <4>1, <4>2
    <3> QED BY <1>8, <3>1
  <2> HIDE DEF B1, B2, P3
  <2> QED BY <1>9, <2>5, <2>6, <2>7
<1>12. CASE i1 = 0
  <2>1. m[KernelTable(1)][i1] = TableDescriptor(KernelTable(2))
    BY <1>5, <1>6, <1>12, KernelRows
  <2>0. /\ m[KernelTable(1)][i1].type = TYPE_TABLE /\ TYPE_BLOCK # TYPE_TABLE
        /\ m[KernelTable(1)][i1].address = KernelTable(2)
    BY <2>1 DEF TableDescriptor, TYPE_TABLE, TYPE_BLOCK
  <2>2. T(2) = {KernelTable(2)}
    <3>1. \A q : q \in Follow(m, {KernelTable(1)}, 1, p) <=> q = KernelTable(2)
      BY <2>0, FollowMembers
    <3> QED BY <1>8, <1>10, <3>1
  <2>3. B1 = {}
    BY <1>8, <2>0, FindNothing
  <2>4. p < RowLen(1)
    BY <1>1, <1>2, <1>4, <1>12
  <2>5. i2 = p \div RowLen(2)
    <3>1. \A r \in Nat \ {0} : p < ROW_COUNT * r => p \div r \in Nat /\ p \div r < ROW_COUNT
      BY <1>1
    <3>2. p \div RowLen(2) \in Nat /\ p \div RowLen(2) < ROW_COUNT
      BY <1>1, <1>2, <2>4, <3>1
    <3> QED BY <3>2 DEF HwIndex
  <2>6. CASE i2 >= L3_TABLE_COUNT
    <3>1. m[KernelTable(2)][i2] = BlockDescriptor(RowLen(2) * i2)
      BY <1>5, <1>6, <2>6, KernelRows
    <3>0. /\ m[KernelTable(2)][i2].type = TYPE_BLOCK /\ TYPE_BLOCK # TYPE_TABLE
          /\ m[KernelTable(2)][i2].address = RowLen(2) * i2 /\ m[KernelTable(2)][i2].user = FALSE
      BY <3>1 DEF BlockDescriptor, TYPE_TABLE, TYPE_BLOCK
    <3>2. T(3) = {}
      BY <1>10, <2>2, <3>0, FollowNothing
    <3>3. P3 = {}
      BY <3>2, FromNothing
    <3>4. RowLen(2) * i2 + PageOf(p % RowLen(2)) = p
      BY <2>5, RowAndRest, Levels
    <3>5. B2 = {found}
      <4>1. \A w : w \in Leaves(RowsAt(m, {KernelTable(2)}, 2, p), TYPE_BLOCK, 2, p) <=> w = found
        <5>1. [page |-> m[KernelTable(2)][i2].address + PageOf(p % RowLen(2)), user |-> m[KernelTable(2)][i2].user]
               = found
          BY <3>0, <3>4
        <5>2. \A w : w \in Leaves(RowsAt(m, {KernelTable(2)}, 2, p), TYPE_BLOCK, 2, p) <=> w =
              [page |-> m[KernelTable(2)][i2].address + PageOf(p % RowLen(2)), user |-> m[KernelTable(2)][i2].user]
          BY <3>0, <3>4, LeafMembers
        <5> QED BY <5>1, <5>2
      <4> QED BY <2>2, <4>1
    <3> HIDE DEF B1, B2, P3
    <3> QED BY <1>9, <2>3, <3>3, <3>4, <3>5
  <2>7. CASE i2 < L3_TABLE_COUNT
    <3>1. m[KernelTable(2)][i2] = TableDescriptor(KernelTable(3 + i2))
      BY <1>5, <1>6, <2>7, KernelRows
    <3>0. /\ m[KernelTable(2)][i2].type = TYPE_TABLE /\ TYPE_BLOCK # TYPE_TABLE
          /\ m[KernelTable(2)][i2].address = KernelTable(3 + i2)
      BY <3>1 DEF TableDescriptor, TYPE_TABLE, TYPE_BLOCK
    <3>2. T(3) = {KernelTable(3 + i2)}
      <4>1. \A q : q \in Follow(m, {KernelTable(2)}, 2, p) <=> q = KernelTable(3 + i2)
        BY <3>0, FollowMembers
      <4> QED BY <1>10, <2>2, <4>1
    <3>3. B2 = {}
      BY <2>2, <3>0, FindNothing
    <3>4. i2 \in 0 .. L3_TABLE_COUNT - 1 /\ 3 + i2 \in 0 .. 2 + L3_TABLE_COUNT
      BY <1>5, <2>7
    <3>5. m[KernelTable(3 + i2)] = CreateTables[KernelTable(3 + i2)]
      BY <3>4, KernelTableAt
    <3>6. m[KernelTable(3 + i2)][i3] = KernelPageDescriptor(RowLen(2) * i2 + RowLen(3) * i3)
      BY <1>5, <3>4, <3>5, KernelRows
    <3>7. (RowLen(2) * i2 + RowLen(3) * i3) + PageOf(p % RowLen(3)) = p
      <4> DEFINE n == p \div PageSize
      <4>1. RowLen(3) * n + PageOf(p % RowLen(3)) = p
        BY <1>2, RowAndRest, Levels
      <4>2. n \in Nat /\ i3 = n % ROW_COUNT
        BY <1>1, <1>2 DEF HwIndex
      <4>3. i2 = n \div ROW_COUNT
        <5>1. n * PageSize <= p /\ p < n * PageSize + PageSize
          BY <1>1
        <5>2. i2 \in Nat /\ i2 * RowLen(2) <= p /\ p < i2 * RowLen(2) + RowLen(2)
          BY <1>1, <1>2, <2>5
        <5> HIDE DEF n, i2
        <5>3. i2 * RowLen(2) = (i2 * ROW_COUNT) * PageSize
          BY <1>2, <5>2
        <5>4. i2 * ROW_COUNT \in Nat /\ i2 * RowLen(2) + RowLen(2) = (i2 * ROW_COUNT + ROW_COUNT) * PageSize
          BY <1>2, <5>2, <5>3
        <5> DEFINE b == i2 * ROW_COUNT
        <5>5. b * PageSize < (n + 1) * PageSize /\ n * PageSize < (b + ROW_COUNT) * PageSize
          BY <1>1, <1>2, <4>2, <5>1, <5>2, <5>3, <5>4
        <5>6. \A x, y \in Nat : x * PageSize < y * PageSize => x < y
          OBVIOUS
        <5>7. b \in Nat
          BY <5>4
        <5> HIDE DEF b
        <5>8. b < n + 1 /\ n < b + ROW_COUNT
          BY <4>2, <5>5, <5>6, <5>7
        <5> QED BY <4>2, <5>2, <5>8 DEF b
      <4>4. n = ROW_COUNT * i2 + i3 /\ i2 \in Nat /\ i3 \in Nat
        <5>1. \A x \in Nat : /\ x = ROW_COUNT * (x \div ROW_COUNT) + (x % ROW_COUNT)
                             /\ x \div ROW_COUNT \in Nat /\ x % ROW_COUNT \in Nat
          OBVIOUS
        <5> HIDE DEF n, i2, i3
        <5> QED BY <4>2, <4>3, <5>1
      <4> HIDE DEF n, i2, i3
      <4>5. RowLen(3) * n = RowLen(2) * i2 + RowLen(3) * i3
        BY <1>2, <4>4
      <4> QED BY <4>1, <4>5
    <3>8. /\ m[KernelTable(3 + i2)][i3].type = TYPE_PAGE /\ m[KernelTable(3 + i2)][i3].user = FALSE
          /\ m[KernelTable(3 + i2)][i3].address = RowLen(2) * i2 + RowLen(3) * i3
      BY <3>6 DEF KernelPageDescriptor, PageDescriptor
    <3>9. P3 = {found}
      <4>1. \A w : w \in Leaves(RowsAt(m, {KernelTable(3 + i2)}, 3, p), TYPE_PAGE, 3, p) <=> w = found
        <5>1. [page |-> m[KernelTable(3 + i2)][i3].address + PageOf(p % RowLen(3)), user |-> m[KernelTable(3 + i2)][i3].user]
               = found
          BY <3>7, <3>8
        <5>2. \A w : w \in Leaves(RowsAt(m, {KernelTable(3 + i2)}, 3, p), TYPE_PAGE, 3, p) <=> w =
              [page |-> m[KernelTable(3 + i2)][i3].address + PageOf(p % RowLen(3)), user |-> m[KernelTable(3 + i2)][i3].user]
          BY <3>7, <3>8, LeafMembers
        <5> QED BY <5>1, <5>2
      <4> QED BY <3>2, <4>1
    <3> HIDE DEF B1, B2, P3
    <3> QED BY <1>9, <2>3, <3>3, <3>9
  <2>8. i2 \in Nat /\ L3_TABLE_COUNT \in Nat
    BY <1>5
  <2> QED BY <2>6, <2>7, <2>8
<1> QED BY <1>11, <1>12

\* No builder refuses an address of create_tables.
LEMMA KernelTablesOk == CreateTablesOk
<1> USE PageTableAssumption
<1> DEFINE Block == PageSize * ROW_COUNT
<1>1. /\ RowLen(2) = Block /\ RowLen(1) = ROW_COUNT * Block /\ RowLen(0) = ROW_COUNT * RowLen(1)
      /\ VA_SIZE = ROW_COUNT * RowLen(0) /\ RowLen(3) = PageSize
      /\ RowLen(0) \in Nat \ {0} /\ RowLen(1) \in Nat \ {0} /\ RowLen(2) \in Nat \ {0}
  <2>1. /\ RowLen(0) = ROW_COUNT * RowLen(1) /\ RowLen(1) = ROW_COUNT * RowLen(2)
        /\ RowLen(2) = ROW_COUNT * RowLen(3) /\ RowLen(3) = PageSize
        /\ VA_SIZE = ROW_COUNT * RowLen(0)
        /\ RowLen(0) \in Nat \ {0} /\ RowLen(1) \in Nat \ {0} /\ RowLen(2) \in Nat \ {0}
    BY Sizes, Levels
  <2> QED BY <2>1
<1>2. Block \in Nat \ {0}
  OBVIOUS
<1>3. \A a \in Nat : ROW_COUNT * a \in Nat /\ a <= ROW_COUNT * a
  OBVIOUS
<1>4. RowLen(1) <= RowLen(0) /\ RowLen(0) <= VA_SIZE /\ VA_SIZE \in Nat
  BY <1>1, <1>3
<1>5. \A i \in Index : i \in Nat /\ i + 1 <= ROW_COUNT
  BY DEF Index
<1>6. ASSUME NEW r \in Nat, NEW i \in Index PROVE r * i \in Nat /\ r * i + r <= ROW_COUNT * r
  <2>1. \A x \in Nat : x + 1 <= ROW_COUNT => r * x \in Nat /\ r * x + r <= ROW_COUNT * r
    OBVIOUS
  <2> QED BY <1>5, <2>1
<1>7. ASSUME NEW i \in Index PROVE IsBlockAddress(RowLen(1) * i) /\ IsBlockAddress(RowLen(2) * i)
  <2>1. RowLen(1) * i \in Nat /\ RowLen(1) * i < RowLen(0)
    BY <1>1, <1>6
  <2>2. RowLen(2) * i \in Nat /\ RowLen(2) * i < RowLen(1)
    BY <1>1, <1>3, <1>6
  <2> HIDE DEF Block
  <2>3. \A x \in Nat : (x * Block) % Block = 0
    BY <1>2
  <2>4. RowLen(1) * i = (ROW_COUNT * i) * Block /\ RowLen(2) * i = i * Block
    BY <1>1, <1>2, <1>5
  <2>5. (RowLen(1) * i) % Block = 0 /\ (RowLen(2) * i) % Block = 0
    BY <1>3, <1>5, <2>3, <2>4
  <2>6. RowLen(1) * i < VA_SIZE /\ RowLen(2) * i < VA_SIZE
    BY <1>1, <1>4, <2>1, <2>2
  <2> QED BY <2>5, <2>6 DEF IsBlockAddress, Block
<1>8. ASSUME NEW i \in Index, NEW n \in 0 .. L3_TABLE_COUNT - 1
      PROVE  IsPageAddress(RowLen(2) * n + RowLen(3) * i)
  <2>1. n \in Index /\ n \in Nat /\ i \in Nat
    BY <1>5 DEF Index
  <2>2. /\ RowLen(2) * n \in Nat /\ RowLen(2) * n + RowLen(2) <= RowLen(1)
        /\ RowLen(3) * i \in Nat /\ RowLen(3) * i + RowLen(3) <= RowLen(2)
    <3>1. /\ RowLen(1) = ROW_COUNT * RowLen(2) /\ RowLen(2) = ROW_COUNT * RowLen(3)
          /\ RowLen(2) \in Nat /\ RowLen(3) \in Nat
      BY Sizes, Levels
    <3> QED BY <1>6, <2>1, <3>1
  <2>3. RowLen(2) * n + RowLen(3) * i < VA_SIZE
    BY <1>1, <1>4, <2>2
  <2>4. RowLen(2) * n + RowLen(3) * i = (ROW_COUNT * n + i) * PageSize /\ ROW_COUNT * n + i \in Nat
    <3>1. /\ (PageSize * ROW_COUNT) * n = (ROW_COUNT * n) * PageSize
          /\ (ROW_COUNT * n) * PageSize + PageSize * i = (ROW_COUNT * n + i) * PageSize
          /\ ROW_COUNT * n + i \in Nat
      BY <2>1
    <3> QED BY <1>1, <3>1
  <2>5. \A x \in Nat : (x * PageSize) % PageSize = 0
    OBVIOUS
  <2> QED BY <2>3, <2>4, <2>5 DEF IsPageAddress
<1>9. ASSUME NEW j \in 0 .. 2 + L3_TABLE_COUNT PROVE IsPageAddress(KernelTable(j))
  BY KernelTableAt, Kernel, Pages DEF IsPageAddress
<1>10. IsPageAddress(0)
  BY Sizes DEF IsPageAddress
<1>11. ASSUME NEW p \in KernelPages, NEW i \in Index
       PROVE  \/ /\ CreateTables[p][i].type = TYPE_BLOCK
                 /\ IsBlockAddress(CreateTables[p][i].address)
              \/ /\ CreateTables[p][i].type # TYPE_BLOCK
                 /\ IsPageAddress(CreateTables[p][i].address)
  <2> DEFINE Good(row) == \/ row.type = TYPE_BLOCK /\ IsBlockAddress(row.address)
                          \/ row.type # TYPE_BLOCK /\ IsPageAddress(row.address)
  <2>1. Good(EmptyRow)
    BY <1>10 DEF EmptyRow, TYPE_BLOCK
  <2>2. \A j \in 0 .. 2 + L3_TABLE_COUNT : Good(TableDescriptor(KernelTable(j)))
    BY <1>9 DEF TableDescriptor, TYPE_BLOCK, TYPE_TABLE
  <2>3. Good(BlockDescriptor(RowLen(1) * i)) /\ Good(BlockDescriptor(RowLen(2) * i))
    BY <1>7 DEF BlockDescriptor
  <2>4. \A n \in 0 .. L3_TABLE_COUNT - 1 : Good(KernelPageDescriptor(RowLen(2) * n + RowLen(3) * i))
    BY <1>8 DEF KernelPageDescriptor, PageDescriptor, TYPE_BLOCK, TYPE_PAGE
  <2> HIDE DEF Good
  <2>5. Good(TableDescriptor(KernelTable(1))) /\ Good(TableDescriptor(KernelTable(2)))
    <3>1. 1 \in 0 .. 2 + L3_TABLE_COUNT /\ 2 \in 0 .. 2 + L3_TABLE_COUNT
      OBVIOUS
    <3> QED BY <2>2, <3>1
  <2>6. i < L3_TABLE_COUNT => Good(TableDescriptor(KernelTable(3 + i)))
    <3>1. i < L3_TABLE_COUNT => 3 + i \in 0 .. 2 + L3_TABLE_COUNT
      BY <1>5
    <3> QED BY <2>2, <3>1
  <2>7. Good(CreateTables[KernelTable(0)][i])
    BY <2>1, <2>5, KernelRows
  <2>8. Good(CreateTables[KernelTable(1)][i])
    BY <2>3, <2>5, KernelRows
  <2>9. Good(CreateTables[KernelTable(2)][i])
    BY <2>3, <2>6, KernelRows
  <2>10. \A n \in 0 .. L3_TABLE_COUNT - 1 : Good(CreateTables[KernelTable(3 + n)][i])
    BY <2>4, KernelRows
  <2>11. Good(CreateTables[p][i])
    BY <2>7, <2>8, <2>9, <2>10, KernelPageCases
  <2> QED BY <2>11 DEF Good
<1> QED BY <1>11 DEF CreateTablesOk

-------------------------------------------------------------------------------
(***************************************************************************)
(* The invariant holds initially.                                          *)
(***************************************************************************)
LEMMA TableTypes ==
  /\ ZeroTable \in Table /\ Scribble \in Table /\ EmptyRow \in Row
  /\ \A p \in KernelPages : CreateTables[p] \in Table
<1>1. EmptyRow \in Row
  BY DEF EmptyRow, Row
<1>2. PageDescriptor(L0.table, TRUE) \in Row
  BY KernelStarts, KernelTableAt DEF PageDescriptor, Row, TYPE_PAGE
<1>3. ASSUME NEW p \in KernelPages PROVE CreateTables[p] \in Table
  <2>1. \A i \in Index : CreateTables[p][i] \in Row
    BY KernelRowType DEF KernelRow
  <2>2. CreateTables[p] = [i \in Index |-> CreateTables[p][i]]
    <3>0. L0.table # L1.table /\ L0.table # L2.table /\ L1.table # L2.table
      BY KernelTableAt, KernelStarts
    <3>1. CASE p = L0.table
      BY <3>0, <3>1 DEF CreateTables
    <3>2. CASE p = L1.table
      BY <3>0, <3>2 DEF CreateTables
    <3>3. CASE p = L2.table
      BY <3>0, <3>3 DEF CreateTables
    <3>4. CASE p # L0.table /\ p # L1.table /\ p # L2.table
      BY <3>4 DEF CreateTables
    <3> QED BY <3>1, <3>2, <3>3, <3>4
  <2> QED BY <2>1, <2>2 DEF Table
<1> QED BY <1>1, <1>2, <1>3 DEF ZeroTable, Scribble, Table

LEMMA InitInv == Init => Inv
<1> SUFFICES ASSUME Init PROVE Inv
  OBVIOUS
<1> USE PageTableAssumption, MemoryContextAssumption
<1>1. TypeOK
  <2>1. mem \in [PageAddress -> Table]
    <3>1. \A p \in PageAddress :
            (IF p \in KernelPages THEN CreateTables[p] ELSE Scribble) \in Table
      BY TableTypes
    <3>2. mem = [p \in PageAddress |-> IF p \in KernelPages THEN CreateTables[p] ELSE Scribble]
      BY DEF Init
    <3> QED BY <3>1, <3>2
  <2>2. cursor \in Nat
    BY Kernel DEF Init
  <2>3. NoCall \in [context : Context \cup {NoContext}, address : Nat]
    BY DEF NoCall
  <2>4. NoTable \in [table : Nat, level : Level, start : Nat]
    BY Levels DEF NoTable
  <2>5. NoResult \in [ok : BOOLEAN, page : Nat]
    BY DEF NoResult
  <2>6. 0 \in 0 .. ASID_COUNT - 1 /\ 1 \in 0 .. ASID_COUNT - 1 /\ 0 \in 0 .. MaxCalls
    OBVIOUS
  <2>7. kind \in [PageAddress -> -1 .. LEVEL_MAX + 2]
    BY Levels DEF Init
  <2>8. arg \in [Thread -> [context : Context \cup {NoContext}, address : Nat]]
    BY <2>3 DEF Init
  <2>9. tm \in [Thread -> [table : Nat, level : Level, start : Nat]]
    BY <2>4 DEF Init
  <2>10. ret \in [Thread -> [ok : BOOLEAN, page : Nat]]
    BY <2>5 DEF Init
  <2> QED BY <2>1, <2>2, <2>6, <2>7, <2>8, <2>9, <2>10 DEF Init, TypeOK
<1>2. CursorInv
  <2>1. cursor % PageSize = 0 /\ End <= cursor
    BY Kernel DEF Init
  <2>2. \A p \in PageAddress : kind[p] = -1
    BY DEF Init
  <2>3. \A p \in KernelPages : mem[p] = CreateTables[p]
    BY Kernel DEF Init
  <2> QED BY <2>1, <2>2, <2>3 DEF CursorInv
<1>3. \A p \in PageAddress : kind[p] = -1
  BY DEF Init
<1>4. OwnerInv
  BY <1>3 DEF Init, OwnerInv
<1>5. RowInv
  <2>1. Tables = {}
    BY <1>3, Levels DEF Tables
  <2> QED BY <2>1 DEF RowInv
<1>6. CallInv
  <2>1. \A t \in Thread : pc[t] = "idle"
    BY DEF Init
  <2> QED BY <2>1 DEF CallInv
<1>7. TlbInv
  BY DEF Init, TlbInv
<1> QED BY <1>1, <1>2, <1>4, <1>5, <1>6, <1>7 DEF Inv

-------------------------------------------------------------------------------
(***************************************************************************)
(* What a step does to the tables and to who owns the pages.               *)
(***************************************************************************)
LEMMA RowInvTree == RowInv => IsTree(mem, kind)
BY DEF RowInv, IsTree, Tables

LEMMA RowInvTreeNext == RowInv' => IsTree(mem', kind')
BY DEF RowInv, IsTree, Tables

LEMMA Roots ==
  ASSUME Inv, NEW c \in created
  PROVE  PhysicalAddress(root[c]) \in PageAddress /\ kind[PhysicalAddress(root[c])] = 0
BY Levels DEF Inv, TypeOK, OwnerInv

\* What user programs can write to is the pages that contexts map for them.
LEMMA UserPage ==
  ASSUME Inv, NEW e \in tlb, e.user
  PROVE  e.page \in PageAddress /\ kind[e.page] = LEVEL_MAX + 1
<1>1. PICK c \in created : Translate(c, e.address) = {[page |-> e.page, user |-> e.user]}
  BY DEF Inv, TlbInv
<1> DEFINE w == [page |-> e.page, user |-> e.user]
<1>2. w \in Walk(mem, PhysicalAddress(root[c]), e.address)
  BY <1>1 DEF Translate
<1>3. e.address \in Nat
  BY DEF Inv, TypeOK
<1>4. IsTree(mem, kind)
  BY RowInvTree DEF Inv
<1>5. PhysicalAddress(root[c]) \in PageAddress /\ kind[PhysicalAddress(root[c])] = 0
  BY Roots
<1>6. w.page = e.page
  OBVIOUS
<1> HIDE DEF w
<1>7. \E p \in PageAddress : kind[p] = LEVEL_MAX + 1 /\ w = [page |-> p, user |-> TRUE]
  BY <1>2, <1>3, <1>4, <1>5, TreeWalkPage
<1> QED BY <1>6, <1>7

\* A page is allocated to a context that exists afterwards ...
Grab(c, k) ==
  /\ c \in Context /\ c \in created' /\ k \in 0 .. LEVEL_MAX + 2
  /\ AllocPageRaw(c, k) /\ mem' = Zeroed(mem)
  /\ created \subseteq created' /\ \A d \in created : root'[d] = root[d]
  /\ \A d \in created' : d \notin created =>
       d = c /\ k = LEVEL_ROOT /\ PhysicalAddress(root'[d]) = cursor

\* ... or a row is written, ...
Link(t) ==
  /\ pc[t] = "write" /\ pc'[t] # "write"
  /\ mem' \in [PageAddress -> Table]
  /\ \A p \in PageAddress : p # TablePage(t) => mem'[p] = mem[p]
  /\ \A p \in PageAddress, i \in Index : p # TablePage(t) \/ i # RowOf(t) => mem'[p][i] = mem[p][i]
  /\ mem'[TablePage(t)][RowOf(t)].type = TYPE_TABLE
  /\ mem'[TablePage(t)][RowOf(t)].address = new[t]
  /\ mem'[TablePage(t)][RowOf(t)].user = (tm[t].level = LEVEL_MAX)
  /\ UNCHANGED <<cursor, owned, kind, created, root>>

\* ... or a user program writes to a page of its own, ...
UserWrite ==
  \E p \in PageAddress :
    /\ kind[p] = LEVEL_MAX + 1
    /\ mem' = [mem EXCEPT ![p] = Scribble]
    /\ UNCHANGED <<cursor, owned, kind, created, root>>

\* ... or nothing of this changes.
Still == UNCHANGED <<mem, cursor, owned, kind, created, root>>

\* What is known of a thread that is about to write a row.
LEMMA WriterFacts ==
  ASSUME Inv, NEW t \in Thread, pc[t] # "idle"
  PROVE  /\ arg[t].context \in Context /\ arg[t].context \in created /\ arg[t].address \in Nat
         /\ TablePage(t) \in PageAddress /\ TablePage(t) \in owned[arg[t].context]
         /\ tm[t].level \in Level /\ kind[TablePage(t)] = tm[t].level /\ TablePage(t) \in Tables
         /\ tm[t].start \in Nat /\ tm[t].start % TableLen(tm[t].level) = 0
         /\ InTable(tm[t], arg[t].address) => RowOf(t) \in Index
<1>1. tm[t] \in [table : Nat, level : Level, start : Nat]
  BY DEF Inv, TypeOK
<1>2. arg[t] \in [context : Context \cup {NoContext}, address : Nat]
  BY DEF Inv, TypeOK
<1>3. Walking(t)
  BY DEF Inv, CallInv
<1>4. arg[t].context \in Context /\ arg[t].context \in created
  BY <1>3 DEF Inv, TypeOK, Walking
<1>5. TablePage(t) \in PageAddress /\ TablePage(t) \in owned[arg[t].context]
  BY <1>3, <1>4 DEF Inv, TypeOK, Walking
<1>6. ASSUME InTable(tm[t], arg[t].address) PROVE RowOf(t) \in Index
  BY <1>1, <1>2, <1>6, RowsInTable DEF InTable, RowOf, RowIndex
<1> QED BY <1>1, <1>2, <1>3, <1>4, <1>5, <1>6 DEF Walking, Tables

LEMMA LinkStep ==
  ASSUME Inv, NEW t \in Thread, WriteTable(t) \/ WritePage(t)
  PROVE  Link(t)
<1>1. pc[t] = "write"
  BY DEF WriteTable, WritePage
<1>2. Writing(t)
  BY <1>1 DEF Inv, CallInv
<1>3. TablePage(t) \in PageAddress /\ RowOf(t) \in Index /\ tm[t].level \in Level
  BY <1>1, <1>2, WriterFacts DEF Writing
<1>4. new[t] \in Nat /\ mem \in [PageAddress -> Table]
  BY DEF Inv, TypeOK
<1>5. PICK row \in Row : /\ mem' = [mem EXCEPT ![TablePage(t)][RowOf(t)] = row]
                         /\ row.type = TYPE_TABLE /\ row.address = new[t]
                         /\ row.user = (tm[t].level = LEVEL_MAX)
  <2>1. CASE WriteTable(t)
    <3>1. tm[t].level # LEVEL_MAX
      BY <1>3, <2>1, Levels DEF WriteTable
    <3>2. TableDescriptor(new[t]) \in Row
      BY <1>4 DEF TableDescriptor, Row, TYPE_TABLE
    <3> QED BY <2>1, <3>1, <3>2 DEF WriteTable, WriteRow, TableDescriptor
  <2>2. CASE WritePage(t)
    <3> DEFINE row == PageDescriptor(new[t], TRUE)
    <3>1. row \in Row /\ row.type = TYPE_TABLE /\ row.address = new[t] /\ row.user = TRUE
      BY <1>4 DEF PageDescriptor, Row, TYPE_PAGE, TYPE_TABLE
    <3>2. tm[t].level = LEVEL_MAX /\ mem' = [mem EXCEPT ![TablePage(t)][RowOf(t)] = row]
      BY <2>2 DEF WritePage, WriteRow
    <3> HIDE DEF row
    <3> QED BY <3>1, <3>2
  <2> QED BY <2>1, <2>2
<1>6. mem' \in [PageAddress -> Table]
  BY <1>3, <1>4, <1>5 DEF Table
<1>7. \A p \in PageAddress : p # TablePage(t) => mem'[p] = mem[p]
  BY <1>4, <1>5
<1>8. \A p \in PageAddress, i \in Index : p # TablePage(t) \/ i # RowOf(t) => mem'[p][i] = mem[p][i]
  BY <1>3, <1>4, <1>5 DEF Table
<1>9. mem'[TablePage(t)][RowOf(t)] = row
  BY <1>3, <1>4, <1>5 DEF Table
<1>10. UNCHANGED <<cursor, owned, kind, created, root>>
  BY DEF WriteTable, WritePage, contextVars
<1>11. pc'[t] # "write"
  BY DEF WriteTable, WritePage, Return, Inv, TypeOK
<1> QED BY <1>1, <1>5, <1>6, <1>7, <1>8, <1>9, <1>10, <1>11 DEF Link

LEMMA AllocateStep ==
  ASSUME Inv, NEW t \in Thread, Allocate(t)
  PROVE  Grab(arg[t].context, tm[t].level + 1)
<1>1. created' = created /\ root' = root
  BY DEF Allocate, contextVars
<1>2. pc[t] # "idle"
  BY DEF Allocate, Traversing
<1>3. arg[t].context \in Context /\ arg[t].context \in created /\ tm[t].level \in Level
  BY <1>2, WriterFacts
<1>4. tm[t].level + 1 \in 0 .. LEVEL_MAX + 2
  BY <1>3, Levels
<1> QED BY <1>1, <1>3, <1>4 DEF Allocate, Grab

LEMMA Steps ==
  ASSUME Inv, [Next]_vars
  PROVE  \/ \E c, k : Grab(c, k)
         \/ \E t \in Thread : Link(t) /\ (WriteTable(t) \/ WritePage(t))
         \/ UserWrite
         \/ Still
<1>1. CASE UNCHANGED vars
  BY <1>1 DEF vars, contextVars, Still
<1>2. ASSUME NEW c \in Context, New(c) PROVE Grab(c, LEVEL_ROOT)
  <2>1. cursor \in PageAddress
    BY <1>2, Fresh DEF New, AllocPageRaw, Inv, TypeOK, CursorInv
  <2>2. root' = [root EXCEPT ![c] = VirtualAddress(cursor)] /\ root \in [Context -> Nat]
    BY <1>2 DEF New, Inv, TypeOK
  <2>3. created' = created \cup {c} /\ c \notin created /\ created \subseteq Context
    BY <1>2 DEF New, Inv, TypeOK
  <2>4. PhysicalAddress(root'[c]) = cursor
    BY <2>1, <2>2, Mapper
  <2>5. \A d \in created : root'[d] = root[d]
    BY <2>2, <2>3
  <2>6. LEVEL_ROOT \in 0 .. LEVEL_MAX + 2
    BY Levels
  <2> QED BY <1>2, <2>3, <2>4, <2>5, <2>6 DEF New, Grab
<1>3. ASSUME NEW c \in Context, AllocPageUnmapped(c) PROVE Grab(c, LEVEL_MAX + 2)
  <2>1. created' = created /\ root' = root /\ c \in created
    BY <1>3 DEF AllocPageUnmapped, contextVars
  <2>2. LEVEL_MAX + 2 \in 0 .. LEVEL_MAX + 2
    BY Levels
  <2> QED BY <1>3, <2>1, <2>2 DEF AllocPageUnmapped, Grab
<1>4. ASSUME NEW t \in Thread, Allocate(t) PROVE Grab(arg[t].context, tm[t].level + 1)
  BY <1>4, AllocateStep
<1>5. ASSUME NEW t \in Thread, LoadTable(t) \/ LoadPage(t) \/ Fail(t) PROVE Still
  BY <1>5 DEF LoadTable, LoadPage, Fail, Still, contextVars
<1>6. ASSUME NEW t \in Thread, NEW c \in Context, NEW a \in Address, AllocPage(t, c, a) PROVE Still
  BY <1>6 DEF AllocPage, Still, contextVars
<1>7. ASSUME NEW x \in Ttbr0, NEW a \in Address, TlbFill(x, a) PROVE Still
  BY <1>7 DEF TlbFill, Still, contextVars
<1>8. ASSUME NEW x \in Ttbr0, NEW e \in tlb, UserStore(x, e) PROVE UserWrite
  <2>1. e.page \in PageAddress /\ kind[e.page] = LEVEL_MAX + 1
    BY <1>8, UserPage DEF UserStore
  <2>2. /\ mem' = [mem EXCEPT ![e.page] = Scribble]
        /\ UNCHANGED <<cursor, owned, kind, created, root>>
    BY <1>8 DEF UserStore, contextVars
  <2> QED BY <2>1, <2>2 DEF UserWrite
<1>9. CASE Next
  BY <1>2, <1>3, <1>4, <1>5, <1>6, <1>7, <1>8, <1>9, LinkStep DEF Next, Step
<1> QED BY <1>1, <1>9

\* What a page that is allocated was.
LEMMA GrabFacts ==
  ASSUME Inv, NEW c, NEW k, Grab(c, k)
  PROVE  /\ cursor \in PageAddress /\ kind[cursor] = -1 /\ cursor \notin KernelPages
         /\ \A p \in PageAddress : p # cursor => mem'[p] = mem[p] /\ kind'[p] = kind[p]
         /\ mem'[cursor] = ZeroTable /\ kind'[cursor] = k
         /\ mem' \in [PageAddress -> Table]
         /\ kind' \in [PageAddress -> -1 .. LEVEL_MAX + 2]
         /\ owned' \in [Context -> SUBSET PageAddress]
         /\ owned'[c] = owned[c] \cup {cursor}
         /\ \A d \in Context : d # c => owned'[d] = owned[d]
         /\ \A d \in Context : owned[d] \subseteq owned'[d]
         /\ \A d \in Context : cursor \notin owned[d]
         /\ \A i \in Index : mem'[cursor][i] = EmptyRow
<1>1. cursor \in Nat /\ cursor % PageSize = 0 /\ CanAlloc
  BY DEF Inv, TypeOK, CursorInv, Grab, AllocPageRaw
<1>2. cursor \in PageAddress
  BY <1>1, Fresh
<1>3. kind[cursor] = -1
  BY <1>1, <1>2 DEF Inv, CursorInv
<1>4. cursor \notin KernelPages
  <2>1. End <= cursor /\ End \in Nat
    BY Kernel DEF Inv, CursorInv
  <2>2. \A p \in KernelPages : p < End /\ p \in Nat
    BY Kernel, Pages
  <2> QED BY <1>1, <2>1, <2>2
<1>5. mem \in [PageAddress -> Table] /\ mem' = [mem EXCEPT ![cursor] = ZeroTable]
  BY DEF Inv, TypeOK, Grab, Zeroed
<1>6. /\ kind \in [PageAddress -> -1 .. LEVEL_MAX + 2] /\ kind' = [kind EXCEPT ![cursor] = k]
      /\ k \in -1 .. LEVEL_MAX + 2
  BY Levels DEF Inv, TypeOK, Grab, AllocPageRaw
<1>7. /\ owned \in [Context -> SUBSET PageAddress] /\ c \in Context
      /\ owned' = [owned EXCEPT ![c] = @ \cup {cursor}]
  BY DEF Inv, TypeOK, Grab, AllocPageRaw
<1>8. mem' \in [PageAddress -> Table] /\ mem'[cursor] = ZeroTable
  BY <1>2, <1>5, TableTypes
<1>9. \A i \in Index : ZeroTable[i] = EmptyRow
  BY DEF ZeroTable
<1>10. owned' \in [Context -> SUBSET PageAddress] /\ owned'[c] = owned[c] \cup {cursor}
  BY <1>2, <1>7
<1>11. \A d \in Context : d # c => owned'[d] = owned[d]
  BY <1>7
<1>12. \A d \in Context : cursor \notin owned[d]
  BY <1>3 DEF Inv, OwnerInv
<1> QED BY <1>2, <1>3, <1>4, <1>5, <1>6, <1>8, <1>9, <1>10, <1>11, <1>12

\* A user program does not write to a table.
LEMMA UserWriteFacts ==
  ASSUME Inv, UserWrite
  PROVE  /\ \A p \in PageAddress : kind[p] # LEVEL_MAX + 1 => mem'[p] = mem[p]
         /\ \A p \in Tables : mem'[p] = mem[p]
         /\ \A p \in KernelPages : mem'[p] = mem[p]
         /\ mem' \in [PageAddress -> Table]
         /\ UNCHANGED <<cursor, owned, kind, created, root>>
<1>1. PICK p \in PageAddress : /\ kind[p] = LEVEL_MAX + 1 /\ mem' = [mem EXCEPT ![p] = Scribble]
                               /\ UNCHANGED <<cursor, owned, kind, created, root>>
  BY DEF UserWrite
<1>2. mem \in [PageAddress -> Table]
  BY DEF Inv, TypeOK
<1>3. mem' \in [PageAddress -> Table]
  BY <1>1, <1>2, TableTypes
<1>4. \A q \in PageAddress : q # p => mem'[q] = mem[q]
  BY <1>1, <1>2
<1>5. p \notin Tables
  BY <1>1, Levels DEF Tables
<1>6. p \notin KernelPages
  <2>1. End <= p
    BY <1>1, Levels DEF Inv, CursorInv
  <2>2. p \in Nat /\ End \in Nat /\ \A q \in KernelPages : q < End /\ q \in Nat
    BY Kernel, Pages
  <2> QED BY <2>1, <2>2
<1>7. Tables \subseteq PageAddress /\ KernelPages \subseteq PageAddress
  BY Kernel DEF Tables
<1> QED BY <1>1, <1>3, <1>4, <1>5, <1>6, <1>7

\* A page that is allocated comes after the others and is not the kernel's.
LEMMA CursorNext == Inv /\ [Next]_vars => CursorInv'
<1> SUFFICES ASSUME Inv, [Next]_vars PROVE CursorInv'
  OBVIOUS
<1> USE DEF CursorInv
<1>0. CursorInv
  BY DEF Inv
<1>1. ASSUME NEW c, NEW k, Grab(c, k) PROVE CursorInv'
  <2>1. cursor' = cursor + PageSize /\ cursor \in Nat /\ PageSize \in Nat \ {0}
    BY <1>1, PageTableAssumption DEF Grab, AllocPageRaw, Inv, TypeOK
  <2>2. cursor' % PageSize = 0 /\ cursor < cursor'
    <3>1. ASSUME NEW x \in Nat, NEW y \in Nat \ {0}, x % y = 0 PROVE (x + y) % y = 0
      <4>1. x = (x \div y) * y /\ x \div y \in Nat
        BY <3>1
      <4> DEFINE d == x \div y
      <4> HIDE DEF d
      <4>2. x + y = (d + 1) * y /\ d \in Nat
        BY <4>1 DEF d
      <4>3. \A z \in Nat : (z * y) % y = 0
        OBVIOUS
      <4>4. d + 1 \in Nat
        BY <4>2
      <4> QED BY <4>2, <4>3, <4>4
    <3>2. cursor % PageSize = 0
      BY <1>0
    <3>3. (cursor + PageSize) % PageSize = 0
      BY <2>1, <3>1, <3>2
    <3> QED BY <2>1, <3>3
  <2>3. End <= cursor'
    BY <1>0, <2>1, Kernel
  <2>4. ASSUME NEW p \in PageAddress, kind'[p] # -1 PROVE End <= p /\ p < cursor'
    <3>1. CASE p = cursor
      BY <1>0, <2>2, <3>1
    <3>2. CASE p # cursor
      <4>1. kind[p] # -1
        BY <1>1, <2>4, <3>2, GrabFacts
      <4>2. p \in Nat
        BY Pages
      <4> QED BY <1>0, <2>1, <4>1, <4>2
    <3> QED BY <3>1, <3>2
  <2>5. \A p \in KernelPages : mem'[p] = CreateTables[p]
    BY <1>0, <1>1, GrabFacts, Kernel
  <2> QED BY <2>2, <2>3, <2>4, <2>5
<1>2. ASSUME NEW t \in Thread, Link(t) PROVE CursorInv'
  <2>1. TablePage(t) \in PageAddress /\ kind[TablePage(t)] # -1
    BY <1>2, WriterFacts, Levels DEF Link
  <2>2. TablePage(t) \notin KernelPages
    <3>1. End <= TablePage(t) /\ TablePage(t) \in Nat /\ End \in Nat
      BY <1>0, <2>1, Kernel, Pages
    <3>2. \A q \in KernelPages : q < End /\ q \in Nat
      BY Kernel, Pages
    <3> QED BY <3>1, <3>2
  <2> QED BY <1>0, <1>2, <2>2, Kernel DEF Link
<1>3. CASE UserWrite
  BY <1>0, <1>3, UserWriteFacts
<1>4. CASE Still
  BY <1>0, <1>4 DEF Still
<1> QED BY <1>1, <1>2, <1>3, <1>4, Steps

\* Pages keep their owners, and a new page gets one.
LEMMA OwnerNext == Inv /\ [Next]_vars => OwnerInv'
<1> SUFFICES ASSUME Inv, [Next]_vars PROVE OwnerInv'
  OBVIOUS
<1>0. OwnerInv
  BY DEF Inv
<1>1. ASSUME NEW c, NEW k, Grab(c, k) PROVE OwnerInv'
  <2> DEFINE P(d) == PhysicalAddress(root[d])
  <2>0. c \in Context /\ k \in 0 .. LEVEL_MAX + 2 /\ c \in created' /\ created \subseteq created'
    BY <1>1 DEF Grab
  <2>1. ASSUME NEW d \in Context, NEW p \in owned'[d] PROVE kind'[p] # -1 /\ p \in PageAddress
    <3>1. p \in PageAddress
      BY <1>1, GrabFacts
    <3>2. CASE p = cursor
      BY <1>1, <2>0, <3>1, <3>2, GrabFacts, Levels
    <3>3. CASE p # cursor
      <4>1. p \in owned[d]
        BY <1>1, <3>3, GrabFacts
      <4> QED BY <1>0, <1>1, <3>1, <3>3, <4>1, GrabFacts DEF OwnerInv
    <3> QED BY <3>2, <3>3
  <2>2. ASSUME NEW d \in Context, NEW e \in Context, NEW p \in owned'[d], p \in owned'[e]
        PROVE  d = e
    <3>1. CASE p = cursor
      BY <1>1, <2>2, <3>1, GrabFacts
    <3>2. CASE p # cursor
      <4>1. p \in owned[d] /\ p \in owned[e]
        BY <1>1, <2>2, <3>2, GrabFacts
      <4> QED BY <1>0, <4>1 DEF OwnerInv
    <3> QED BY <3>1, <3>2
  <2>3. ASSUME NEW p \in PageAddress, kind'[p] # -1 PROVE \E d \in created' : p \in owned'[d]
    <3>1. CASE p = cursor
      BY <1>1, <2>0, <3>1, GrabFacts
    <3>2. CASE p # cursor
      <4>1. PICK d \in created : p \in owned[d]
        BY <1>0, <1>1, <2>3, <3>2, GrabFacts DEF OwnerInv
      <4>2. d \in Context
        BY DEF Inv, TypeOK
      <4> QED BY <1>1, <2>0, <4>1, <4>2, GrabFacts
    <3> QED BY <3>1, <3>2
  <2>4. ASSUME NEW d \in created'
        PROVE  PhysicalAddress(root'[d]) \in owned'[d] /\ kind'[PhysicalAddress(root'[d])] = LEVEL_ROOT
    <3>1. CASE d \in created
      <4>1. root'[d] = root[d] /\ d \in Context
        BY <1>1, <3>1 DEF Grab, Inv, TypeOK
      <4>2. P(d) \in owned[d] /\ kind[P(d)] = LEVEL_ROOT /\ P(d) \in PageAddress
        BY <1>0, <3>1, Roots DEF OwnerInv
      <4>3. P(d) # cursor
        BY <1>1, <4>2, GrabFacts, Levels
      <4> QED BY <1>1, <4>1, <4>2, <4>3, GrabFacts
    <3>2. CASE d \notin created
      <4>1. d = c /\ k = LEVEL_ROOT /\ PhysicalAddress(root'[d]) = cursor
        BY <1>1, <3>2 DEF Grab
      <4> QED BY <1>1, <4>1, GrabFacts
    <3> QED BY <3>1, <3>2
  <2> QED BY <2>1, <2>2, <2>3, <2>4 DEF OwnerInv
<1>2. CASE UNCHANGED <<owned, kind, created, root>>
  BY <1>0, <1>2 DEF OwnerInv
<1> QED BY <1>1, <1>2, Steps DEF Link, UserWrite, Still

\* The rows of the tables form the trees of the contexts.
LEMMA RowNext == Inv /\ [Next]_vars => RowInv'
<1> SUFFICES ASSUME Inv, [Next]_vars PROVE RowInv'
  OBVIOUS
<1>0. RowInv
  BY DEF Inv
<1>1. ASSUME NEW c, NEW k, Grab(c, k) PROVE RowInv'
  <2>1. ASSUME NEW p \in Tables', NEW i \in Index, mem'[p][i] # EmptyRow
        PROVE  p \in Tables /\ p # cursor /\ mem'[p] = mem[p] /\ kind'[p] = kind[p]
    <3>1. p \in PageAddress /\ kind'[p] \in Level
      BY DEF Tables
    <3>2. p # cursor
      BY <1>1, <2>1, GrabFacts
    <3> QED BY <1>1, <3>1, <3>2, GrabFacts DEF Tables
  <2>2. ASSUME NEW p \in Tables', NEW i \in Index, mem'[p][i] # EmptyRow
        PROVE  /\ mem'[p][i].type = TYPE_TABLE
               /\ mem'[p][i].address \in PageAddress
               /\ kind'[mem'[p][i].address] = kind'[p] + 1
               /\ mem'[p][i].user = (kind'[p] = LEVEL_MAX)
               /\ \A d \in Context : p \in owned'[d] => mem'[p][i].address \in owned'[d]
    <3>1. p \in Tables /\ p # cursor /\ mem'[p] = mem[p] /\ kind'[p] = kind[p]
      BY <2>1, <2>2
    <3>2. /\ mem[p][i].type = TYPE_TABLE
          /\ mem[p][i].address \in PageAddress
          /\ kind[mem[p][i].address] = kind[p] + 1
          /\ mem[p][i].user = (kind[p] = LEVEL_MAX)
          /\ \A d \in Context : p \in owned[d] => mem[p][i].address \in owned[d]
      BY <1>0, <2>2, <3>1 DEF RowInv
    <3> DEFINE q == mem[p][i].address
    <3>3. kind[p] \in Level
      BY <3>1 DEF Tables
    <3>4. q # cursor
      BY <1>1, <3>2, <3>3, GrabFacts, Levels
    <3>5. kind'[q] = kind[q]
      BY <1>1, <3>2, <3>4, GrabFacts
    <3>6. \A d \in Context : p \in owned'[d] => q \in owned'[d]
      BY <1>1, <3>1, <3>2, GrabFacts
    <3> QED BY <3>1, <3>2, <3>5, <3>6
  <2>3. ASSUME NEW p \in Tables', NEW q \in Tables', NEW i \in Index, NEW j \in Index,
               mem'[p][i] # EmptyRow, mem'[q][j] # EmptyRow,
               mem'[p][i].address = mem'[q][j].address
        PROVE  p = q /\ i = j
    <3>1. p \in Tables /\ mem'[p] = mem[p] /\ q \in Tables /\ mem'[q] = mem[q]
      BY <2>1, <2>3
    <3> QED BY <1>0, <2>3, <3>1 DEF RowInv
  <2> QED BY <2>2, <2>3 DEF RowInv
<1>2. ASSUME NEW t \in Thread, Link(t) PROVE RowInv'
  <2> DEFINE r == TablePage(t)
             n == RowOf(t)
             c == arg[t].context
  <2>1. Writing(t)
    BY <1>2 DEF Inv, CallInv, Link
  <2>2. /\ r \in PageAddress /\ r \in Tables /\ kind[r] = tm[t].level /\ n \in Index
        /\ c \in Context /\ r \in owned[c]
    BY <1>2, <2>1, WriterFacts DEF Link, Writing
  <2>3. /\ new[t] \in owned[c] /\ new[t] \in PageAddress /\ kind[new[t]] = kind[r] + 1
        /\ \A p \in Tables, i \in Index : mem[p][i] # EmptyRow => mem[p][i].address # new[t]
    BY <2>1, <2>2 DEF Writing, Inv, TypeOK
  <2>4. Tables' = Tables /\ kind' = kind /\ owned' = owned
    BY <1>2 DEF Link, Tables
  <2>5. /\ mem'[r][n].type = TYPE_TABLE /\ mem'[r][n].address = new[t]
        /\ mem'[r][n].user = (kind[r] = LEVEL_MAX)
    BY <1>2, <2>2 DEF Link
  <2>6. \A p \in Tables, i \in Index : p # r \/ i # n => mem'[p][i] = mem[p][i]
    BY <1>2 DEF Link, Tables
  <2>7. \A d \in Context : r \in owned[d] => d = c
    BY <2>2 DEF Inv, OwnerInv
  <2> HIDE DEF r, n, c
  <2>8. ASSUME NEW p \in Tables, NEW i \in Index, mem'[p][i] # EmptyRow
        PROVE  /\ mem'[p][i].type = TYPE_TABLE
               /\ mem'[p][i].address \in PageAddress
               /\ kind[mem'[p][i].address] = kind[p] + 1
               /\ mem'[p][i].user = (kind[p] = LEVEL_MAX)
               /\ \A d \in Context : p \in owned[d] => mem'[p][i].address \in owned[d]
    <3>1. CASE p = r /\ i = n
      BY <2>3, <2>5, <2>7, <3>1
    <3>2. CASE p # r \/ i # n
      BY <1>0, <2>6, <2>8, <3>2 DEF RowInv
    <3> QED BY <3>1, <3>2
  <2>9. ASSUME NEW p \in Tables, NEW q \in Tables, NEW i \in Index, NEW j \in Index,
               mem'[p][i] # EmptyRow, mem'[q][j] # EmptyRow,
               mem'[p][i].address = mem'[q][j].address
        PROVE  p = q /\ i = j
    <3>1. CASE (p # r \/ i # n) /\ (q # r \/ j # n)
      BY <1>0, <2>6, <2>9, <3>1 DEF RowInv
    <3>2. CASE p = r /\ i = n /\ ~(q = r /\ j = n)
      BY <2>3, <2>5, <2>6, <2>9, <3>2
    <3>3. CASE q = r /\ j = n /\ ~(p = r /\ i = n)
      BY <2>3, <2>5, <2>6, <2>9, <3>3
    <3> QED BY <3>1, <3>2, <3>3
  <2> QED BY <2>4, <2>8, <2>9 DEF RowInv
<1>3. CASE UserWrite
  <2>1. Tables' = Tables /\ kind' = kind /\ owned' = owned /\ \A p \in Tables : mem'[p] = mem[p]
    BY <1>3, UserWriteFacts DEF Tables
  <2> QED BY <1>0, <2>1 DEF RowInv
<1>4. CASE Still
  BY <1>0, <1>4 DEF Still, RowInv, Tables
<1> QED BY <1>1, <1>2, <1>3, <1>4, Steps

-------------------------------------------------------------------------------
(***************************************************************************)
(* The calls of alloc_page.                                                *)
(***************************************************************************)
\* A row that is what the walk expects refers to a page of the level below, and
\* any other is zero.
LEMMA RowFacts ==
  ASSUME Inv, NEW t \in Thread, Traversing(t)
  PROVE  /\ TypeOf(t) # Expected(t) => Value(t) = EmptyRow
         /\ TypeOf(t) = Expected(t) =>
              /\ Value(t).type = TYPE_TABLE /\ Value(t).address \in PageAddress
              /\ Value(t).address \in owned[arg[t].context]
              /\ kind[Value(t).address] = tm[t].level + 1
<1>1. pc[t] # "idle" /\ InTable(tm[t], arg[t].address)
  BY DEF Traversing
<1>2. /\ TablePage(t) \in Tables /\ RowOf(t) \in Index /\ kind[TablePage(t)] = tm[t].level
      /\ tm[t].level \in {0, 1, 2, 3} /\ arg[t].context \in Context
      /\ TablePage(t) \in owned[arg[t].context]
  BY <1>1, WriterFacts, Levels
<1>3. Value(t) # EmptyRow =>
        /\ Value(t).type = TYPE_TABLE /\ Value(t).address \in PageAddress
        /\ Value(t).address \in owned[arg[t].context]
        /\ kind[Value(t).address] = tm[t].level + 1
  BY <1>2 DEF Inv, RowInv, Value
<1>4. Value(t).type = TYPE_TABLE => TypeOf(t) = Expected(t)
  BY <1>2, Levels DEF TypeOf, Expected, DescriptorType, TYPE_TABLE, TYPE_PAGE, TYPE_BLOCK
<1>5. Value(t) = EmptyRow => TypeOf(t) # Expected(t)
  BY <1>2, Levels DEF TypeOf, Expected, DescriptorType, EmptyRow, TYPE_TABLE, TYPE_PAGE, TYPE_BLOCK
<1> QED BY <1>3, <1>4, <1>5

\* The next table manager when the walk goes on to a page.
LEMMA DescendFacts ==
  ASSUME Inv, NEW t \in Thread, pc[t] # "idle", InTable(tm[t], arg[t].address),
         tm[t].level < LEVEL_MAX, NEW page \in PageAddress, Descend(t, page)
  PROVE  /\ tm' \in [Thread -> [table : Nat, level : Level, start : Nat]]
         /\ \A u \in Thread : u # t => tm'[u] = tm[u]
         /\ tm'[t].level = tm[t].level + 1 /\ PhysicalAddress(tm'[t].table) = page
         /\ tm'[t].start % TableLen(tm'[t].level) = 0
         /\ InTable(tm'[t], arg[t].address)
         /\ RowOf(t) = HwIndex(tm[t].level, arg[t].address)
<1> DEFINE l == tm[t].level
           s == tm[t].start
           a == arg[t].address
           i == (a - s) \div RowLen(l)
           n == s + RowLen(l) * i
<1>1. tm \in [Thread -> [table : Nat, level : Level, start : Nat]]
  BY DEF Inv, TypeOK
<1>2. l \in Level /\ s \in Nat /\ a \in Nat /\ s % TableLen(l) = 0
  BY WriterFacts
<1>3. s <= a /\ a < s + TableLen(l)
  BY DEF InTable
<1>4. l + 1 \in Level /\ RowLen(l) = TableLen(l + 1)
  <2>1. l = 0 \/ l = 1 \/ l = 2
    BY <1>2, Levels
  <2> QED BY <2>1, Sizes, Levels
<1>5. n \in Nat /\ n % RowLen(l) = 0 /\ n <= a /\ a < n + RowLen(l) /\ i = HwIndex(l, a)
  BY <1>2, <1>3, NextTable
<1>6. RowOf(t) = i
  BY DEF RowOf, RowIndex
<1>7. RowStart(tm[t], RowOf(t)) = n
  BY <1>6 DEF RowStart
<1>8. VirtualAddress(page) \in Nat /\ PhysicalAddress(VirtualAddress(page)) = page
  BY Mapper
<1> DEFINE new_tm == [table |-> VirtualAddress(page), level |-> l + 1, start |-> n]
<1>9. tm' = [tm EXCEPT ![t] = new_tm]
  BY <1>7 DEF Descend
<1> HIDE DEF n, i, a
<1>10. new_tm \in [table : Nat, level : Level, start : Nat]
  BY <1>4, <1>5, <1>8
<1>11. tm'[t] = new_tm /\ \A u \in Thread : u # t => tm'[u] = tm[u]
  BY <1>1, <1>9
<1>12. tm' \in [Thread -> [table : Nat, level : Level, start : Nat]]
  BY <1>1, <1>9, <1>10
<1>13. new_tm.level = l + 1 /\ new_tm.start = n /\ new_tm.table = VirtualAddress(page)
  OBVIOUS
<1> HIDE DEF new_tm, l, s
<1>14. InTable(tm'[t], a)
  BY <1>4, <1>5, <1>11, <1>13 DEF InTable
<1>15. tm'[t].start % TableLen(tm'[t].level) = 0
  BY <1>4, <1>5, <1>11, <1>13
<1>16. tm'[t].level = l + 1 /\ PhysicalAddress(tm'[t].table) = page
  BY <1>8, <1>11, <1>13
<1> QED BY <1>5, <1>6, <1>11, <1>12, <1>14, <1>15, <1>16 DEF a, l

\* What the actions of the threads do to the variables that only they change,
\* and that these keep their types.
LEMMA ThreadTypes ==
  ASSUME Inv, [Next]_vars
  PROVE  /\ pc' \in [Thread -> {"idle", "walk", "write"}]
         /\ arg' \in [Thread -> [context : Context \cup {NoContext}, address : Nat]]
         /\ tm' \in [Thread -> [table : Nat, level : Level, start : Nat]]
         /\ new' \in [Thread -> Nat]
         /\ ret' \in [Thread -> [ok : BOOLEAN, page : Nat]]
         /\ lock' \in [Context -> BOOLEAN]
         /\ calls' \in 0 .. MaxCalls
<1> DEFINE Good ==
      /\ pc \in [Thread -> {"idle", "walk", "write"}]
      /\ arg \in [Thread -> [context : Context \cup {NoContext}, address : Nat]]
      /\ tm \in [Thread -> [table : Nat, level : Level, start : Nat]]
      /\ new \in [Thread -> Nat]
      /\ ret \in [Thread -> [ok : BOOLEAN, page : Nat]]
      /\ lock \in [Context -> BOOLEAN]
      /\ calls \in 0 .. MaxCalls
<1>0. Good /\ MaxCalls \in Nat
  BY MemoryContextAssumption DEF Inv, TypeOK
<1>1. CASE UNCHANGED walkVars
  BY <1>0, <1>1 DEF walkVars
<1>2. ASSUME NEW c \in Context, AllocPageUnmapped(c) PROVE Good'
  BY <1>0, <1>2 DEF AllocPageUnmapped
<1>3. ASSUME NEW t \in Thread, NEW c \in Context, NEW a \in Address, AllocPage(t, c, a) PROVE Good'
  <2>1. [context |-> c, address |-> a] \in [context : Context \cup {NoContext}, address : Nat]
    BY MemoryContextAssumption
  <2>2. [table |-> root[c], level |-> LEVEL_ROOT, start |-> 0] \in [table : Nat, level : Level, start : Nat]
    BY Levels DEF Inv, TypeOK
  <2>3. NoResult \in [ok : BOOLEAN, page : Nat]
    BY DEF NoResult
  <2>4. arg' \in [Thread -> [context : Context \cup {NoContext}, address : Nat]]
    BY <1>0, <1>3, <2>1 DEF AllocPage
  <2>5. tm' \in [Thread -> [table : Nat, level : Level, start : Nat]]
    BY <1>0, <1>3, <2>2 DEF AllocPage
  <2>6. ret' \in [Thread -> [ok : BOOLEAN, page : Nat]]
    BY <1>0, <1>3, <2>3 DEF AllocPage
  <2> QED BY <1>0, <1>3, <2>4, <2>5, <2>6 DEF AllocPage
<1>4. ASSUME NEW t \in Thread, NEW result \in [ok : BOOLEAN, page : Nat], Return(t, result) PROVE Good'
  BY <1>0, <1>4 DEF Return
<1>5. ASSUME NEW t \in Thread, LoadTable(t) PROVE Good'
  <2>1. Traversing(t) /\ TypeOf(t) = Expected(t) /\ tm[t].level < LEVEL_MAX
    BY <1>5 DEF LoadTable, Expected
  <2>2. Value(t).address \in PageAddress
    BY <2>1, RowFacts
  <2>3. tm' \in [Thread -> [table : Nat, level : Level, start : Nat]]
    BY <1>5, <2>1, <2>2, DescendFacts DEF LoadTable, Traversing
  <2> QED BY <1>0, <1>5, <2>3 DEF LoadTable
<1>6. ASSUME NEW t \in Thread, LoadPage(t) PROVE Good'
  <2>1. Traversing(t) /\ TypeOf(t) = Expected(t)
    BY <1>6, Levels DEF LoadPage, Expected
  <2>2. Value(t).address \in Nat
    BY <2>1, RowFacts, Pages
  <2> QED BY <1>4, <1>6, <2>2 DEF LoadPage
<1>7. ASSUME NEW t \in Thread, Allocate(t) PROVE Good'
  BY <1>0, <1>7 DEF Allocate, Inv, TypeOK
<1>8. ASSUME NEW t \in Thread, WriteTable(t) PROVE Good'
  <2>1. pc[t] # "idle" /\ Writing(t)
    BY <1>8 DEF WriteTable, Inv, CallInv
  <2>2. new[t] \in PageAddress /\ InTable(tm[t], arg[t].address)
    BY <2>1, WriterFacts DEF Writing, Inv, TypeOK
  <2>3. tm' \in [Thread -> [table : Nat, level : Level, start : Nat]]
    BY <1>8, <2>1, <2>2, DescendFacts DEF WriteTable
  <2> QED BY <1>0, <1>8, <2>3 DEF WriteTable
<1>9. ASSUME NEW t \in Thread, WritePage(t) PROVE Good'
  <2>1. new[t] \in Nat
    BY <1>0
  <2> QED BY <1>4, <1>9, <2>1 DEF WritePage
<1>10. ASSUME NEW t \in Thread, Fail(t) PROVE Good'
  <2>1. NoResult \in [ok : BOOLEAN, page : Nat]
    BY DEF NoResult
  <2> QED BY <1>4, <1>10, <2>1 DEF Fail
<1>11. Good'
  <2> HIDE DEF Good
  <2>1. CASE UNCHANGED vars
    BY <1>1, <2>1 DEF vars, Good
  <2>2. ASSUME NEW c \in Context, New(c) PROVE Good'
    BY <1>1, <2>2 DEF New, Good
  <2>3. ASSUME NEW x, NEW a, TlbFill(x, a) PROVE Good'
    BY <1>1, <2>3 DEF TlbFill, Good
  <2>4. ASSUME NEW x, NEW e, UserStore(x, e) PROVE Good'
    BY <1>1, <2>4 DEF UserStore, Good
  <2> QED BY <1>2, <1>3, <1>5, <1>6, <1>7, <1>8, <1>9, <1>10, <2>1, <2>2, <2>3, <2>4 DEF Next, Step
<1> QED BY <1>11

-------------------------------------------------------------------------------
(***************************************************************************)
(* What the hardware finds and caches.                                     *)
(***************************************************************************)
\* The hardware looks at the same rows for every address of a page.
LEMMA SamePage ==
  ASSUME NEW l \in Level, NEW a \in Nat
  PROVE  PageOf(a) \in Nat /\ HwIndex(l, PageOf(a)) = HwIndex(l, a)
<1> DEFINE P == PageSize
           R == RowLen(l)
           n == a \div P
           d == a \div R
<1>1. P \in Nat \ {0} /\ R \in Nat \ {0}
  BY Sizes, PageTableAssumption
<1>2. PICK x \in Nat : R = x * P
  BY RowLenPages
<1>3. n \in Nat /\ n * P <= a /\ a < (n + 1) * P
  BY <1>1
<1>4. d \in Nat /\ d * R <= a /\ a < (d + 1) * R
  BY <1>1
<1>5. \A y, z \in Nat : y * P < z * P => y < z
  BY <1>1
<1> HIDE DEF P, R, n, d
<1>6. d * R = (d * x) * P /\ (d + 1) * R = ((d + 1) * x) * P /\ d * x \in Nat /\ (d + 1) * x \in Nat
  BY <1>1, <1>2, <1>4
<1>7. d * x <= n
  <2>1. (d * x) * P < (n + 1) * P
    BY <1>1, <1>3, <1>4, <1>6
  <2>2. n + 1 \in Nat
    BY <1>3
  <2>3. d * x < n + 1
    BY <1>5, <1>6, <2>1, <2>2
  <2> QED BY <1>3, <1>6, <2>3
<1>8. n * P < (d + 1) * R
  <2>1. n * P \in Nat /\ (d + 1) * R \in Nat
    BY <1>1, <1>3, <1>4
  <2> QED BY <1>3, <1>4, <2>1
<1>9. d * R <= n * P
  <2>1. \A y, z \in Nat : y <= z => y * P <= z * P
    BY <1>1
  <2> QED BY <1>3, <1>6, <1>7, <2>1
<1>10. n * P \in Nat
  BY <1>1, <1>3
<1>11. (n * P) \div R = d
  <2>1. \A y \in Nat : d * R <= y /\ y < (d + 1) * R => y \div R = d
    BY <1>1, <1>4
  <2> QED BY <1>8, <1>9, <1>10, <2>1
<1> QED BY <1>10, <1>11 DEF PageOf, HwIndex, n, d, P, R

\* So its walk is the same.
LEMMA SamePageWalk ==
  ASSUME NEW m, NEW k, IsTree(m, k), NEW r \in PageAddress, k[r] = 0, NEW a \in Nat
  PROVE  Walk(m, r, PageOf(a)) = Walk(m, r, a)
<1> DEFINE b == PageOf(a)
<1>1. b \in Nat /\ \A l \in 0 .. 3 : HwIndex(l, b) = HwIndex(l, a)
  BY SamePage, Levels
<1> HIDE DEF b
<1>2. ASSUME NEW S, NEW l \in 0 .. 3 PROVE Follow(m, S, l, b) = Follow(m, S, l, a)
  <2>1. \A q : q \in Follow(m, S, l, b) <=> q \in Follow(m, S, l, a)
    BY <1>1, FollowMembers
  <2> QED BY <2>1
<1>3. Reached(m, r, 0, b) = Reached(m, r, 0, a)
  BY WalkSteps
<1>4. Reached(m, r, 1, b) = Reached(m, r, 1, a)
  BY <1>2, <1>3, WalkSteps
<1>5. Reached(m, r, 2, b) = Reached(m, r, 2, a)
  BY <1>2, <1>4, WalkSteps
<1>6. Reached(m, r, 3, b) = Reached(m, r, 3, a)
  BY <1>2, <1>5, WalkSteps
<1>7. HwIndex(3, b) = HwIndex(3, a)
  BY <1>1
<1>8. \A w : w \in Walk(m, r, b) <=> w \in Walk(m, r, a)
  BY <1>1, <1>6, <1>7, TreeWalk
<1> QED BY <1>8 DEF b

\* No row that is in use ever changes.
LEMMA GrowsNext ==
  ASSUME Inv, [Next]_vars
  PROVE  Grows(mem, mem', kind)
<1> SUFFICES ASSUME NEW p \in PageAddress, NEW i \in Index, kind[p] \in Level, mem[p][i] # EmptyRow
             PROVE  mem'[p][i] = mem[p][i]
  BY DEF Grows
<1>1. ASSUME NEW c, NEW k, Grab(c, k) PROVE mem'[p][i] = mem[p][i]
  BY <1>1, GrabFacts, Levels
<1>2. ASSUME NEW t \in Thread, Link(t) PROVE mem'[p][i] = mem[p][i]
  <2>1. Value(t) = EmptyRow
    BY <1>2 DEF Link, Inv, CallInv, Writing
  <2>2. p # TablePage(t) \/ i # RowOf(t)
    BY <2>1 DEF Value
  <2> QED BY <1>2, <2>2 DEF Link
<1>3. CASE UserWrite
  BY <1>3, UserWriteFacts DEF Tables
<1>4. CASE Still
  BY <1>4 DEF Still
<1> QED BY <1>1, <1>2, <1>3, <1>4, Steps

LEMMA ContextsKept ==
  ASSUME Inv, [Next]_vars
  PROVE  /\ created \subseteq created'
         /\ \A c \in created : root'[c] = root[c] /\ asid'[c] = asid[c]
<1>1. ASSUME NEW c \in Context, New(c)
      PROVE  /\ created \subseteq created'
             /\ \A d \in created : root'[d] = root[d] /\ asid'[d] = asid[d]
  BY <1>1 DEF New, Inv, TypeOK
<1>2. CASE UNCHANGED contextVars
  BY <1>2 DEF contextVars
<1>3. CASE UNCHANGED vars
  BY <1>2, <1>3 DEF vars
<1>4. CASE Next
  BY <1>1, <1>2, <1>4
     DEF Next, Step, AllocPageUnmapped, AllocPage, LoadTable, LoadPage, Allocate, WriteTable, WritePage,
         Fail, TlbFill, UserStore
<1> QED BY <1>3, <1>4

\* What a context translates an address to, it keeps translating it to.
LEMMA TranslateKept ==
  ASSUME Inv, [Next]_vars, NEW c \in created, NEW a \in Nat, Translate(c, a) # {}
  PROVE  c \in created' /\ Translate(c, a)' = Translate(c, a)
<1> DEFINE r == PhysicalAddress(root[c])
<1>1. c \in created' /\ root'[c] = root[c]
  BY ContextsKept
<1>2. r \in PageAddress /\ kind[r] = 0
  BY Roots
<1>3. kind'[r] = 0
  BY <1>1, OwnerNext, Levels DEF OwnerInv
<1>4. IsTree(mem, kind) /\ IsTree(mem', kind')
  BY RowInvTree, RowInvTreeNext, RowNext DEF Inv
<1>5. Walk(mem, r, a) # {}
  BY DEF Translate
<1> HIDE DEF r
<1>6. Walk(mem', r, a) = Walk(mem, r, a)
  BY <1>2, <1>3, <1>4, <1>5, GrowsNext, WalkGrows
<1> QED BY <1>1, <1>6 DEF Translate, r

\* The two fields of the values of TTBR0_EL1.
LEMMA TtbrFields ==
  ASSUME Inv
  PROVE  /\ L0.table % VA_SIZE = L0.table /\ L0.table \div VA_SIZE = 0
         /\ \A c \in created : Ttbr(c) % VA_SIZE = PhysicalAddress(root[c]) /\ Ttbr(c) \div VA_SIZE = asid[c]
<1>1. VA_SIZE \in Nat \ {0}
  BY Sizes
<1>2. L0.table \in Nat /\ L0.table < VA_SIZE
  BY Pages, Kernel, KernelFirstPages, KernelStarts
<1>3. \A k, r \in Nat : r < VA_SIZE => (k * VA_SIZE + r) % VA_SIZE = r /\ (k * VA_SIZE + r) \div VA_SIZE = k
  BY <1>1
<1>4. ASSUME NEW c \in created
      PROVE  Ttbr(c) % VA_SIZE = PhysicalAddress(root[c]) /\ Ttbr(c) \div VA_SIZE = asid[c]
  <2>1. asid[c] \in Nat
    BY DEF Inv, TypeOK
  <2>2. PhysicalAddress(root[c]) \in Nat /\ PhysicalAddress(root[c]) < VA_SIZE
    BY Roots, Pages
  <2> QED BY <1>3, <2>1, <2>2 DEF Ttbr
<1>5. L0.table % VA_SIZE = L0.table /\ L0.table \div VA_SIZE = 0
  BY <1>1, <1>2
<1> QED BY <1>4, <1>5

\* An entry that the hardware adds was found in the tables that are installed.
LEMMA FillFacts ==
  ASSUME Inv, NEW x \in Ttbr0, NEW a \in Address, NEW w \in Walk(mem, x % VA_SIZE, a)
  PROVE  /\ w.page \in Nat /\ w.user \in BOOLEAN /\ x \div VA_SIZE \in Nat /\ PageOf(a) \in Nat
         /\ \/ x \div VA_SIZE = 0 /\ ~w.user
            \/ \E c \in created :
                 /\ x \div VA_SIZE = asid[c]
                 /\ Translate(c, PageOf(a)) = {[page |-> w.page, user |-> w.user]}
<1>1. a \in Nat
  BY MemoryContextAssumption
<1>2. PageOf(a) \in Nat
  BY <1>1, SamePage, Levels
<1>3. CASE x = L0.table
  <2>1. x \div VA_SIZE = 0 /\ w \in Walk(mem, L0.table, a)
    BY <1>3, TtbrFields
  <2>2. \A p \in KernelPages : mem[p] = CreateTables[p]
    BY DEF Inv, CursorInv
  <2>3. w \in [page : Nat, user : {FALSE}]
    BY <1>1, <2>1, <2>2, KernelWalk
  <2>4. w.page \in Nat /\ w.user = FALSE
    BY <2>3
  <2>5. w.user \in BOOLEAN
    BY <2>4
  <2> QED BY <1>2, <2>1, <2>4, <2>5
<1>4. ASSUME NEW c \in created, x = Ttbr(c)
      PROVE  /\ w.page \in Nat /\ w.user \in BOOLEAN /\ x \div VA_SIZE \in Nat
             /\ x \div VA_SIZE = asid[c]
             /\ Translate(c, PageOf(a)) = {[page |-> w.page, user |-> w.user]}
  <2> DEFINE r == PhysicalAddress(root[c])
  <2>1. x \div VA_SIZE = asid[c] /\ w \in Walk(mem, r, a)
    BY <1>4, TtbrFields
  <2>2. asid[c] \in Nat
    BY DEF Inv, TypeOK
  <2>3. r \in PageAddress /\ kind[r] = 0 /\ IsTree(mem, kind)
    BY Roots, RowInvTree DEF Inv
  <2> HIDE DEF r
  <2>4. PICK p \in PageAddress : w = [page |-> p, user |-> TRUE]
    BY <1>1, <2>1, <2>3, TreeWalkPage
  <2>5. Walk(mem, r, PageOf(a)) = Walk(mem, r, a)
    BY <1>1, <2>3, SamePageWalk
  <2>6. \A v \in Walk(mem, r, a) : v = w
    BY <1>1, <2>1, <2>3, TreeWalkUnique
  <2>7. w.page = p /\ w.user = TRUE /\ w = [page |-> w.page, user |-> w.user]
    BY <2>4
  <2>8. Walk(mem, r, PageOf(a)) = {w}
    BY <2>1, <2>5, <2>6
  <2> QED BY <2>1, <2>2, <2>7, <2>8, Pages DEF Translate, r
<1> QED BY <1>2, <1>3, <1>4 DEF Ttbr0

LEMMA TlbNext == Inv /\ [Next]_vars => TlbInv' /\ tlb' \subseteq [asid : Nat, address : Nat, page : Nat, user : BOOLEAN]
<1> SUFFICES ASSUME Inv, [Next]_vars
             PROVE  TlbInv' /\ tlb' \subseteq [asid : Nat, address : Nat, page : Nat, user : BOOLEAN]
  OBVIOUS
<1> DEFINE Entry == [asid : Nat, address : Nat, page : Nat, user : BOOLEAN]
           Found(e) == \/ e.asid = 0 /\ ~e.user
                       \/ \E c \in created :
                            /\ e.asid = asid[c]
                            /\ Translate(c, e.address) = {[page |-> e.page, user |-> e.user]}
<1>1. \A e \in tlb : e \in Entry /\ Found(e)
  BY DEF Inv, TypeOK, TlbInv
<1>2. ASSUME NEW e \in Entry, Found(e)
      PROVE  \/ e.asid = 0 /\ ~e.user
             \/ \E c \in created' :
                  /\ e.asid = asid'[c]
                  /\ Translate(c, e.address)' = {[page |-> e.page, user |-> e.user]}
  <2>1. CASE e.asid = 0 /\ ~e.user
    BY <2>1
  <2>2. ASSUME NEW c \in created, e.asid = asid[c],
               Translate(c, e.address) = {[page |-> e.page, user |-> e.user]}
        PROVE  /\ c \in created' /\ e.asid = asid'[c]
               /\ Translate(c, e.address)' = {[page |-> e.page, user |-> e.user]}
    <3>1. e.address \in Nat /\ Translate(c, e.address) # {}
      BY <2>2
    <3> QED BY <2>2, <3>1, TranslateKept, ContextsKept
  <2> QED BY <1>2, <2>1, <2>2
<1>3. \A e \in tlb' : e \in Entry /\ Found(e)
  <2>1. CASE tlb' \subseteq tlb
    BY <1>1, <2>1
  <2>2. ASSUME NEW x \in Ttbr0, NEW a \in Address, TlbFill(x, a)
        PROVE  \A e \in tlb' : e \in Entry /\ Found(e)
    <3>1. PICK w \in Walk(mem, x % VA_SIZE, a), kept \in SUBSET tlb :
            tlb' = kept \cup {[asid |-> x \div VA_SIZE, address |-> PageOf(a),
                               page |-> w.page, user |-> w.user]}
      BY <2>2 DEF TlbFill
    <3> DEFINE e == [asid |-> x \div VA_SIZE, address |-> PageOf(a),
                     page |-> w.page, user |-> w.user]
    <3>2. e \in Entry /\ Found(e)
      <4>1. e.asid = x \div VA_SIZE /\ e.address = PageOf(a) /\ e.page = w.page /\ e.user = w.user
        OBVIOUS
      <4>2. e \in Entry
        BY FillFacts
      <4> HIDE DEF e, Entry
      <4>3. Found(e)
        BY <4>1, FillFacts
      <4> QED BY <4>2, <4>3
    <3> HIDE DEF e, Entry, Found
    <3> QED BY <1>1, <3>1, <3>2 DEF e
  <2>3. CASE UNCHANGED tlb
    BY <2>1, <2>3
  <2>4. CASE UNCHANGED vars
    BY <2>3, <2>4 DEF vars
  <2>5. CASE Next
    <3> HIDE DEF Entry, Found
    <3> QED BY <2>2, <2>3, <2>5
       DEF Next, Step, New, AllocPageUnmapped, AllocPage, LoadTable, LoadPage, Allocate, WriteTable,
           WritePage, Fail, UserStore
  <2> QED BY <2>4, <2>5
<1> HIDE DEF Found
<1>4. TlbInv'
  BY <1>2, <1>3 DEF TlbInv
<1> QED BY <1>3, <1>4

LEMMA TypeNext == Inv /\ [Next]_vars => TypeOK'
<1> SUFFICES ASSUME Inv, [Next]_vars PROVE TypeOK'
  OBVIOUS
<1>1. /\ mem' \in [PageAddress -> Table] /\ cursor' \in Nat
      /\ owned' \in [Context -> SUBSET PageAddress]
      /\ kind' \in [PageAddress -> -1 .. LEVEL_MAX + 2]
  <2>0. /\ mem \in [PageAddress -> Table] /\ cursor \in Nat
        /\ owned \in [Context -> SUBSET PageAddress]
        /\ kind \in [PageAddress -> -1 .. LEVEL_MAX + 2]
    BY DEF Inv, TypeOK
  <2>1. ASSUME NEW c, NEW k, Grab(c, k) PROVE cursor' \in Nat
    BY <2>0, <2>1, PageTableAssumption DEF Grab, AllocPageRaw
  <2>2. ASSUME NEW c, NEW k, Grab(c, k)
        PROVE  /\ mem' \in [PageAddress -> Table]
               /\ owned' \in [Context -> SUBSET PageAddress]
               /\ kind' \in [PageAddress -> -1 .. LEVEL_MAX + 2]
    BY <2>2, GrabFacts
  <2>3. ASSUME NEW t \in Thread, Link(t)
        PROVE  mem' \in [PageAddress -> Table] /\ UNCHANGED <<cursor, owned, kind>>
    BY <2>3 DEF Link
  <2>4. CASE UserWrite
    BY <2>0, <2>4, UserWriteFacts
  <2>5. CASE Still
    BY <2>0, <2>5 DEF Still
  <2> QED BY <2>0, <2>1, <2>2, <2>3, <2>4, <2>5, Steps
<1>2. /\ created' \subseteq Context /\ counter' \in 0 .. ASID_COUNT - 1
      /\ root' \in [Context -> Nat] /\ asid' \in [Context -> 0 .. ASID_COUNT - 1]
  <2>0. /\ created \subseteq Context /\ counter \in 0 .. ASID_COUNT - 1
        /\ root \in [Context -> Nat] /\ asid \in [Context -> 0 .. ASID_COUNT - 1]
    BY DEF Inv, TypeOK
  <2>1. ASSUME NEW c \in Context, New(c)
        PROVE  /\ created' \subseteq Context /\ counter' \in 0 .. ASID_COUNT - 1
               /\ root' \in [Context -> Nat] /\ asid' \in [Context -> 0 .. ASID_COUNT - 1]
    <3>1. cursor \in PageAddress
      BY <2>1, Fresh DEF New, AllocPageRaw, Inv, TypeOK, CursorInv
    <3>2. VirtualAddress(cursor) \in Nat
      BY <3>1, Mapper
    <3>3. counter' \in 0 .. ASID_COUNT - 1
      BY <2>0, <2>1, MemoryContextAssumption DEF New, AddressSpaceIdNext
    <3> QED BY <2>0, <2>1, <3>2, <3>3 DEF New
  <2>2. CASE UNCHANGED contextVars
    BY <2>0, <2>2 DEF contextVars
  <2>3. CASE UNCHANGED vars
    BY <2>2, <2>3 DEF vars
  <2>4. CASE Next
    BY <2>1, <2>2, <2>4
       DEF Next, Step, AllocPageUnmapped, AllocPage, LoadTable, LoadPage, Allocate, WriteTable, WritePage,
           Fail, TlbFill, UserStore
  <2> QED BY <2>3, <2>4
<1> QED BY <1>1, <1>2, ThreadTypes, TlbNext DEF TypeOK

-------------------------------------------------------------------------------
(***************************************************************************)
(* The calls that are under way, from one step to the next.                *)
(***************************************************************************)
\* A page that is in use keeps its use and its owner.
LEMMA UsesKept ==
  ASSUME Inv, [Next]_vars
  PROVE  /\ \A p \in PageAddress : kind[p] # -1 => kind'[p] = kind[p]
         /\ \A c \in Context : owned[c] \subseteq owned'[c]
<1>1. ASSUME NEW c, NEW k, Grab(c, k)
      PROVE  /\ \A p \in PageAddress : kind[p] # -1 => kind'[p] = kind[p]
             /\ \A d \in Context : owned[d] \subseteq owned'[d]
  BY <1>1, GrabFacts
<1>2. CASE UNCHANGED <<kind, owned>>
  BY <1>2
<1> QED BY <1>1, <1>2, Steps, UserWriteFacts DEF Link, Still

\* The call of a thread stays where it is.
Kept(u) ==
  /\ pc'[u] = pc[u] /\ arg'[u] = arg[u] /\ tm'[u] = tm[u] /\ new'[u] = new[u] /\ ret'[u] = ret[u]
  /\ pc[u] # "idle" => lock'[arg[u].context]

LEMMA WalkingKept ==
  ASSUME Inv, [Next]_vars, NEW u \in Thread, pc[u] # "idle",
         arg'[u] = arg[u], tm'[u] = tm[u], ret'[u] = ret[u], lock'[arg[u].context]
  PROVE  Walking(u)'
<1>1. Walking(u)
  BY DEF Inv, CallInv
<1>2. /\ arg[u].context \in Context /\ arg[u].context \in created
      /\ TablePage(u) \in PageAddress /\ tm[u].level \in Level
  BY WriterFacts
<1>3. kind'[TablePage(u)] = kind[TablePage(u)] /\ TablePage(u) \in owned'[arg[u].context]
  BY <1>1, <1>2, UsesKept, Levels DEF Walking
<1>4. arg[u].context \in created'
  BY <1>2, ContextsKept
<1>5. TablePage(u)' = TablePage(u)
  BY DEF TablePage
<1> QED BY <1>1, <1>3, <1>4, <1>5 DEF Walking

LEMMA WritingKept ==
  ASSUME Inv, [Next]_vars, NEW u \in Thread, pc[u] = "write", pc'[u] = "write",
         arg'[u] = arg[u], tm'[u] = tm[u], new'[u] = new[u]
  PROVE  Writing(u)'
<1> DEFINE r == TablePage(u)
           n == RowOf(u)
           c == arg[u].context
<1>1. Writing(u) /\ pc[u] # "idle"
  BY DEF Inv, CallInv
<1>2. /\ c \in Context /\ c \in created /\ r \in PageAddress /\ r \in owned[c]
      /\ tm[u].level \in Level /\ r \in Tables /\ n \in Index /\ kind[r] = tm[u].level
  BY <1>1, WriterFacts DEF Writing
<1>3. /\ mem[r][n] = EmptyRow /\ new[u] \in owned[c] /\ new[u] \in PageAddress
      /\ kind[new[u]] = tm[u].level + 1
      /\ tm[u].level # LEVEL_MAX => mem[new[u]] = ZeroTable
      /\ \A p \in Tables, i \in Index : mem[p][i] # EmptyRow => mem[p][i].address # new[u]
  BY <1>1, <1>2 DEF Writing, Value, Inv, TypeOK
<1>4. r # new[u] /\ kind[new[u]] # -1 /\ kind[r] # -1 /\ (tm[u].level # LEVEL_MAX => new[u] \in Tables)
  BY <1>2, <1>3, Levels DEF Tables
<1>5. TablePage(u)' = r /\ RowOf(u)' = n
  BY DEF TablePage, RowOf
<1>6. kind'[new[u]] = kind[new[u]] /\ new[u] \in owned'[c]
  BY <1>2, <1>3, <1>4, UsesKept
<1> DEFINE Q == /\ mem'[r][n] = EmptyRow
                /\ tm[u].level # LEVEL_MAX => mem'[new[u]] = ZeroTable
                /\ \A p \in Tables', i \in Index : mem'[p][i] # EmptyRow => mem'[p][i].address # new[u]
<1> HIDE DEF r, n, c
<1>7. ASSUME NEW d, NEW k, Grab(d, k) PROVE Q
  <2>1. mem'[r] = mem[r] /\ mem'[new[u]] = mem[new[u]]
    BY <1>2, <1>3, <1>4, <1>7, GrabFacts
  <2>2. ASSUME NEW p \in Tables', NEW i \in Index, mem'[p][i] # EmptyRow
        PROVE  mem'[p][i].address # new[u]
    <3>1. p # cursor /\ p \in PageAddress
      BY <1>7, <2>2, GrabFacts DEF Tables
    <3>2. p \in Tables /\ mem'[p] = mem[p]
      BY <1>7, <3>1, GrabFacts DEF Tables
    <3> QED BY <1>3, <2>2, <3>2
  <2> QED BY <1>3, <2>1, <2>2
<1>8. ASSUME NEW t \in Thread, Link(t) PROVE Q
  <2>1. t # u /\ pc[t] = "write"
    BY <1>8 DEF Link
  <2>2. Writing(t) /\ pc[t] # "idle"
    BY <2>1 DEF Inv, CallInv
  <2>3. arg[t].context # c
    BY <1>1, <2>1, <2>2 DEF Inv, CallInv, c
  <2>4. /\ arg[t].context \in Context /\ TablePage(t) \in owned[arg[t].context]
        /\ new[t] \in owned[arg[t].context]
    BY <2>2, WriterFacts DEF Writing
  <2>5. TablePage(t) # r /\ TablePage(t) # new[u] /\ new[t] # new[u]
    BY <1>2, <1>3, <2>3, <2>4 DEF Inv, OwnerInv
  <2>6. mem'[r] = mem[r] /\ mem'[new[u]] = mem[new[u]] /\ Tables' = Tables
    BY <1>2, <1>3, <1>8, <2>5 DEF Link, Tables
  <2>7. ASSUME NEW p \in Tables, NEW i \in Index, mem'[p][i] # EmptyRow
        PROVE  mem'[p][i].address # new[u]
    <3>1. CASE p = TablePage(t) /\ i = RowOf(t)
      BY <1>8, <2>5, <3>1 DEF Link
    <3>2. CASE p # TablePage(t) \/ i # RowOf(t)
      <4>1. mem'[p][i] = mem[p][i]
        BY <1>8, <3>2 DEF Link, Tables
      <4> QED BY <1>3, <2>7, <4>1
    <3> QED BY <3>1, <3>2
  <2> QED BY <1>3, <2>6, <2>7
<1>9. ASSUME UserWrite PROVE Q
  <2>1. Tables' = Tables /\ \A p \in Tables : mem'[p] = mem[p]
    BY <1>9, UserWriteFacts DEF Tables
  <2> QED BY <1>2, <1>3, <1>4, <2>1
<1>10. ASSUME Still PROVE Q
  <2>1. Tables' = Tables /\ mem' = mem
    BY <1>10 DEF Still, Tables
  <2> QED BY <1>3, <2>1
<1>11. Q
  BY <1>7, <1>8, <1>9, <1>10, Steps
<1> QED BY <1>1, <1>3, <1>5, <1>6, <1>11 DEF Writing, Value, c

\* In a step, one thread acts at most.
LEMMA Actors ==
  ASSUME Inv, [Next]_vars, NEW u \in Thread
  PROVE  \/ Kept(u)
         \/ Step(u)
         \/ \E c \in Context, address \in Address : AllocPage(u, c, address)
<1>0. /\ pc \in [Thread -> {"idle", "walk", "write"}] /\ lock \in [Context -> BOOLEAN]
      /\ arg \in [Thread -> [context : Context \cup {NoContext}, address : Nat]]
      /\ tm \in [Thread -> [table : Nat, level : Level, start : Nat]]
      /\ new \in [Thread -> Nat] /\ ret \in [Thread -> [ok : BOOLEAN, page : Nat]]
  BY DEF Inv, TypeOK
<1>1. pc[u] # "idle" => lock[arg[u].context] /\ arg[u].context \in Context
  BY WriterFacts DEF Inv, CallInv, Walking
<1>2. ASSUME UNCHANGED <<pc, arg, tm, new, ret, lock>> PROVE Kept(u)
  BY <1>1, <1>2 DEF Kept
<1>3. ASSUME NEW t \in Thread, t # u, Step(t) PROVE Kept(u)
  <2>1. pc[t] # "idle"
    BY <1>3 DEF Step, LoadTable, LoadPage, Allocate, WriteTable, WritePage, Fail, Traversing
  <2>2. pc[u] # "idle" => arg[t].context # arg[u].context
    BY <1>3, <2>1 DEF Inv, CallInv
  <2>3. /\ pc'[u] = pc[u] /\ arg'[u] = arg[u] /\ tm'[u] = tm[u] /\ new'[u] = new[u] /\ ret'[u] = ret[u]
    BY <1>0, <1>3 DEF Step, LoadTable, LoadPage, Allocate, WriteTable, WritePage, Fail, Return, Descend
  <2>4. lock' = lock \/ lock' = [lock EXCEPT ![arg[t].context] = FALSE]
    BY <1>3 DEF Step, LoadTable, LoadPage, Allocate, WriteTable, WritePage, Fail, Return
  <2>5. pc[u] # "idle" => lock'[arg[u].context]
    BY <1>0, <1>1, <2>2, <2>4
  <2> QED BY <2>3, <2>5 DEF Kept
<1>4. ASSUME NEW t \in Thread, t # u, NEW c \in Context, NEW a \in Address, AllocPage(t, c, a)
      PROVE  Kept(u)
  <2>1. /\ pc'[u] = pc[u] /\ arg'[u] = arg[u] /\ tm'[u] = tm[u] /\ new'[u] = new[u] /\ ret'[u] = ret[u]
    BY <1>0, <1>4 DEF AllocPage
  <2>2. lock' = [lock EXCEPT ![c] = TRUE]
    BY <1>4 DEF AllocPage
  <2>3. pc[u] # "idle" => lock'[arg[u].context]
    BY <1>0, <1>1, <2>2
  <2> QED BY <2>1, <2>3 DEF Kept
<1>5. CASE UNCHANGED vars
  BY <1>2, <1>5 DEF vars, walkVars
<1>6. ASSUME NEW c \in Context, New(c) \/ AllocPageUnmapped(c) PROVE Kept(u)
  BY <1>2, <1>6 DEF New, AllocPageUnmapped, walkVars
<1>7. ASSUME NEW x \in Ttbr0, NEW a \in Address, TlbFill(x, a) PROVE Kept(u)
  BY <1>2, <1>7 DEF TlbFill, walkVars
<1>8. ASSUME NEW x \in Ttbr0, NEW e \in tlb, UserStore(x, e) PROVE Kept(u)
  BY <1>2, <1>8 DEF UserStore, walkVars
<1> QED BY <1>3, <1>4, <1>5, <1>6, <1>7, <1>8 DEF Next

\* A call starts at the root of its context.
LEMMA WalkingStarts ==
  ASSUME Inv, NEW u \in Thread, NEW c \in Context, NEW a \in Address, AllocPage(u, c, a)
  PROVE  Walking(u)' /\ pc'[u] = "walk" /\ ~ret'[u].ok
<1>1. /\ arg'[u] = [context |-> c, address |-> a]
      /\ tm'[u] = [table |-> root[c], level |-> LEVEL_ROOT, start |-> 0]
      /\ ret'[u] = NoResult /\ pc'[u] = "walk" /\ lock'[c] = TRUE
  BY DEF AllocPage, Inv, TypeOK
<1>2. UNCHANGED <<owned, kind, created>> /\ c \in created
  BY DEF AllocPage, contextVars
<1>3. /\ arg'[u].context = c /\ tm'[u].table = root[c] /\ tm'[u].level = LEVEL_ROOT /\ tm'[u].start = 0
      /\ ret'[u].ok = FALSE
  BY <1>1 DEF NoResult
<1>4. PhysicalAddress(root[c]) \in owned[c] /\ kind[PhysicalAddress(root[c])] = LEVEL_ROOT
  BY <1>2 DEF Inv, OwnerInv
<1>5. 0 % TableLen(LEVEL_ROOT) = 0
  <2>1. TableLen(LEVEL_ROOT) \in Nat \ {0}
    BY Sizes, Levels
  <2> QED BY <2>1
<1> QED BY <1>1, <1>2, <1>3, <1>4, <1>5 DEF Walking, TablePage

\* It goes on to a table of the next level, ...
LEMMA WalkingDescends ==
  ASSUME Inv, NEW u \in Thread, LoadTable(u) \/ WriteTable(u)
  PROVE  Walking(u)' /\ pc'[u] = "walk"
<1> DEFINE c == arg[u].context
<1>1. PICK page \in PageAddress :
        /\ Descend(u, page) /\ page \in owned[c] /\ kind[page] = tm[u].level + 1
        /\ InTable(tm[u], arg[u].address)
  <2>1. CASE LoadTable(u)
    <3>1. Traversing(u) /\ TypeOf(u) = Expected(u) /\ Descend(u, Value(u).address)
      BY <2>1 DEF LoadTable, Expected
    <3> QED BY <3>1, RowFacts DEF Traversing
  <2>2. CASE WriteTable(u)
    <3>1. Writing(u) /\ Descend(u, new[u]) /\ pc[u] # "idle"
      BY <2>2 DEF WriteTable, Inv, CallInv
    <3>2. c \in Context
      BY <3>1, WriterFacts
    <3>3. new[u] \in PageAddress
      BY <3>1, <3>2 DEF Writing, Inv, TypeOK
    <3> QED BY <3>1, <3>3 DEF Writing
  <2> QED BY <2>1, <2>2
<1>2. pc[u] # "idle" /\ tm[u].level < LEVEL_MAX
  BY DEF LoadTable, WriteTable, Traversing
<1>3. /\ tm'[u].level = tm[u].level + 1 /\ PhysicalAddress(tm'[u].table) = page
      /\ tm'[u].start % TableLen(tm'[u].level) = 0
      /\ InTable(tm'[u], arg[u].address)
  BY <1>1, <1>2, DescendFacts
<1>4. /\ UNCHANGED <<owned, kind, created, arg, ret, lock>> /\ pc'[u] = "walk"
  BY DEF LoadTable, WriteTable, Traversing, contextVars, Inv, TypeOK
<1>5. Walking(u)
  BY <1>2 DEF Inv, CallInv
<1>6. tm'[u].level # LEVEL_ROOT
  BY <1>2, <1>3, WriterFacts, Levels
<1> QED BY <1>1, <1>3, <1>4, <1>5, <1>6 DEF Walking, TablePage

\* ... or has a page for it.
LEMMA WritingStarts ==
  ASSUME Inv, NEW u \in Thread, Allocate(u)
  PROVE  Writing(u)' /\ pc'[u] = "write"
<1> DEFINE r == TablePage(u)
           n == RowOf(u)
           c == arg[u].context
           l == tm[u].level
<1>1. Traversing(u) /\ TypeOf(u) # Expected(u) /\ pc[u] # "idle"
  BY DEF Allocate, Traversing
<1>2. Value(u) = EmptyRow /\ InTable(tm[u], arg[u].address)
  BY <1>1, RowFacts DEF Traversing
<1>3. r \in PageAddress /\ kind[r] = l /\ l \in Level /\ n \in Index /\ c \in Context
  BY <1>1, <1>2, WriterFacts
<1>4. Grab(c, l + 1)
  BY AllocateStep
<1>5. pc'[u] = "write" /\ new'[u] = cursor /\ arg' = arg /\ tm' = tm
  BY DEF Allocate, Inv, TypeOK
<1>6. r # cursor
  BY <1>3, <1>4, GrabFacts, Levels
<1>7. mem'[r][n] = EmptyRow
  BY <1>2, <1>3, <1>4, <1>6, GrabFacts DEF Value
<1>8. cursor \in owned'[c] /\ kind'[cursor] = l + 1 /\ mem'[cursor] = ZeroTable
  BY <1>4, GrabFacts
<1>9. ASSUME NEW p \in Tables', NEW i \in Index, mem'[p][i] # EmptyRow
      PROVE  mem'[p][i].address # cursor
  <2>1. p # cursor /\ p \in PageAddress
    BY <1>4, <1>9, GrabFacts DEF Tables
  <2>2. mem'[p] = mem[p] /\ p \in Tables /\ kind[p] \in Level
    BY <1>4, <2>1, GrabFacts DEF Tables
  <2>3. kind[mem[p][i].address] = kind[p] + 1
    BY <1>9, <2>2 DEF Inv, RowInv
  <2>4. kind[cursor] = -1
    BY <1>4, GrabFacts
  <2> QED BY <2>2, <2>3, <2>4, Levels
<1>10. TablePage(u)' = r /\ RowOf(u)' = n
  BY <1>5 DEF TablePage, RowOf
<1> HIDE DEF r, n
<1> QED BY <1>2, <1>5, <1>7, <1>8, <1>9, <1>10 DEF Writing, Value

LEMMA CallNext == Inv /\ [Next]_vars => CallInv'
<1> SUFFICES ASSUME Inv, [Next]_vars PROVE CallInv'
  OBVIOUS
<1>1. ASSUME NEW u \in Thread, LoadPage(u) \/ WritePage(u) \/ Fail(u) PROVE pc'[u] = "idle"
  BY <1>1 DEF LoadPage, WritePage, Fail, Return, Inv, TypeOK
<1>2. ASSUME NEW u \in Thread, pc'[u] # "idle"
      PROVE  Walking(u)' /\ (pc'[u] = "write" => Writing(u)')
  <2>1. CASE Kept(u)
    <3>1. Walking(u)'
      BY <1>2, <2>1, WalkingKept DEF Kept
    <3>2. ASSUME pc'[u] = "write" PROVE Writing(u)'
      BY <2>1, <3>2, WritingKept DEF Kept
    <3> QED BY <3>1, <3>2
  <2>2. ASSUME NEW c \in Context, NEW a \in Address, AllocPage(u, c, a)
        PROVE  Walking(u)' /\ pc'[u] = "walk"
    BY <2>2, WalkingStarts
  <2>3. CASE LoadTable(u) \/ WriteTable(u)
    BY <2>3, WalkingDescends
  <2>4. CASE Allocate(u)
    <3>1. arg'[u] = arg[u] /\ tm'[u] = tm[u] /\ ret'[u] = ret[u] /\ lock' = lock /\ pc[u] # "idle"
      BY <2>4 DEF Allocate, Traversing
    <3>2. lock'[arg[u].context]
      BY <3>1 DEF Inv, CallInv, Walking
    <3>3. Walking(u)'
      BY <3>1, <3>2, WalkingKept
    <3> QED BY <2>4, <3>3, WritingStarts
  <2> QED BY <1>1, <1>2, <2>1, <2>2, <2>3, <2>4, Actors DEF Step
<1>3. ASSUME NEW t \in Thread, NEW u \in Thread, pc'[t] # "idle", pc'[u] # "idle",
             arg'[t].context = arg'[u].context, t # u
      PROVE  FALSE
  <2>1. ASSUME NEW v \in Thread, Kept(v) \/ Step(v), pc'[v] # "idle"
        PROVE  pc[v] # "idle" /\ arg'[v] = arg[v]
    BY <2>1 DEF Kept, Step, LoadTable, LoadPage, Allocate, WriteTable, WritePage, Fail, Return, Traversing
  <2>2. ASSUME NEW v \in Thread, NEW w \in Thread, v # w, pc'[w] # "idle",
               arg'[v].context = arg'[w].context,
               NEW c \in Context, NEW a \in Address, AllocPage(v, c, a)
        PROVE  FALSE
    <3>1. ~lock[c] /\ arg'[v].context = c /\ pc'[w] = pc[w] /\ arg'[w] = arg[w]
      BY <2>2 DEF AllocPage, Inv, TypeOK
    <3>2. lock[arg[w].context]
      BY <2>2, <3>1 DEF Inv, CallInv, Walking
    <3> QED BY <2>2, <3>1, <3>2
  <2>3. CASE (Kept(t) \/ Step(t)) /\ (Kept(u) \/ Step(u))
    <3>1. pc[t] # "idle" /\ arg'[t] = arg[t] /\ pc[u] # "idle" /\ arg'[u] = arg[u]
      BY <1>3, <2>1, <2>3
    <3> QED BY <1>3, <3>1 DEF Inv, CallInv
  <2> QED BY <1>3, <2>2, <2>3, Actors
<1> QED BY <1>2, <1>3 DEF CallInv

\* Whatever calls of new, alloc_page and alloc_page_unmapped interleave: every page
\* that PageAllocator has handed out belongs to one context, page tables only gain
\* descriptors, each to a page that nothing else points to, and what a call has read
\* from the tables before it was interrupted still holds.
THEOREM InvariantHolds == Spec => []Inv
<1>1. Inv /\ [Next]_vars => Inv'
  BY TypeNext, CursorNext, OwnerNext, RowNext, CallNext, TlbNext DEF Inv
<1> QED BY InitInv, <1>1, PTL DEF Spec

-------------------------------------------------------------------------------
(***************************************************************************)
(* The theorems that follow.                                               *)
(***************************************************************************)
\* The tables, the owned pages, the TLB and the locals of every walk of the page tables
\* keep their types.
THEOREM TypeCorrect == Spec => []TypeOK
<1>1. Inv => TypeOK
  BY DEF Inv
<1> QED BY <1>1, InvariantHolds, PTL

\* No page allocated for one address space is the table or the memory of another
\* one, and no two descriptors of the tables lead to the same page.
THEOREM PagesStayExclusive == Spec => []PagesExclusive
<1>1. Inv => PagesExclusive
  <2> SUFFICES ASSUME Inv PROVE PagesExclusive
    OBVIOUS
  <2>1. \A c, d \in Context : c # d => owned[c] \cap owned[d] = {}
    BY DEF Inv, OwnerInv
  <2>2. \A c \in Context : owned[c] \cap KernelPages = {}
    <3>1. ASSUME NEW c \in Context, NEW p \in owned[c], p \in KernelPages PROVE FALSE
      <4>1. p \in PageAddress /\ kind[p] # -1
        BY DEF Inv, OwnerInv, TypeOK
      <4>2. End <= p
        BY <4>1 DEF Inv, CursorInv
      <4>3. p < End /\ p \in Nat /\ End \in Nat
        BY <3>1, <4>1, Kernel, Pages
      <4> QED BY <4>2, <4>3
    <3> QED BY <3>1
  <2>3. \A c \in created :
          PhysicalAddress(root[c]) \in owned[c] /\ kind[PhysicalAddress(root[c])] = LEVEL_ROOT
    BY DEF Inv, OwnerInv
  <2>4. ASSUME NEW c \in Context, NEW p \in PageAddress, NEW i \in Index, Reference(c, p, i)
        PROVE  p \in Tables /\ mem[p][i] # EmptyRow /\ p \in owned[c]
    BY <2>4 DEF Reference, Tables, EmptyRow
  <2>5. ASSUME NEW c \in Context, NEW p \in PageAddress, NEW i \in Index, Reference(c, p, i)
        PROVE  /\ mem[p][i].address \in owned[c]
               /\ kind[mem[p][i].address] = kind[p] + 1
               /\ mem[p][i].user = (kind[p] = LEVEL_MAX)
    BY <2>4, <2>5 DEF Inv, RowInv
  <2>6. ASSUME NEW c \in Context, NEW p \in PageAddress, NEW i \in Index, Reference(c, p, i),
               NEW d \in Context, NEW q \in PageAddress, NEW j \in Index, Reference(d, q, j),
               mem[q][j].address = mem[p][i].address
        PROVE  p = q /\ i = j
    <3>1. p \in Tables /\ mem[p][i] # EmptyRow /\ q \in Tables /\ mem[q][j] # EmptyRow
      BY <2>4, <2>6
    <3> QED BY <2>6, <3>1 DEF Inv, RowInv
  <2> QED BY <2>1, <2>2, <2>3, <2>5, <2>6 DEF PagesExclusive
<1> QED BY <1>1, InvariantHolds, PTL

\* The kernel's own map, which create_tables builds at boot and every exception
\* relies on, is never changed by a later alloc_page.
THEOREM KernelMapStaysLinear == Spec => []KernelMapIsLinear
<1>1. Inv => KernelMapIsLinear
  <2> SUFFICES ASSUME Inv PROVE KernelMapIsLinear
    OBVIOUS
  <2>1. \A p \in KernelPages : mem[p] = CreateTables[p]
    BY DEF Inv, CursorInv
  <2>2. ASSUME NEW p \in PageAddress
        PROVE  Walk(mem, L0.table, PhysicalAddress(VirtualAddress(p))) = {[page |-> p, user |-> FALSE]}
    <3>1. PhysicalAddress(VirtualAddress(p)) = p
      BY Mapper
    <3>2. Walk(mem, L0.table, p) = {[page |-> p, user |-> FALSE]}
      BY <2>1, KernelLinear
    <3> QED BY <3>1, <3>2
  <2> QED BY <2>2, KernelTablesOk DEF KernelMapIsLinear
<1> QED BY <1>1, InvariantHolds, PTL

-------------------------------------------------------------------------------
(***************************************************************************)
(* alloc_page and the hardware walk the same way.                          *)
(***************************************************************************)
LEMMA ReachedStep ==
  ASSUME NEW m, NEW r, NEW l \in {0, 1, 2}, NEW a, NEW p \in Reached(m, r, l, a),
         m[p][HwIndex(l, a)].type = TYPE_TABLE
  PROVE  m[p][HwIndex(l, a)].address \in Reached(m, r, l + 1, a)
<1> DEFINE q == m[p][HwIndex(l, a)].address
<1>1. q \in Follow(m, Reached(m, r, l, a), l, a)
  BY FollowMembers
<1>2. 0 + 1 = 1 /\ 1 + 1 = 2 /\ 2 + 1 = 3
  OBVIOUS
<1> HIDE DEF q
<1>3. q \in Reached(m, r, l + 1, a)
  BY <1>1, <1>2, WalkSteps
<1> QED BY <1>3 DEF q

\* The walk finds what the row of the last table says, ...
LEMMA LeafFound ==
  ASSUME NEW m, NEW k, IsTree(m, k), NEW r \in PageAddress, k[r] = 0, NEW a \in Nat,
         NEW p \in Reached(m, r, 3, a), m[p][HwIndex(3, a)] # EmptyRow
  PROVE  Walk(m, r, a) = {[page |-> m[p][HwIndex(3, a)].address, user |-> TRUE]}
<1> DEFINE x == [page |-> m[p][HwIndex(3, a)].address, user |-> TRUE]
<1>1. x \in Walk(m, r, a)
  BY TreeWalk
<1> HIDE DEF x
<1>2. \A w \in Walk(m, r, a) : w = x
  BY <1>1, TreeWalkUnique
<1>3. Walk(m, r, a) = {x}
  BY <1>1, <1>2
<1> QED BY <1>3 DEF x

\* ... and nothing if a row on the way is zero.
LEMMA DeadEnd ==
  ASSUME NEW m, NEW k, IsTree(m, k), NEW r \in PageAddress, k[r] = 0, NEW a \in Nat,
         NEW l \in Level, NEW p \in Reached(m, r, l, a), m[p][HwIndex(l, a)] = EmptyRow
  PROVE  Walk(m, r, a) = {}
<1>1. ASSUME NEW i \in {0, 1, 2}, l = i PROVE Reached(m, r, i + 1, a) = {}
  <2>1. \A q \in Reached(m, r, i, a) : q = p
    BY <1>1, TreePath
  <2>2. m[p][HwIndex(i, a)].type # TYPE_TABLE
    BY <1>1 DEF EmptyRow, TYPE_TABLE
  <2>3. \A q : q \notin Follow(m, Reached(m, r, i, a), i, a)
    BY <2>1, <2>2, FollowMembers
  <2>4. 0 + 1 = 1 /\ 1 + 1 = 2 /\ 2 + 1 = 3
    OBVIOUS
  <2>5. Reached(m, r, i + 1, a) = Follow(m, Reached(m, r, i, a), i, a)
    BY <2>4, WalkSteps
  <2> QED BY <2>3, <2>5
<1>2. ASSUME NEW i \in {1, 2}, Reached(m, r, i, a) = {} PROVE Reached(m, r, i + 1, a) = {}
  <2>1. 1 + 1 = 2 /\ 2 + 1 = 3
    OBVIOUS
  <2>2. Reached(m, r, i + 1, a) = Follow(m, Reached(m, r, i, a), i, a)
    BY <2>1, WalkSteps
  <2> QED BY <1>2, <2>2, FromNothing
<1>3. CASE l # 3
  <2>1. l = 0 \/ l = 1 \/ l = 2
    BY <1>3, Levels
  <2>2. 0 + 1 = 1 /\ 1 + 1 = 2 /\ 2 + 1 = 3
    OBVIOUS
  <2>3. l = 0 => Reached(m, r, 1, a) = {}
    BY <1>1, <2>2
  <2>4. l = 0 \/ l = 1 => Reached(m, r, 2, a) = {}
    BY <1>1, <1>2, <2>2, <2>3
  <2>5. Reached(m, r, 3, a) = {}
    BY <1>1, <1>2, <2>1, <2>2, <2>4
  <2>6. \A w : w \notin Walk(m, r, a)
    BY <2>5, TreeWalk
  <2> QED BY <2>6
<1>4. CASE l = 3
  <2>1. \A q \in Reached(m, r, 3, a) : q = p
    BY <1>4, TreePath
  <2>2. \A w : w \notin Walk(m, r, a)
    BY <1>4, <2>1, TreeWalk
  <2> QED BY <2>2
<1> QED BY <1>3, <1>4

\* The row of a call is the one that the hardware looks at.
LEMMA SameRow ==
  ASSUME Inv, NEW u \in Thread, pc[u] # "idle", InTable(tm[u], arg[u].address)
  PROVE  RowOf(u) = HwIndex(tm[u].level, arg[u].address) /\ RowOf(u) \in Index
<1>1. /\ tm[u].level \in Level /\ tm[u].start \in Nat /\ arg[u].address \in Nat
      /\ tm[u].start % TableLen(tm[u].level) = 0 /\ RowOf(u) \in Index
  BY WriterFacts
<1>2. tm[u].start <= arg[u].address /\ arg[u].address < tm[u].start + TableLen(tm[u].level)
  BY DEF InTable
<1>3. (arg[u].address - tm[u].start) \div RowLen(tm[u].level) = HwIndex(tm[u].level, arg[u].address)
  BY <1>1, <1>2, NextTable
<1> QED BY <1>1, <1>3 DEF RowOf, RowIndex

\* What a context's walk reached, it still reaches.
LEMMA ReachedKept ==
  ASSUME Inv, [Next]_vars, NEW c \in created, NEW a \in Nat, NEW l \in Level
  PROVE  Reached(mem, PhysicalAddress(root[c]), l, a) \subseteq Reached(mem', PhysicalAddress(root'[c]), l, a)
<1>1. root'[c] = root[c]
  BY ContextsKept
<1>2. PhysicalAddress(root[c]) \in PageAddress /\ kind[PhysicalAddress(root[c])] = 0
  BY Roots
<1>3. IsTree(mem, kind) /\ Grows(mem, mem', kind)
  BY RowInvTree, GrowsNext DEF Inv
<1> QED BY <1>1, <1>2, <1>3, ReachedGrows

LEMMA PathNext == Inv /\ PathInv /\ [Next]_vars => PathInv'
<1> SUFFICES ASSUME Inv, PathInv, [Next]_vars, NEW u \in Thread, pc'[u] # "idle"
             PROVE  /\ TablePage(u)' \in Reached(mem', PhysicalAddress(root'[arg'[u].context]),
                                                 tm'[u].level, arg'[u].address)
                    /\ arg'[u].address \in Address
                    /\ tm'[u].level # LEVEL_ROOT => arg'[u].address < VA_SIZE
  BY DEF PathInv
<1> DEFINE c == arg[u].context
           a == arg[u].address
           l == tm[u].level
           r == PhysicalAddress(root[c])
<1>1. ASSUME pc[u] # "idle"
      PROVE  /\ TablePage(u) \in Reached(mem, r, l, a) /\ a \in Address
             /\ l # LEVEL_ROOT => a < VA_SIZE
             /\ c \in created /\ a \in Nat /\ l \in Level
             /\ TablePage(u) \in Reached(mem', PhysicalAddress(root'[c]), l, a)
             /\ root'[c] = root[c]
  <2>1. /\ TablePage(u) \in Reached(mem, r, l, a) /\ a \in Address /\ (l # LEVEL_ROOT => a < VA_SIZE)
    BY <1>1 DEF PathInv
  <2>2. c \in created /\ a \in Nat /\ l \in Level
    BY <1>1, WriterFacts
  <2>3. TablePage(u) \in Reached(mem', PhysicalAddress(root'[c]), l, a)
    BY <2>1, <2>2, ReachedKept
  <2> QED BY <2>1, <2>2, <2>3, ContextsKept
<1>2. CASE pc[u] # "idle" /\ arg'[u] = arg[u] /\ tm'[u] = tm[u]
  BY <1>1, <1>2 DEF TablePage
<1>3. CASE Kept(u)
  BY <1>2, <1>3 DEF Kept
<1>4. CASE Allocate(u)
  BY <1>2, <1>4 DEF Allocate, Traversing
<1>5. ASSUME NEW d \in Context, NEW b \in Address, AllocPage(u, d, b)
      PROVE  /\ TablePage(u)' \in Reached(mem', PhysicalAddress(root'[arg'[u].context]),
                                          tm'[u].level, arg'[u].address)
             /\ arg'[u].address \in Address
             /\ tm'[u].level # LEVEL_ROOT => arg'[u].address < VA_SIZE
  <2>1. /\ arg'[u] = [context |-> d, address |-> b] /\ root' = root
        /\ tm'[u] = [table |-> root[d], level |-> LEVEL_ROOT, start |-> 0]
    BY <1>5 DEF AllocPage, contextVars, Inv, TypeOK
  <2>2. /\ arg'[u].context = d /\ arg'[u].address = b /\ tm'[u].level = 0
        /\ TablePage(u)' = PhysicalAddress(root[d])
    BY <2>1, Levels DEF TablePage
  <2>3. PhysicalAddress(root[d]) \in Reached(mem', PhysicalAddress(root[d]), 0, b)
    BY WalkSteps
  <2> QED BY <2>1, <2>2, <2>3, Levels
<1>6. CASE LoadTable(u) \/ WriteTable(u)
  <2>1. pc[u] # "idle" /\ l < LEVEL_MAX /\ arg' = arg
    BY <1>6 DEF LoadTable, WriteTable, Traversing
  <2>2. PICK page \in PageAddress :
          /\ Descend(u, page) /\ InTable(tm[u], a)
          /\ mem'[TablePage(u)][RowOf(u)].type = TYPE_TABLE
          /\ mem'[TablePage(u)][RowOf(u)].address = page
    <3>1. CASE LoadTable(u)
      <4>1. Traversing(u) /\ TypeOf(u) = Expected(u) /\ Descend(u, Value(u).address) /\ mem' = mem
        BY <3>1 DEF LoadTable, Expected
      <4> QED BY <4>1, RowFacts DEF Traversing, Value
    <3>2. CASE WriteTable(u)
      <4>1. Writing(u) /\ Descend(u, new[u])
        BY <2>1, <3>2 DEF WriteTable, Inv, CallInv
      <4>2. new[u] \in PageAddress
        BY <2>1, <4>1, WriterFacts DEF Writing, Inv, TypeOK
      <4>3. Link(u)
        BY <3>2, LinkStep
      <4> QED BY <4>1, <4>2, <4>3 DEF Writing, Link
    <3> QED BY <1>6, <3>1, <3>2
  <2>3. tm'[u].level = l + 1 /\ TablePage(u)' = page
    BY <2>1, <2>2, DescendFacts DEF TablePage
  <2>4. RowOf(u) = HwIndex(l, a)
    BY <2>1, <2>2, SameRow
  <2>5. l \in {0, 1, 2}
    BY <1>1, <2>1, Levels
  <2>6. page \in Reached(mem', PhysicalAddress(root'[c]), l + 1, a)
    <3> DEFINE s == PhysicalAddress(root'[c])
               T == TablePage(u)
    <3>1. T \in Reached(mem', s, l, a) /\ mem'[T][HwIndex(l, a)].type = TYPE_TABLE
      BY <1>1, <2>1, <2>2, <2>4
    <3> HIDE DEF s, T, l, a
    <3>2. mem'[T][HwIndex(l, a)].address \in Reached(mem', s, l + 1, a)
      BY <2>5, <3>1, ReachedStep
    <3> QED BY <2>2, <2>4, <3>2 DEF s, T
  <2>7. a < VA_SIZE
    <3>1. CASE l = LEVEL_ROOT
      <4>1. tm[u].start = 0
        BY <2>1, <3>1 DEF Inv, CallInv, Walking
      <4> QED BY <1>1, <2>1, <2>2, <3>1, <4>1, Sizes, Levels DEF InTable
    <3> QED BY <1>1, <2>1, <3>1
  <2> QED BY <1>1, <2>1, <2>3, <2>6, <2>7
<1>7. CASE LoadPage(u) \/ WritePage(u) \/ Fail(u)
  BY <1>7 DEF LoadPage, WritePage, Fail, Return, Inv, TypeOK
<1> QED BY <1>3, <1>4, <1>5, <1>6, <1>7, Actors DEF Step

\* A call that returns a page returns the one that the tables now map.
LEMMA ReturnFound ==
  ASSUME Inv, PathInv, [Next]_vars, NEW u \in Thread, LoadPage(u) \/ WritePage(u)
  PROVE  /\ arg' = arg /\ arg[u].context \in created' /\ arg[u].address \in Nat
         /\ Translate(arg[u].context, arg[u].address)' = {[page |-> ret'[u].page, user |-> TRUE]}
<1> DEFINE c == arg[u].context
           a == arg[u].address
           r == PhysicalAddress(root[c])
           T == TablePage(u)
           x == mem'[T][HwIndex(3, a)]
<1>1. pc[u] # "idle" /\ arg' = arg /\ tm[u].level = 3
  BY Levels DEF LoadPage, WritePage, Return, Traversing
<1>2. c \in created /\ a \in Nat /\ c \in created' /\ root'[c] = root[c]
  BY <1>1, WriterFacts, ContextsKept
<1>3. T \in Reached(mem', PhysicalAddress(root'[c]), 3, a)
  BY <1>1, <1>2, ReachedKept, Levels DEF PathInv
<1>4. T \in Reached(mem', r, 3, a)
  BY <1>2, <1>3
<1>5. r \in PageAddress /\ kind'[r] = 0
  BY <1>2, Roots, UsesKept
<1>6. IsTree(mem', kind')
  BY RowInvTreeNext, RowNext
<1>7. x.type = TYPE_TABLE /\ ret'[u].page = x.address
  <2>1. CASE LoadPage(u)
    <3>1. /\ Traversing(u) /\ TypeOf(u) = Expected(u) /\ mem' = mem
          /\ ret'[u] = [ok |-> TRUE, page |-> Value(u).address]
      BY <2>1, Levels DEF LoadPage, Expected, Return, Inv, TypeOK
    <3>2. RowOf(u) = HwIndex(3, a)
      BY <1>1, <3>1, SameRow DEF Traversing
    <3>3. Value(u) = x
      BY <3>1, <3>2 DEF Value
    <3>4. Value(u).type = TYPE_TABLE
      BY <3>1, RowFacts
    <3> HIDE DEF x
    <3> QED BY <3>1, <3>3, <3>4
  <2>2. CASE WritePage(u)
    <3>1. Writing(u) /\ ret'[u] = [ok |-> TRUE, page |-> new[u]]
      BY <1>1, <2>2 DEF WritePage, Return, Inv, CallInv, TypeOK
    <3>2. RowOf(u) = HwIndex(3, a)
      BY <1>1, <3>1, SameRow DEF Writing
    <3>3. Link(u)
      BY <2>2, LinkStep
    <3> QED BY <3>1, <3>2, <3>3 DEF Link
  <2> QED BY <2>1, <2>2
<1>8. x # EmptyRow
  BY <1>7 DEF EmptyRow, TYPE_TABLE
<1> HIDE DEF r, T, a
<1>9. Walk(mem', r, a) = {[page |-> x.address, user |-> TRUE]}
  BY <1>2, <1>4, <1>5, <1>6, <1>8, LeafFound
<1>10. Walk(mem', r, a) = {[page |-> ret'[u].page, user |-> TRUE]}
  BY <1>7, <1>9
<1>11. Translate(c, a)' = Walk(mem', r, a)
  BY <1>1, <1>2 DEF Translate, r, a
<1> QED BY <1>1, <1>2, <1>10, <1>11 DEF a

LEMMA ReturnNext ==
  ASSUME Inv, PathInv, RetInv, ReturnedPageIsMapped, [Next]_vars
  PROVE  RetInv' /\ ReturnedPageIsMapped'
<1> SUFFICES ASSUME NEW u \in Thread, ret'[u].ok
             PROVE  /\ arg'[u].context \in created'
                    /\ Translate(arg[u].context, arg[u].address)' = {[page |-> ret'[u].page, user |-> TRUE]}
  BY DEF RetInv, ReturnedPageIsMapped
<1>1. CASE ret'[u] = ret[u] /\ arg'[u] = arg[u] /\ ret[u].ok
  <2>1. /\ arg[u].context \in created /\ arg[u].address \in Nat
        /\ Translate(arg[u].context, arg[u].address) = {[page |-> ret[u].page, user |-> TRUE]}
    BY <1>1 DEF RetInv, ReturnedPageIsMapped, Inv, TypeOK
  <2>2. PICK c \in created, a \in Nat, x \in {[page |-> ret[u].page, user |-> TRUE]} :
          c = arg[u].context /\ a = arg[u].address /\ Translate(c, a) = {x}
    BY <2>1
  <2>3. c \in created' /\ Translate(c, a)' = {x}
    BY <2>2, TranslateKept
  <2>4. Translate(arg[u].context, arg[u].address)' = Translate(c, a)'
    BY <1>1, <2>2 DEF Translate
  <2> QED BY <1>1, <2>2, <2>3, <2>4
<1>2. CASE Kept(u)
  BY <1>1, <1>2 DEF Kept
<1>3. CASE LoadTable(u) \/ Allocate(u) \/ WriteTable(u)
  <2>1. pc[u] # "idle" /\ ret' = ret
    BY <1>3 DEF LoadTable, Allocate, WriteTable, Traversing
  <2>2. ~ret[u].ok
    BY <2>1 DEF Inv, CallInv, Walking
  <2> QED BY <2>1, <2>2
<1>4. CASE Fail(u)
  BY <1>4 DEF Fail, Return, NoResult, Inv, TypeOK
<1>5. CASE LoadPage(u) \/ WritePage(u)
  BY <1>5, ReturnFound DEF Translate
<1>6. ASSUME NEW c \in Context, NEW a \in Address, AllocPage(u, c, a) PROVE FALSE
  BY <1>6, WalkingStarts
<1> QED BY <1>2, <1>3, <1>4, <1>5, <1>6, Actors DEF Step

LEMMA InitPath == Init => PathInv /\ RetInv /\ ReturnedPageIsMapped
BY DEF Init, PathInv, RetInv, ReturnedPageIsMapped, NoResult

LEMMA CallsHold == Spec => [](PathInv /\ RetInv /\ ReturnedPageIsMapped)
<1> DEFINE I == PathInv /\ RetInv /\ ReturnedPageIsMapped
<1>1. Inv /\ I /\ [Next]_vars => I'
  BY PathNext, ReturnNext
<1>2. Init => I
  BY InitPath
<1> HIDE DEF I
<1>3. Spec => []I
  BY <1>1, <1>2, InvariantHolds, PTL DEF Spec
<1> QED BY <1>3 DEF I

\* The page that alloc_page has returned is the one that the hardware finds, for
\* good.
THEOREM ReturnedPageStaysMapped == Spec => []ReturnedPageIsMapped
BY CallsHold, PTL

-------------------------------------------------------------------------------
(***************************************************************************)
(* Address space identifiers.                                              *)
(***************************************************************************)
LEMMA AsidNext == TypeOK /\ AsidInv /\ [Next]_vars => AsidInv'
<1> SUFFICES ASSUME TypeOK, AsidInv, [Next]_vars PROVE AsidInv'
  OBVIOUS
<1>1. ASSUME NEW c \in Context, New(c) PROVE AsidInv'
  <2> DEFINE n == Cardinality(created)
  <2>1. created' = created \cup {c} /\ c \notin created /\ created \subseteq Context
    BY <1>1 DEF New, TypeOK
  <2>2. IsFiniteSet(created) /\ n \in Nat
    BY FS_CardinalityType DEF AsidInv
  <2>3. IsFiniteSet(created') /\ Cardinality(created') = n + 1
    BY <2>1, <2>2, FS_AddElement
  <2>4. /\ asid \in [Context -> 0 .. ASID_COUNT - 1] /\ asid' = [asid EXCEPT ![c] = counter]
        /\ counter' = (counter + 1) % ASID_COUNT /\ ASID_COUNT \in Nat \ {0, 1}
    BY <1>1, MemoryContextAssumption DEF New, TypeOK, AddressSpaceIdNext
  <2>5. asid'[c] = counter /\ \A d \in created : asid'[d] = asid[d]
    BY <2>1, <2>4
  <2> SUFFICES ASSUME n + 1 < ASID_COUNT
               PROVE  /\ counter' = (n + 2) % ASID_COUNT
                      /\ \A d \in created' : asid'[d] \in 1 .. n + 1
                      /\ \A d, e \in created' : asid'[d] = asid'[e] => d = e
    <3>1. (n + 1) + 1 = n + 2
      BY <2>2
    <3> QED BY <2>3, <3>1 DEF AsidInv
  <2>6. /\ counter = (n + 1) % ASID_COUNT
        /\ \A d \in created : asid[d] \in 1 .. n
        /\ \A d, e \in created : asid[d] = asid[e] => d = e
    BY <2>2, <2>4 DEF AsidInv
  <2>7. counter = n + 1
    BY <2>2, <2>4, <2>6
  <2>8. counter' = (n + 2) % ASID_COUNT
    <3>1. (n + 1) + 1 = n + 2
      BY <2>2
    <3> QED BY <2>4, <2>7, <3>1
  <2> HIDE DEF n
  <2>9. \A d \in created' : asid'[d] \in 1 .. n + 1
    BY <2>1, <2>2, <2>5, <2>6, <2>7
  <2>10. ASSUME NEW d \in created', NEW e \in created', asid'[d] = asid'[e] PROVE d = e
    <3>1. \A x \in created : asid'[x] \in 1 .. n
      BY <2>5, <2>6
    <3>2. asid'[c] = n + 1
      BY <2>5, <2>7
    <3> QED BY <2>1, <2>2, <2>5, <2>6, <2>10, <3>1, <3>2
  <2> QED BY <2>8, <2>9, <2>10
<1>2. CASE UNCHANGED contextVars
  BY <1>2 DEF contextVars, AsidInv
<1>3. CASE UNCHANGED vars
  BY <1>2, <1>3 DEF vars
<1>4. CASE Next
  BY <1>1, <1>2, <1>4
     DEF Next, Step, AllocPageUnmapped, AllocPage, LoadTable, LoadPage, Allocate, WriteTable, WritePage,
         Fail, TlbFill, UserStore
<1> QED BY <1>3, <1>4

\* Without an invalidation the TLB still never disagrees with the page tables:
\* a mapping is never changed, and an address space never meets the entries of
\* another one as long as the ASIDs have not run out.
THEOREM TlbAlwaysMatches == Spec => []TlbMatchesTables
<1>1. Init => AsidInv
  <2>1. Init => created = {} /\ counter = 1
    BY DEF Init
  <2>2. IsFiniteSet({}) /\ Cardinality({}) = 0
    BY FS_EmptySet
  <2>3. 1 = (0 + 1) % ASID_COUNT
    BY MemoryContextAssumption
  <2> QED BY <2>1, <2>2, <2>3 DEF AsidInv
<1>2. Inv => TypeOK
  BY DEF Inv
<1>3. Inv /\ AsidInv => TlbMatchesTables
  <2> SUFFICES ASSUME Inv, AsidInv, Cardinality(created) < ASID_COUNT,
                      NEW e \in tlb, NEW c \in created, e.asid = asid[c]
               PROVE  Translate(c, e.address) = {[page |-> e.page, user |-> e.user]}
    BY DEF TlbMatchesTables
  <2>1. Cardinality(created) \in Nat
    BY FS_CardinalityType DEF AsidInv
  <2>2. asid[c] \in 1 .. Cardinality(created) /\ \A d \in created : asid[c] = asid[d] => c = d
    BY DEF AsidInv
  <2>3. e.asid # 0
    BY <2>1, <2>2
  <2>4. PICK d \in created :
          e.asid = asid[d] /\ Translate(d, e.address) = {[page |-> e.page, user |-> e.user]}
    BY <2>3 DEF Inv, TlbInv
  <2> QED BY <2>2, <2>4
<1> QED BY <1>1, <1>2, <1>3, AsidNext, InvariantHolds, PTL DEF Spec

-------------------------------------------------------------------------------
(***************************************************************************)
(* The refinement: the contexts implement the abstract map.                *)
(***************************************************************************)
\* No two rows of the tables refer to the same page.
Unique(m, k) ==
  \A p, q \in PageAddress : k[p] \in Level /\ k[q] \in Level => \A i, j \in Index :
    /\ m[p][i].type = TYPE_TABLE /\ m[q][j].type = TYPE_TABLE
    /\ m[p][i].address = m[q][j].address
    => p = q /\ i = j

LEMMA RowInvUnique == RowInv => Unique(mem, kind)
BY DEF RowInv, Unique, Tables, EmptyRow, TYPE_TABLE

LEMMA RowInvUniqueNext == RowInv' => Unique(mem', kind')
BY DEF RowInv, Unique, Tables, EmptyRow, TYPE_TABLE

\* Two walks that come to the same table of the last level took the same way.
LEMMA SamePath ==
  ASSUME NEW m, NEW k, IsTree(m, k), Unique(m, k), NEW r \in PageAddress, k[r] = 0,
         NEW s \in PageAddress, k[s] = 0, NEW a \in Nat, NEW b \in Nat,
         NEW p \in Reached(m, r, 3, a), p \in Reached(m, s, 3, b)
  PROVE  r = s /\ \A l \in {0, 1, 2} : HwIndex(l, a) = HwIndex(l, b)
<1>1. ASSUME NEW l \in {0, 1, 2}, NEW q, q \in Reached(m, r, l + 1, a), q \in Reached(m, s, l + 1, b)
      PROVE  /\ HwIndex(l, a) = HwIndex(l, b)
             /\ \E t : t \in Reached(m, r, l, a) /\ t \in Reached(m, s, l, b)
  <2>1. 0 + 1 = 1 /\ 1 + 1 = 2 /\ 2 + 1 = 3
    OBVIOUS
  <2>2. q \in Follow(m, Reached(m, r, l, a), l, a) /\ q \in Follow(m, Reached(m, s, l, b), l, b)
    BY <1>1, <2>1, WalkSteps
  <2>3. PICK t \in Reached(m, r, l, a) :
          m[t][HwIndex(l, a)].type = TYPE_TABLE /\ m[t][HwIndex(l, a)].address = q
    BY <2>2, FollowMembers
  <2>4. PICK v \in Reached(m, s, l, b) :
          m[v][HwIndex(l, b)].type = TYPE_TABLE /\ m[v][HwIndex(l, b)].address = q
    BY <2>2, FollowMembers
  <2>5. l \in Level
    BY Levels
  <2>6. t \in PageAddress /\ k[t] = l /\ v \in PageAddress /\ k[v] = l
    BY <2>5, TreePath
  <2>7. HwIndex(l, a) \in Index /\ HwIndex(l, b) \in Index
    BY <2>5, HwIndexIn
  <2>8. t = v /\ HwIndex(l, a) = HwIndex(l, b)
    BY <2>3, <2>4, <2>5, <2>6, <2>7 DEF Unique
  <2> QED BY <2>8
<1>2. 0 + 1 = 1 /\ 1 + 1 = 2 /\ 2 + 1 = 3
  OBVIOUS
<1>3. /\ HwIndex(2, a) = HwIndex(2, b)
      /\ \E t : t \in Reached(m, r, 2, a) /\ t \in Reached(m, s, 2, b)
  BY <1>1, <1>2
<1>4. /\ HwIndex(1, a) = HwIndex(1, b)
      /\ \E t : t \in Reached(m, r, 1, a) /\ t \in Reached(m, s, 1, b)
  BY <1>1, <1>2, <1>3
<1>5. /\ HwIndex(0, a) = HwIndex(0, b)
      /\ \E t : t \in Reached(m, r, 0, a) /\ t \in Reached(m, s, 0, b)
  BY <1>1, <1>2, <1>4
<1>6. r = s
  BY <1>5, WalkSteps
<1> QED BY <1>3, <1>4, <1>5, <1>6

\* Addresses whose walks look at the same rows are in the same page.
LEMMA RowsGivePage ==
  ASSUME NEW a \in Nat, NEW b \in Nat, a < VA_SIZE, b < VA_SIZE,
         \A l \in {0, 1, 2, 3} : HwIndex(l, a) = HwIndex(l, b)
  PROVE  PageOf(a) = PageOf(b)
<1> DEFINE N == ROW_COUNT
           R(l) == RowLen(l)
<1>1. /\ N \in Nat \ {0} /\ R(0) \in Nat \ {0} /\ R(1) \in Nat \ {0} /\ R(2) \in Nat \ {0} /\ R(3) \in Nat \ {0}
      /\ R(0) = N * R(1) /\ R(1) = N * R(2) /\ R(2) = N * R(3) /\ R(3) = PageSize
      /\ VA_SIZE = N * R(0)
  BY Sizes, Levels, PageTableAssumption
<1>2. ASSUME NEW x \in Nat, NEW y \in Nat \ {0}, NEW z \in Nat \ {0}, z = N * y
      PROVE  x \div y = N * (x \div z) + ((x \div y) % N)
  <2> DEFINE d == x \div y
             e == d \div N
             f == d % N
  <2>1. d \in Nat /\ d * y <= x /\ x < (d + 1) * y
    OBVIOUS
  <2>2. e \in Nat /\ f \in 0 .. N - 1 /\ d = N * e + f
    BY <1>1, <2>1
  <2> HIDE DEF d, e, f, N
  <2>3. e * z <= x
    <3>1. e * z = (N * e) * y /\ N * e <= d /\ N * e \in Nat
      BY <1>1, <1>2, <2>2
    <3>2. (N * e) * y <= d * y
      BY <2>1, <3>1
    <3>3. d * y \in Nat /\ (N * e) * y \in Nat
      BY <2>1, <3>1
    <3> QED BY <2>1, <3>1, <3>2, <3>3
  <2>4. x < (e + 1) * z
    <3>1. (e + 1) * z = (N * (e + 1)) * y /\ N * (e + 1) = N * e + N /\ N * (e + 1) \in Nat
      BY <1>1, <1>2, <2>2
    <3>2. d + 1 <= N * (e + 1)
      BY <1>1, <2>1, <2>2, <3>1
    <3>3. (d + 1) * y <= (N * (e + 1)) * y
      BY <2>1, <3>1, <3>2
    <3>4. (d + 1) * y \in Nat /\ (N * (e + 1)) * y \in Nat
      BY <2>1, <3>1
    <3> QED BY <2>1, <3>1, <3>3, <3>4
  <2>5. x \div z = e
    <3>1. ASSUME NEW i \in Nat, NEW j \in Nat, i * z <= j, j < (i + 1) * z PROVE j \div z = i
      BY <3>1
    <3> QED BY <2>2, <2>3, <2>4, <3>1
  <2>6. x \div y = d /\ (x \div y) % N = f
    BY DEF d, f
  <2> QED BY <2>2, <2>5, <2>6
<1>3. (a \div R(0)) % N = (b \div R(0)) % N
  BY DEF HwIndex
<1>4. /\ (a \div R(1)) % N = (b \div R(1)) % N /\ (a \div R(2)) % N = (b \div R(2)) % N
      /\ (a \div R(3)) % N = (b \div R(3)) % N
  BY DEF HwIndex
<1> HIDE DEF N, R
<1>5. ASSUME NEW x \in Nat, x < VA_SIZE PROVE (x \div R(0)) % N = x \div R(0)
  <2>1. \A i \in Nat, j, n \in Nat \ {0} : i < n * j => i \div j \in Nat /\ i \div j < n
    OBVIOUS
  <2>2. x \div R(0) \in Nat /\ x \div R(0) < N
    BY <1>1, <1>5, <2>1
  <2>3. \A i \in Nat, n \in Nat \ {0} : i < n => i % n = i
    OBVIOUS
  <2> QED BY <1>1, <2>2, <2>3
<1>6. a \div R(0) = b \div R(0)
  BY <1>3, <1>5
<1>7. a \div R(1) = b \div R(1)
  <2>1. a \div R(1) = N * (a \div R(0)) + ((a \div R(1)) % N)
    BY <1>1, <1>2
  <2>2. b \div R(1) = N * (b \div R(0)) + ((b \div R(1)) % N)
    BY <1>1, <1>2
  <2> QED BY <1>4, <1>6, <2>1, <2>2
<1>8. a \div R(2) = b \div R(2)
  <2>1. a \div R(2) = N * (a \div R(1)) + ((a \div R(2)) % N)
    BY <1>1, <1>2
  <2>2. b \div R(2) = N * (b \div R(1)) + ((b \div R(2)) % N)
    BY <1>1, <1>2
  <2> QED BY <1>4, <1>7, <2>1, <2>2
<1>9. a \div R(3) = b \div R(3)
  <2>1. a \div R(3) = N * (a \div R(2)) + ((a \div R(3)) % N)
    BY <1>1, <1>2
  <2>2. b \div R(3) = N * (b \div R(2)) + ((b \div R(3)) % N)
    BY <1>1, <1>2
  <2> QED BY <1>4, <1>8, <2>1, <2>2
<1> QED BY <1>1, <1>9 DEF PageOf

\* Where a walk meets the same rows in two memories it finds the same.
LEMMA SameRowsWalk ==
  ASSUME NEW m, NEW k, NEW n, NEW j, IsTree(m, k), IsTree(n, j),
         NEW r \in PageAddress, k[r] = 0, j[r] = 0, NEW a \in Nat,
         \A l \in Level : \A p \in Reached(m, r, l, a) : n[p][HwIndex(l, a)] = m[p][HwIndex(l, a)]
  PROVE  Walk(n, r, a) = Walk(m, r, a)
<1>1. Reached(n, r, 0, a) = Reached(m, r, 0, a)
  <2>1. Reached(n, r, 0, a) = {r}
    BY WalkSteps
  <2>2. Reached(m, r, 0, a) = {r}
    BY WalkSteps
  <2> QED BY <2>1, <2>2
<1>2. ASSUME NEW l \in {0, 1, 2}, Reached(n, r, l, a) = Reached(m, r, l, a)
      PROVE  Reached(n, r, l + 1, a) = Reached(m, r, l + 1, a)
  <2>1. \A p \in Reached(m, r, l, a) : n[p][HwIndex(l, a)] = m[p][HwIndex(l, a)]
    BY Levels
  <2>2. \A q : q \in Follow(n, Reached(m, r, l, a), l, a) <=> q \in Follow(m, Reached(m, r, l, a), l, a)
    BY <2>1, FollowMembers
  <2>3. 0 + 1 = 1 /\ 1 + 1 = 2 /\ 2 + 1 = 3
    OBVIOUS
  <2>4. \A q : q \in Reached(n, r, l + 1, a) <=> q \in Reached(m, r, l + 1, a)
    BY <1>2, <2>2, <2>3, WalkSteps
  <2> QED BY <2>4
<1>3. 0 + 1 = 1 /\ 1 + 1 = 2 /\ 2 + 1 = 3
  OBVIOUS
<1>4. Reached(n, r, 3, a) = Reached(m, r, 3, a)
  <2>1. Reached(n, r, 1, a) = Reached(m, r, 1, a)
    BY <1>1, <1>2, <1>3
  <2>2. Reached(n, r, 2, a) = Reached(m, r, 2, a)
    BY <1>2, <1>3, <2>1
  <2> QED BY <1>2, <1>3, <2>2
<1>5. \A p \in Reached(m, r, 3, a) : n[p][HwIndex(3, a)] = m[p][HwIndex(3, a)]
  BY Levels
<1>6. \A w : w \in Walk(n, r, a) <=> w \in Walk(m, r, a)
  BY <1>4, <1>5, TreeWalk
<1> QED BY <1>6

\* A page that is allocated and what user programs write change no translation.
LEMMA OtherStepsKeep ==
  ASSUME Inv, [Next]_vars, (\E c, k : Grab(c, k)) \/ UserWrite \/ Still,
         NEW c \in created, NEW a \in Nat
  PROVE  Translate(c, a)' = Translate(c, a)
<1> DEFINE r == PhysicalAddress(root[c])
<1>1. c \in created' /\ root'[c] = root[c]
  BY ContextsKept
<1>2. r \in PageAddress /\ kind[r] = 0
  BY Roots
<1>3. kind'[r] = 0
  BY <1>2, UsesKept
<1>4. IsTree(mem, kind) /\ IsTree(mem', kind')
  BY RowInvTree, RowInvTreeNext, RowNext DEF Inv
<1> HIDE DEF r
<1>5. ASSUME NEW p \in PageAddress, kind[p] \in Level PROVE mem'[p] = mem[p]
  <2>1. ASSUME NEW d, NEW k, Grab(d, k) PROVE mem'[p] = mem[p]
    BY <1>5, <2>1, GrabFacts, Levels
  <2>2. CASE UserWrite
    BY <1>5, <2>2, UserWriteFacts DEF Tables
  <2>3. CASE Still
    BY <2>3 DEF Still
  <2> QED BY <2>1, <2>2, <2>3
<1>6. ASSUME NEW l \in Level, NEW p \in Reached(mem, r, l, a)
      PROVE  mem'[p][HwIndex(l, a)] = mem[p][HwIndex(l, a)]
  <2>1. p \in PageAddress /\ kind[p] \in Level
    BY <1>2, <1>4, TreePath
  <2> QED BY <1>5, <2>1
<1>7. Walk(mem', r, a) = Walk(mem, r, a)
  BY <1>2, <1>3, <1>4, <1>6, SameRowsWalk
<1> QED BY <1>1, <1>7 DEF Translate, r

\* The descriptor of a table changes no translation, that of a page changes the
\* translation of the call's own address at most.
LEMMA LinkKeeps ==
  ASSUME Inv, PathInv, [Next]_vars, NEW t \in Thread, WriteTable(t) \/ WritePage(t),
         NEW c \in created, NEW a \in Nat, a < VA_SIZE, Translate(c, a)' # Translate(c, a)
  PROVE  WritePage(t) /\ c = arg[t].context /\ PageOf(a) = PageOf(arg[t].address)
<1> DEFINE r == PhysicalAddress(root[c])
           T == TablePage(t)
           R == RowOf(t)
           b == arg[t].address
           d == arg[t].context
           s == PhysicalAddress(root[d])
<1>1. c \in created' /\ root'[c] = root[c]
  BY ContextsKept
<1>2. r \in PageAddress /\ kind[r] = 0
  BY Roots
<1>3. kind' = kind /\ Link(t) /\ pc[t] # "idle" /\ Writing(t)
  BY LinkStep DEF Link, Inv, CallInv
<1>4. IsTree(mem, kind) /\ IsTree(mem', kind) /\ Unique(mem', kind)
  BY <1>3, RowInvTree, RowInvTreeNext, RowInvUniqueNext, RowNext DEF Inv
<1>5. Walk(mem', r, a) # Walk(mem, r, a)
  BY <1>1 DEF Translate
<1>6. Walk(mem, r, a) = {}
  BY <1>2, <1>3, <1>4, <1>5, GrowsNext, WalkGrows
<1>7. /\ T \in PageAddress /\ kind[T] = tm[t].level /\ tm[t].level \in Level /\ R \in Index
      /\ R = HwIndex(tm[t].level, b) /\ b \in Nat /\ d \in created /\ d \in Context
  BY <1>3, WriterFacts, SameRow DEF Writing
<1>8. PICK l \in Level : T \in Reached(mem', r, l, a) /\ R = HwIndex(l, a)
  <2> SUFFICES ASSUME \A l \in Level : T \in Reached(mem', r, l, a) => R # HwIndex(l, a)
               PROVE  FALSE
    OBVIOUS
  <2> HIDE DEF r, T, R
  <2>1. ASSUME NEW l \in Level, NEW p \in Reached(mem', r, l, a)
        PROVE  mem[p][HwIndex(l, a)] = mem'[p][HwIndex(l, a)]
    <3>1. p \in PageAddress /\ HwIndex(l, a) \in Index
      BY <1>2, <1>4, TreePath, HwIndexIn
    <3>2. p # T \/ HwIndex(l, a) # R
      OBVIOUS
    <3> QED BY <1>3, <3>1, <3>2 DEF Link, T, R
  <2>2. Walk(mem, r, a) = Walk(mem', r, a)
    BY <1>2, <1>4, <2>1, SameRowsWalk
  <2> QED BY <1>5, <2>2
<1>9. l = tm[t].level
  BY <1>2, <1>4, <1>7, <1>8, TreePath
<1> HIDE DEF r, T, R, b, s
<1>10. l = 3
  <2> SUFFICES ASSUME l # 3 PROVE FALSE
    OBVIOUS
  <2>1. l \in {0, 1, 2} /\ l + 1 \in Level
    BY Levels
  <2>2. mem'[T][R].type = TYPE_TABLE /\ mem'[T][R].address = new[t]
    BY <1>3 DEF Link, T, R
  <2>3. new[t] \in Reached(mem', r, l + 1, a)
    BY <1>8, <2>1, <2>2, ReachedStep
  <2>4. kind[new[t]] = l + 1 /\ new[t] \in PageAddress /\ mem[new[t]] = ZeroTable
    <3>1. new[t] \in owned[d]
      BY <1>3 DEF Writing
    <3> QED BY <1>3, <1>7, <1>9, <3>1, Levels DEF Writing, Inv, TypeOK
  <2>5. new[t] # T
    BY <1>7, <1>9, <2>1, <2>4
  <2>6. mem'[new[t]] = ZeroTable
    BY <1>3, <2>4, <2>5 DEF Link, T
  <2>7. mem'[new[t]][HwIndex(l + 1, a)] = EmptyRow
    BY <2>1, <2>6, HwIndexIn DEF ZeroTable
  <2>8. Walk(mem', r, a) = {}
    BY <1>2, <1>4, <2>1, <2>3, <2>7, DeadEnd
  <2> QED BY <1>5, <1>6, <2>8
<1>11. WritePage(t)
  BY <1>9, <1>10, Levels DEF WriteTable
<1>12. T \in Reached(mem', s, 3, b)
  <2>1. T \in Reached(mem, s, 3, b)
    BY <1>3, <1>9, <1>10 DEF PathInv, T, s, b
  <2>2. root'[d] = root[d]
    BY <1>7, ContextsKept
  <2>3. T \in Reached(mem', PhysicalAddress(root'[d]), 3, b)
    BY <1>7, <2>1, ReachedKept, Levels DEF s
  <2> QED BY <2>2, <2>3 DEF s
<1>13. s \in PageAddress /\ kind[s] = 0
  BY <1>7, Roots DEF s
<1>14. r = s /\ \A i \in {0, 1, 2} : HwIndex(i, a) = HwIndex(i, b)
  BY <1>2, <1>4, <1>7, <1>8, <1>10, <1>12, <1>13, SamePath
<1>15. c = d
  <2>1. c \in Context /\ PhysicalAddress(root[c]) \in owned[c] /\ PhysicalAddress(root[d]) \in owned[d]
    BY <1>7 DEF Inv, OwnerInv, TypeOK
  <2> QED BY <1>7, <1>14, <2>1 DEF Inv, OwnerInv, r, s
<1>16. PageOf(a) = PageOf(b)
  <2>1. b < VA_SIZE
    <3>1. tm[t].level # LEVEL_ROOT
      BY <1>9, <1>10, Levels
    <3> QED BY <1>3, <3>1 DEF PathInv, b
  <2>2. HwIndex(3, a) = HwIndex(3, b)
    BY <1>7, <1>8, <1>9, <1>10
  <2>3. \A i \in {0, 1, 2, 3} : HwIndex(i, a) = HwIndex(i, b)
    BY <1>14, <2>2
  <2> QED BY <1>7, <2>1, <2>3, RowsGivePage
<1> QED BY <1>11, <1>15, <1>16 DEF b

LEMMA VirtualPageFacts ==
  ASSUME NEW v \in VirtualPages
  PROVE  v \in Nat /\ v < VA_SIZE /\ PageOf(v) = v
<1>1. PICK a \in Address : a < VA_SIZE /\ v = PageOf(a)
  BY DEF VirtualPages
<1>2. a \in Nat /\ PageSize \in Nat \ {0} /\ VA_SIZE \in Nat
  BY Sizes, MemoryContextAssumption, PageTableAssumption
<1>3. \A x \in Nat, y \in Nat \ {0} :
        /\ x \div y \in Nat /\ (x \div y) * y \in Nat /\ (x \div y) * y <= x
  OBVIOUS
<1>4. \A x \in Nat, y \in Nat \ {0} : (x * y) \div y = x
  OBVIOUS
<1> DEFINE d == a \div PageSize
<1>5. d \in Nat /\ d * PageSize \in Nat /\ d * PageSize <= a /\ v = d * PageSize
  BY <1>1, <1>2, <1>3 DEF PageOf
<1> HIDE DEF d
<1>6. (d * PageSize) \div PageSize = d
  BY <1>2, <1>4, <1>5
<1>7. PageOf(v) = v
  BY <1>5, <1>6 DEF PageOf
<1> QED BY <1>1, <1>2, <1>5, <1>7

LEMMA NewContextEmpty ==
  ASSUME Inv, [Next]_vars, NEW c \in created', c \notin created, NEW a \in Nat
  PROVE  Translate(c, a)' = {}
<1>1. PICK d, k : Grab(d, k)
  BY Steps, UserWriteFacts DEF Link, Still
<1>2. k = LEVEL_ROOT /\ PhysicalAddress(root'[c]) = cursor
  BY <1>1 DEF Grab
<1>3. cursor \in PageAddress /\ kind'[cursor] = 0 /\ \A i \in Index : mem'[cursor][i] = EmptyRow
  BY <1>1, <1>2, GrabFacts, Levels
<1>4. IsTree(mem', kind')
  BY RowInvTreeNext, RowNext
<1>5. 0 \in Level /\ HwIndex(0, a) \in Index /\ cursor \in Reached(mem', cursor, 0, a)
  BY Levels, HwIndexIn, WalkSteps
<1>6. Walk(mem', cursor, a) = {}
  BY <1>3, <1>4, <1>5, DeadEnd
<1> QED BY <1>2, <1>6 DEF Translate

\* A step that writes no page descriptor is a step in which the map stays.
LEMMA MapStays ==
  ASSUME Inv, PathInv, [Next]_vars, \A t \in Thread : ~WritePage(t)
  PROVE  MapOf' = MapOf
<1>1. ASSUME NEW c \in Context, NEW v \in VirtualPages PROVE MappedTo(c, v)' = MappedTo(c, v)
  <2>1. v \in Nat /\ v < VA_SIZE
    BY VirtualPageFacts
  <2>2. CASE c \in created
    <3>1. Translate(c, v)' = Translate(c, v)
      <4>1. CASE (\E d, k : Grab(d, k)) \/ UserWrite \/ Still
        BY <2>1, <2>2, <4>1, OtherStepsKeep
      <4>2. ASSUME NEW t \in Thread, WriteTable(t) PROVE Translate(c, v)' = Translate(c, v)
        BY <2>1, <2>2, <4>2, LinkKeeps
      <4> QED BY <4>1, <4>2, Steps
    <3> QED BY <2>2, <3>1, ContextsKept DEF MappedTo
  <2>3. CASE c \notin created /\ c \in created'
    <3>1. Translate(c, v)' = {}
      BY <2>1, <2>3, NewContextEmpty
    <3> QED BY <2>3, <3>1 DEF MappedTo
  <2>4. CASE c \notin created /\ c \notin created'
    BY <2>4 DEF MappedTo
  <2> QED BY <2>2, <2>3, <2>4
<1> QED BY <1>1 DEF MapOf

\* Writing the descriptor of a page maps it, where nothing was mapped.
LEMMA PageIsMapped ==
  ASSUME Inv, PathInv, [Next]_vars, NEW t \in Thread, WritePage(t)
  PROVE  LET c == arg[t].context
             v == PageOf(arg[t].address)
         IN  /\ c \in Context /\ v \in VirtualPages
             /\ MappedTo(c, v) = {}
             /\ new[t] \in PageAddress
             /\ \A d \in Context, x \in VirtualPages : new[t] \notin MappedTo(d, x)
<1> DEFINE c == arg[t].context
           a == arg[t].address
           v == PageOf(a)
           r == PhysicalAddress(root[c])
           T == TablePage(t)
<1>1. pc[t] # "idle" /\ Writing(t) /\ tm[t].level = 3
  BY Levels DEF WritePage, Inv, CallInv
<1>2. c \in Context /\ c \in created /\ a \in Nat
  BY <1>1, WriterFacts
<1>3. T \in Reached(mem, r, 3, a) /\ a \in Address /\ a < VA_SIZE
  BY <1>1, Levels DEF PathInv
<1>4. v \in VirtualPages
  BY <1>3 DEF VirtualPages
<1>5. r \in PageAddress /\ kind[r] = 0 /\ IsTree(mem, kind)
  BY <1>2, Roots, RowInvTree DEF Inv
<1>6. mem[T][HwIndex(3, a)] = EmptyRow
  BY <1>1, SameRow DEF Writing, Value
<1>7. Walk(mem, r, v) = {}
  <2> HIDE DEF r, T, a, c
  <2>1. Walk(mem, r, a) = {}
    BY <1>2, <1>3, <1>5, <1>6, DeadEnd, Levels
  <2> QED BY <1>2, <1>5, <2>1, SamePageWalk
<1>8. MappedTo(c, v) = {}
  BY <1>7 DEF MappedTo, Translate
<1>9. new[t] \in PageAddress
  BY <1>1, <1>2 DEF Writing, Inv, TypeOK
<1>10. ASSUME NEW d \in Context, NEW x \in VirtualPages, new[t] \in MappedTo(d, x) PROVE FALSE
  <2>1. x \in Nat
    BY VirtualPageFacts
  <2>2. d \in created /\ new[t] \in {w.page : w \in Translate(d, x)}
    BY <1>10 DEF MappedTo
  <2>3. PICK w \in Translate(d, x) : new[t] = w.page
    BY <2>2
  <2> DEFINE s == PhysicalAddress(root[d])
  <2>4. s \in PageAddress /\ kind[s] = 0
    BY <2>2, Roots
  <2>5. w \in Walk(mem, s, x)
    BY <2>3 DEF Translate
  <2> HIDE DEF s
  <2>6. PICK p \in Reached(mem, s, 3, x) :
          /\ mem[p][HwIndex(3, x)] # EmptyRow
          /\ w = [page |-> mem[p][HwIndex(3, x)].address, user |-> TRUE]
    BY <1>5, <2>1, <2>4, <2>5, TreeWalk
  <2>7. p \in Tables /\ HwIndex(3, x) \in Index
    BY <1>5, <2>1, <2>4, TreePath, HwIndexIn, Levels DEF Tables
  <2>8. mem[p][HwIndex(3, x)].address # new[t]
    BY <1>1, <2>6, <2>7 DEF Writing
  <2> QED BY <2>3, <2>6, <2>8
<1> QED BY <1>2, <1>4, <1>8, <1>9, <1>10

LEMMA PageIsFound ==
  ASSUME Inv, PathInv, [Next]_vars, NEW t \in Thread, WritePage(t),
         NEW c \in Context, c = arg[t].context, NEW v \in VirtualPages, v = PageOf(arg[t].address)
  PROVE  /\ MappedTo(c, v)' = {new[t]}
         /\ \A d \in Context, x \in VirtualPages : d # c \/ x # v => MappedTo(d, x)' = MappedTo(d, x)
<1>1. /\ arg' = arg /\ c \in created' /\ arg[t].address \in Nat
      /\ Translate(arg[t].context, arg[t].address)' = {[page |-> ret'[t].page, user |-> TRUE]}
  BY ReturnFound
<1>2. ret'[t].page = new[t]
  BY DEF WritePage, Return, Inv, TypeOK
<1> DEFINE r == PhysicalAddress(root'[c])
           a == arg[t].address
<1>3. Walk(mem', r, a) = {[page |-> new[t], user |-> TRUE]}
  BY <1>1, <1>2 DEF Translate
<1>4. r \in PageAddress /\ kind'[r] = 0 /\ IsTree(mem', kind')
  <2>1. c \in created
    BY <1>1, WriterFacts DEF WritePage
  <2> QED BY <2>1, Roots, ContextsKept, UsesKept, RowInvTreeNext, RowNext
<1>5. MappedTo(c, v)' = {new[t]}
  <2>1. a \in Nat /\ v = PageOf(a)
    BY <1>1
  <2> HIDE DEF r, a
  <2>2. Walk(mem', r, v) = Walk(mem', r, a)
    BY <1>4, <2>1, SamePageWalk
  <2>3. Translate(c, v)' = {[page |-> new[t], user |-> TRUE]}
    BY <1>3, <2>2 DEF Translate, r
  <2>4. MappedTo(c, v)' = {w.page : w \in {[page |-> new[t], user |-> TRUE]}}
    BY <1>1, <2>3 DEF MappedTo
  <2>5. ASSUME NEW p PROVE {w.page : w \in {[page |-> p, user |-> TRUE]}} = {p}
    OBVIOUS
  <2> QED BY <2>4, <2>5
<1>6. ASSUME NEW d \in Context, NEW x \in VirtualPages, d # c \/ x # v
      PROVE  MappedTo(d, x)' = MappedTo(d, x)
  <2>1. x \in Nat /\ x < VA_SIZE /\ PageOf(x) = x
    BY VirtualPageFacts
  <2>2. created' = created
    BY DEF WritePage, contextVars
  <2>3. CASE d \in created
    <3>1. Translate(d, x)' = Translate(d, x)
      <4> SUFFICES ASSUME Translate(d, x)' # Translate(d, x) PROVE FALSE
        OBVIOUS
      <4>1. d = c /\ PageOf(x) = v
        BY <2>1, <2>3, LinkKeeps
      <4> QED BY <1>6, <2>1, <4>1
    <3> QED BY <2>2, <3>1 DEF MappedTo
  <2>4. CASE d \notin created
    BY <2>2, <2>4 DEF MappedTo
  <2> QED BY <2>3, <2>4
<1> QED BY <1>5, <1>6

LEMMA MapStep == Inv /\ PathInv /\ [Next]_vars => [Map!Next]_MapOf
<1> SUFFICES ASSUME Inv, PathInv, [Next]_vars, MapOf' # MapOf PROVE Map!Next
  OBVIOUS
<1>1. PICK t \in Thread : WritePage(t)
  BY MapStays
<1>2. PICK c \in Context, v \in VirtualPages : c = arg[t].context /\ v = PageOf(arg[t].address)
  BY <1>1, PageIsMapped
<1>3. /\ MappedTo(c, v) = {} /\ new[t] \in PageAddress
      /\ \A d \in Context, x \in VirtualPages : new[t] \notin MappedTo(d, x)
  BY <1>1, <1>2, PageIsMapped
<1>4. /\ MappedTo(c, v)' = {new[t]}
      /\ \A d \in Context, x \in VirtualPages : d # c \/ x # v => MappedTo(d, x)' = MappedTo(d, x)
  BY <1>1, <1>2, PageIsFound
<1>5. \A d \in Context, x \in VirtualPages :
        MapOf[d][x] = MappedTo(d, x) /\ MapOf'[d][x] = MappedTo(d, x)'
  BY DEF MapOf
<1>6. MapOf' = [MapOf EXCEPT ![c][v] = {new[t]}]
  <2> DEFINE E == [MapOf EXCEPT ![c][v] = {new[t]}]
  <2>1. ASSUME NEW d \in Context, NEW x \in VirtualPages PROVE MapOf'[d][x] = E[d][x]
    <3>1. E[d][x] = IF d = c /\ x = v THEN {new[t]} ELSE MapOf[d][x]
      BY DEF MapOf
    <3> QED BY <1>4, <1>5, <3>1
  <2>2. /\ MapOf' = [d \in Context |-> [x \in VirtualPages |-> MapOf'[d][x]]]
        /\ E = [d \in Context |-> [x \in VirtualPages |-> E[d][x]]]
    BY DEF MapOf
  <2> HIDE DEF E
  <2>3. MapOf' = E
    BY <2>1, <2>2
  <2> QED BY <2>3 DEF E
<1>7. new[t] \notin UNION {MapOf[d][x] : d \in Context, x \in VirtualPages}
  BY <1>3, <1>5
<1>8. Map!MapPage(c, v)
  <2>1. MapOf[c][v] = {} /\ new[t] \in MapOf'[c][v]
    BY <1>3, <1>4, <1>5
  <2>2. new[t] \in PageAddress \ Map!Mapped
    BY <1>3, <1>7 DEF Map!Mapped
  <2> QED BY Zenon, <1>6, <2>1, <2>2 DEF Map!MapPage
<1> QED BY <1>8 DEF Map!Next

\* Every context behaves as a map from pages to frames that only grows, each
\* frame in it fresh: the walks and the allocation of tables are steps that the
\* user of a MemoryContext cannot see.
THEOREM ContextsImplementAddressMap == Spec => ImplementsAddressMap
<1>1. Init => Map!Init
  BY DEF Init, Map!Init, MapOf, MappedTo
<1>2. Inv /\ PathInv /\ [Next]_vars => [Map!Next]_MapOf
  BY MapStep
<1> QED BY <1>1, <1>2, InvariantHolds, CallsHold, PTL
       DEF Spec, ImplementsAddressMap, Map!Spec
===============================================================================
