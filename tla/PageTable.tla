------------------------------- MODULE PageTable ------------------------------
(***************************************************************************)
(* AArch64 translation tables as the kernel writes them and as the         *)
(* hardware reads them.  Physical memory is a function mem from the        *)
(* address of a page to the rows that its bytes spell, whoever wrote them. *)
(* Addresses are bytes.  A table of level l at input address start maps    *)
(* TableLen(l) bytes, each of its rows RowLen(l) of them.                  *)
(***************************************************************************)
EXTENDS Integers

CONSTANTS
  PageSize,         \* size_of::<Page>()
  ROW_COUNT,        \* the number of rows in a translation table
  L3_TABLE_COUNT,   \* how many level 3 tables the kernel's own map has
  TABLES            \* the physical address of the kernel's own tables

ASSUME PageTableAssumption ==
  /\ PageSize \in Nat \ {0}
  /\ ROW_COUNT \in Nat \ {0}
  /\ L3_TABLE_COUNT \in 1 .. ROW_COUNT
  /\ TABLES \in Nat /\ TABLES % PageSize = 0

LEVEL_ROOT == 0
LEVEL_MAX  == 3
Level      == LEVEL_ROOT .. LEVEL_MAX

\* TYPE_TABLE and TYPE_PAGE are the same bits; the level tells them apart.
TYPE_BLOCK == 1
TYPE_TABLE == 3
TYPE_PAGE  == 3

\* ROW_COUNT.pow(n) is Pow[n], for the numbers of levels that there are.
Pow ==
  LET square == ROW_COUNT * ROW_COUNT
  IN  <<ROW_COUNT, square, square * ROW_COUNT, square * square>>

\* The address space of one translation table base register is 2^VA_BITS
\* bytes; kernel pointers have all the bits above set.
VA_SIZE  == PageSize * Pow[4]
VA_START == 65535 * VA_SIZE

\* MemoryMapper: address | VA_START and ptr & !VA_START.
VirtualAddress(address) == VA_START + (address % VA_SIZE)
PhysicalAddress(ptr)    == ptr % VA_SIZE

PageOf(address) == (address \div PageSize) * PageSize

-------------------------------------------------------------------------------
(***************************************************************************)
(* Rows and their descriptors.                                             *)
(***************************************************************************)
Row   == [type : 0 .. 3, address : Nat, user : BOOLEAN, attr : {"Device", "Normal"}]
Index == 0 .. ROW_COUNT - 1
Table == [Index -> Row]

EmptyRow  == [type |-> 0, address |-> 0, user |-> FALSE, attr |-> "Device"]
ZeroTable == [i \in Index |-> EmptyRow]

\* The test of the builders' new(): no bit outside the address mask.
IsPageAddress(address)  == address < VA_SIZE /\ address % PageSize = 0
IsBlockAddress(address) == address < VA_SIZE /\ address % (PageSize * ROW_COUNT) = 0

TableDescriptor(address) ==
  [type |-> TYPE_TABLE, address |-> address, user |-> FALSE, attr |-> "Device"]
BlockDescriptor(address) ==
  [type |-> TYPE_BLOCK, address |-> address, user |-> FALSE, attr |-> "Device"]
PageDescriptor(address, user) ==
  [type |-> TYPE_PAGE, address |-> address, user |-> user, attr |-> "Normal"]

DescriptorType(row, level) ==
  CASE row.type = TYPE_TABLE /\ level < LEVEL_MAX -> "Table"
    [] row.type = TYPE_BLOCK /\ level > 0         -> "Block"
    [] row.type = TYPE_PAGE /\ level = LEVEL_MAX  -> "Page"
    [] OTHER                                      -> "None"

-------------------------------------------------------------------------------
(***************************************************************************)
(* TableManager and TableRowManager.                                       *)
(***************************************************************************)
TableLen(level) == PageSize * Pow[LEVEL_MAX - level + 1]
RowLen(level)   == TableLen(level) \div ROW_COUNT

InTable(tm, address) == tm.start <= address /\ address < tm.start + TableLen(tm.level)

\* row_by_address, for an address that is InTable.
RowIndex(tm, address) == (address - tm.start) \div RowLen(tm.level)

RowStart(tm, i) == tm.start + RowLen(tm.level) * i

-------------------------------------------------------------------------------
(***************************************************************************)
(* The kernel's own map, made by create_tables before the MMU is on.       *)
(***************************************************************************)
KernelTable(i) == TABLES + i * PageSize
KernelPages    == {KernelTable(i) : i \in 0 .. 2 + L3_TABLE_COUNT}

\* The table managers of create_tables: the tables of level 1 and 2 map row 0
\* of the table above, those of level 3 the first rows of the level 2 table.
L0    == [table |-> KernelTable(0), level |-> 0, start |-> 0]
L1    == [table |-> KernelTable(1), level |-> 1, start |-> RowStart(L0, 0)]
L2    == [table |-> KernelTable(2), level |-> 2, start |-> RowStart(L1, 0)]
L3(i) == [table |-> KernelTable(3 + i), level |-> 3, start |-> RowStart(L2, i)]

\* Mutant of BlockRow: the blocks of level 2 are placed one row too high.
BlockRowShifted(tm, i) == BlockDescriptor(RowStart(tm, i + 1))

BlockRow(tm, i) == BlockDescriptor(RowStart(tm, i))

CreateTables ==
  [p \in KernelPages |->
     CASE p = L0.table -> [i \in Index |-> IF i = 0 THEN TableDescriptor(L1.table) ELSE EmptyRow]
       [] p = L1.table -> [i \in Index |-> IF i = 0 THEN TableDescriptor(L2.table) ELSE BlockRow(L1, i)]
       [] p = L2.table -> [i \in Index |-> IF i < L3_TABLE_COUNT THEN TableDescriptor(L3(i).table)
                                                                  ELSE BlockRow(L2, i)]
       [] OTHER -> LET l3 == L3((p - L3(0).table) \div PageSize) IN
                   [i \in Index |-> PageDescriptor(RowStart(l3, i), FALSE)]]

\* No builder refuses an address, or create_tables would fail.
CreateTablesOk ==
  \A p \in KernelPages, i \in Index :
    LET row == CreateTables[p][i] IN
    IF row.type = TYPE_BLOCK THEN IsBlockAddress(row.address) ELSE IsPageAddress(row.address)

-------------------------------------------------------------------------------
(***************************************************************************)
(* The hardware's table walk: the index of each level is a field of the    *)
(* address, a block or page descriptor ends the walk.  The result is the   *)
(* set of what it finds: nothing (a fault), or a page.                     *)
(***************************************************************************)
RowsAt(mem, tables, level, address) ==
  {mem[t][(address \div RowLen(level)) % ROW_COUNT] : t \in tables}

NextTables(rows) == {r.address : r \in {s \in rows : s.type = TYPE_TABLE}}

Leaves(rows, type, level, address) ==
  {[page |-> r.address + PageOf(address % RowLen(level)), user |-> r.user] :
     r \in {s \in rows : s.type = type}}

Walk(mem, root, address) ==
  LET r0 == RowsAt(mem, {root}, 0, address)
      r1 == RowsAt(mem, NextTables(r0), 1, address)
      r2 == RowsAt(mem, NextTables(r1), 2, address)
      r3 == RowsAt(mem, NextTables(r2), 3, address)
  IN  Leaves(r1, TYPE_BLOCK, 1, address) \cup
      Leaves(r2, TYPE_BLOCK, 2, address) \cup
      Leaves(r3, TYPE_PAGE, 3, address)
===============================================================================
