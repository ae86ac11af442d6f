----------------------------- MODULE MemoryContext ----------------------------
(***************************************************************************)
(* The address spaces of tasks.  Threads create memory contexts and ask    *)
(* them to map pages; alloc_page walks the tables level by level under the *)
(* context's lock, allocating what is missing.  The hardware walks the     *)
(* same tables whenever it likes, caches what it finds under the address   *)
(* space ID of TTBR0_EL1, and lets user programs write whatever bytes they *)
(* like to the pages it finds.                                             *)
(*                                                                         *)
(* The page allocator is used by its contract, which module PageAllocator  *)
(* establishes: each alloc() returns a page that nobody had, zeroed, in    *)
(* ascending order, until memory is exhausted.                             *)
(***************************************************************************)
EXTENDS PageTable, FiniteSets

CONSTANTS
  Thread,
  Context,
  NoContext,    \* not a context
  Address,      \* the user addresses that alloc_page is called with
  Capacity,     \* bytes of physical memory
  ASID_COUNT,   \* how many values AddressSpaceId's counter has before it wraps
  TlbSize,      \* bound: translations that the hardware caches
  MaxCalls      \* bound: calls of alloc_page and alloc_page_unmapped

ASSUME MemoryContextAssumption ==
  /\ NoContext \notin Context
  /\ Address \subseteq Nat
  /\ Capacity \in Nat /\ KernelPages \subseteq 0 .. Capacity - PageSize
  /\ Capacity <= RowLen(0)
  /\ ASID_COUNT \in Nat \ {0, 1}
  /\ TlbSize \in Nat /\ MaxCalls \in Nat

VARIABLES
  mem,        \* physical memory, as rows
  cursor,     \* the next page that PageAllocator.alloc() returns
  counter,    \* AddressSpaceId's COUNTER
  created,    \* the contexts that new() has made
  root,       \* MemoryContext.table_l0, a kernel pointer
  asid,       \* MemoryContext.asid
  owned,      \* MemoryContext.page_allocations
  lock,       \* MemoryContext.lock
  pc,         \* where each thread is: "idle", "walk" or "write"
  arg,        \* the context and the address of each thread's call
  tm,         \* the TableManager of each thread's call
  new,        \* the page that each thread's call has just allocated
  ret,        \* what each thread's last call of alloc_page returned
  calls,      \* how many calls were made
  tlb,        \* the translations that the hardware has cached
  kind        \* history: a table's level, 4 for a mapped page, 5 for an unmapped one

contextVars == <<created, root, asid, counter>>
walkVars    == <<pc, arg, tm, new, ret, calls, lock>>
vars        == <<mem, cursor, owned, kind, contextVars, walkVars, tlb>>

PageAddress == {n * PageSize : n \in 0 .. (Capacity \div PageSize) - 1}

\* What user programs, and the machine before boot, leave in a page.  It
\* happens to look like a table full of descriptors of the kernel's root.
Scribble == [i \in Index |-> PageDescriptor(L0.table, TRUE)]

\* The first page after the kernel image, __end.
End == TABLES + (3 + L3_TABLE_COUNT) * PageSize

NoCall   == [context |-> NoContext, address |-> 0]
NoResult == [ok |-> FALSE, page |-> 0]
NoTable  == [table |-> 0, level |-> 0, start |-> 0]

Ttbr(c) == asid[c] * VA_SIZE + PhysicalAddress(root[c])

\* The values of TTBR0_EL1: virtual_memory_early_init installs the kernel's own
\* tables, with ASID 0, and from then on memory_context_switch installs any
\* context that exists, whenever the scheduler likes.
Ttbr0 == {L0.table} \cup {Ttbr(c) : c \in created}

Init ==
  /\ mem = [p \in PageAddress |-> IF p \in KernelPages THEN CreateTables[p] ELSE Scribble]
  /\ cursor = End
  /\ counter = 1
  /\ created = {}
  /\ root = [c \in Context |-> 0]
  /\ asid = [c \in Context |-> 0]
  /\ owned = [c \in Context |-> {}]
  /\ lock = [c \in Context |-> FALSE]
  /\ pc = [t \in Thread |-> "idle"]
  /\ arg = [t \in Thread |-> NoCall]
  /\ tm = [t \in Thread |-> NoTable]
  /\ new = [t \in Thread |-> 0]
  /\ ret = [t \in Thread |-> NoResult]
  /\ calls = 0
  /\ tlb = {}
  /\ kind = [p \in PageAddress |-> -1]

-------------------------------------------------------------------------------
(***************************************************************************)
(* Creating contexts and allocating pages.                                 *)
(***************************************************************************)
\* PageAllocator.alloc() succeeds.  Its page is below Capacity, so that the
\* builders accept its address.
CanAlloc == cursor + PageSize <= Capacity

\* Mutant of Zeroed: the page keeps what was in it.
NotZeroed(m) == m

Zeroed(m) == [m EXCEPT ![cursor] = ZeroTable]

\* alloc_page_raw: a zeroed page, recorded with its context; k is its use.
AllocPageRaw(c, k) ==
  /\ CanAlloc
  /\ cursor' = cursor + PageSize
  /\ owned' = [owned EXCEPT ![c] = @ \cup {cursor}]
  /\ kind' = [kind EXCEPT ![cursor] = k]

\* Mutant of AddressSpaceIdNext: the counter is read and not advanced.
AddressSpaceIdConstant == counter' = counter

\* Mutant of AddressSpaceIdNext: the counter does not wrap.
AddressSpaceIdWide == counter' = counter + 1

\* AddressSpaceId::next: a 16-bit fetch_add.
AddressSpaceIdNext == counter' = (counter + 1) % ASID_COUNT

\* MemoryContext::new.  The page and the ID come from two independent counters,
\* so that taking both in one step hides no race.
New(c) ==
  /\ c \notin created
  /\ AllocPageRaw(c, LEVEL_ROOT)
  /\ mem' = Zeroed(mem)
  /\ created' = created \cup {c}
  /\ root' = [root EXCEPT ![c] = VirtualAddress(cursor)]
  /\ asid' = [asid EXCEPT ![c] = counter]
  /\ AddressSpaceIdNext
  /\ UNCHANGED <<walkVars, tlb>>

\* MemoryContext::alloc_page_unmapped, used for kernel stacks.
AllocPageUnmapped(c) ==
  /\ c \in created /\ ~lock[c] /\ calls < MaxCalls
  /\ AllocPageRaw(c, LEVEL_MAX + 2)
  /\ mem' = Zeroed(mem)
  /\ calls' = calls + 1
  /\ UNCHANGED <<contextVars, pc, arg, tm, new, ret, lock, tlb>>

-------------------------------------------------------------------------------
(***************************************************************************)
(* MemoryContext::alloc_page.                                              *)
(***************************************************************************)
\* Mutant of AllocPage: the lock does not exclude.
AllocPageShared(t, c, address) ==
  /\ pc[t] = "idle" /\ c \in created /\ calls < MaxCalls
  /\ calls' = calls + 1
  /\ lock' = [lock EXCEPT ![c] = TRUE]
  /\ arg' = [arg EXCEPT ![t] = [context |-> c, address |-> address]]
  /\ tm' = [tm EXCEPT ![t] = [table |-> root[c], level |-> LEVEL_ROOT, start |-> 0]]
  /\ ret' = [ret EXCEPT ![t] = NoResult]
  /\ pc' = [pc EXCEPT ![t] = "walk"]
  /\ UNCHANGED <<mem, cursor, owned, kind, new, contextVars, tlb>>

\* self.lock.call, with the closure's first statement.
AllocPage(t, c, address) ==
  /\ pc[t] = "idle" /\ c \in created /\ ~lock[c] /\ calls < MaxCalls
  /\ calls' = calls + 1
  /\ lock' = [lock EXCEPT ![c] = TRUE]
  /\ arg' = [arg EXCEPT ![t] = [context |-> c, address |-> address]]
  /\ tm' = [tm EXCEPT ![t] = [table |-> root[c], level |-> LEVEL_ROOT, start |-> 0]]
  /\ ret' = [ret EXCEPT ![t] = NoResult]
  /\ pc' = [pc EXCEPT ![t] = "walk"]
  /\ UNCHANGED <<mem, cursor, owned, kind, new, contextVars, tlb>>

\* The page that holds the thread's table, the row of the address in it.
TablePage(t) == PhysicalAddress(tm[t].table)
RowOf(t)     == RowIndex(tm[t], arg[t].address)
Value(t)     == mem[TablePage(t)][RowOf(t)]
TypeOf(t)    == DescriptorType(Value(t), tm[t].level)

\* traverse_table_to_table and traverse_table_to_page find the address in range.
Traversing(t) == pc[t] = "walk" /\ InTable(tm[t], arg[t].address)

Descend(t, page) ==
  tm' = [tm EXCEPT ![t] = [table |-> VirtualAddress(page), level |-> @.level + 1,
                           start |-> RowStart(@, RowOf(t))]]

\* The closure returns: the result is passed on and the lock released.
Return(t, result) ==
  /\ ret' = [ret EXCEPT ![t] = result]
  /\ lock' = [lock EXCEPT ![arg[t].context] = FALSE]
  /\ pc' = [pc EXCEPT ![t] = "idle"]
  /\ UNCHANGED <<arg, tm, new, calls>>

\* What the row must be for the walk to go on without an allocation.
Expected(t) == IF tm[t].level < LEVEL_MAX THEN "Table" ELSE "Page"

\* The row is a table already.
LoadTable(t) ==
  /\ Traversing(t) /\ tm[t].level < LEVEL_MAX /\ TypeOf(t) = "Table"
  /\ Descend(t, Value(t).address)
  /\ UNCHANGED <<mem, cursor, owned, kind, contextVars, pc, arg, new, ret, calls, lock, tlb>>

\* The row is a page already.
LoadPage(t) ==
  /\ Traversing(t) /\ tm[t].level = LEVEL_MAX /\ TypeOf(t) = "Page"
  /\ Return(t, [ok |-> TRUE, page |-> Value(t).address])
  /\ UNCHANGED <<mem, cursor, owned, kind, contextVars, tlb>>

\* Mutant of Allocate: a page that is mapped is replaced.
AllocateAlways(t) ==
  /\ Traversing(t) /\ TypeOf(t) # "Table"
  /\ AllocPageRaw(arg[t].context, tm[t].level + 1)
  /\ mem' = Zeroed(mem)
  /\ new' = [new EXCEPT ![t] = cursor]
  /\ pc' = [pc EXCEPT ![t] = "write"]
  /\ UNCHANGED <<contextVars, arg, tm, ret, calls, lock, tlb>>

\* It is neither: allocate one ...
Allocate(t) ==
  /\ Traversing(t) /\ TypeOf(t) # Expected(t)
  /\ AllocPageRaw(arg[t].context, tm[t].level + 1)
  /\ mem' = Zeroed(mem)
  /\ new' = [new EXCEPT ![t] = cursor]
  /\ pc' = [pc EXCEPT ![t] = "write"]
  /\ UNCHANGED <<contextVars, arg, tm, ret, calls, lock, tlb>>

\* ... and write its descriptor.
WriteRow(t, row) == mem' = [mem EXCEPT ![TablePage(t)][RowOf(t)] = row]

WriteTable(t) ==
  /\ pc[t] = "write" /\ tm[t].level < LEVEL_MAX
  /\ WriteRow(t, TableDescriptor(new[t]))
  /\ Descend(t, new[t])
  /\ pc' = [pc EXCEPT ![t] = "walk"]
  /\ UNCHANGED <<cursor, owned, kind, contextVars, arg, new, ret, calls, lock, tlb>>

WritePage(t) ==
  /\ pc[t] = "write" /\ tm[t].level = LEVEL_MAX
  /\ WriteRow(t, PageDescriptor(new[t], TRUE))
  /\ Return(t, [ok |-> TRUE, page |-> new[t]])
  /\ UNCHANGED <<cursor, owned, kind, contextVars, tlb>>

\* The address is out of range, or memory is exhausted: Err, whatever was
\* linked on the way stays.
Fail(t) ==
  /\ pc[t] = "walk"
  /\ \/ ~Traversing(t)
     \/ Traversing(t) /\ TypeOf(t) # Expected(t) /\ ~CanAlloc
  /\ Return(t, NoResult)
  /\ UNCHANGED <<mem, cursor, owned, kind, contextVars, tlb>>

-------------------------------------------------------------------------------
(***************************************************************************)
(* The core.                                                               *)
(***************************************************************************)
\* The hardware walks the installed tables and caches what it finds, in the
\* place of something else perhaps; every page and block is NOT_GLOBAL.
TlbFill(ttbr0, address) ==
  /\ address < VA_SIZE
  /\ \E w \in Walk(mem, ttbr0 % VA_SIZE, address), kept \in SUBSET tlb :
       /\ Cardinality(kept) < TlbSize
       /\ tlb' = kept \cup {[asid |-> ttbr0 \div VA_SIZE, address |-> PageOf(address),
                             page |-> w.page, user |-> w.user]}
  /\ UNCHANGED <<mem, cursor, owned, kind, contextVars, walkVars>>

\* A user program writes to its memory.
UserStore(ttbr0, e) ==
  /\ e.asid = ttbr0 \div VA_SIZE /\ e.user
  /\ mem' = [mem EXCEPT ![e.page] = Scribble]
  /\ UNCHANGED <<cursor, owned, kind, contextVars, walkVars, tlb>>

Step(t) ==
  \/ LoadTable(t) \/ LoadPage(t) \/ Allocate(t) \/ WriteTable(t) \/ WritePage(t) \/ Fail(t)

Next ==
  \/ \E c \in Context : New(c) \/ AllocPageUnmapped(c)
  \/ \E t \in Thread :
       Step(t) \/ \E c \in Context, address \in Address : AllocPage(t, c, address)
  \/ \E ttbr0 \in Ttbr0 :
       \/ \E address \in Address : TlbFill(ttbr0, address)
       \/ \E e \in tlb : UserStore(ttbr0, e)

Spec == Init /\ [][Next]_vars

-------------------------------------------------------------------------------
(***************************************************************************)
(* Properties.                                                             *)
(***************************************************************************)
\* The values that the contexts, the walks and the registers can take.  The
\* kernel's map also leads to addresses that are not memory.
TypeOK ==
  /\ mem \in [PageAddress -> Table]
  /\ cursor \in Nat /\ counter \in 0 .. ASID_COUNT - 1
  /\ created \subseteq Context
  /\ root \in [Context -> Nat] /\ asid \in [Context -> 0 .. ASID_COUNT - 1]
  /\ owned \in [Context -> SUBSET PageAddress]
  /\ lock \in [Context -> BOOLEAN]
  /\ pc \in [Thread -> {"idle", "walk", "write"}]
  /\ arg \in [Thread -> [context : Context \cup {NoContext}, address : Nat]]
  /\ tm \in [Thread -> [table : Nat, level : Level, start : Nat]]
  /\ new \in [Thread -> Nat]
  /\ ret \in [Thread -> [ok : BOOLEAN, page : Nat]]
  /\ calls \in 0 .. MaxCalls
  /\ tlb \subseteq [asid : Nat, address : Nat, page : Nat, user : BOOLEAN]
  /\ kind \in [PageAddress -> -1 .. LEVEL_MAX + 2]

\* What the hardware finds for a user address of a context.
Translate(c, address) == Walk(mem, PhysicalAddress(root[c]), address)

\* A row of one of the context's tables that the walk would follow.
Reference(c, p, i) == p \in owned[c] /\ kind[p] \in Level /\ mem[p][i].type # 0

(***************************************************************************)
(* Every page has one use: it belongs to one context, and one row at most  *)
(* refers to it, from a table of the level above in the same context.  No  *)
(* table, kernel page or stack can be reached as user memory, and no row   *)
(* leads out of its context, also after alloc_page has given up half way.  *)
(***************************************************************************)
PagesExclusive ==
  /\ \A c, d \in Context : c # d => owned[c] \cap owned[d] = {}
  /\ \A c \in Context : owned[c] \cap KernelPages = {}
  /\ \A c \in created :
       PhysicalAddress(root[c]) \in owned[c] /\ kind[PhysicalAddress(root[c])] = LEVEL_ROOT
  /\ \A c \in Context, p \in PageAddress, i \in Index : Reference(c, p, i) =>
       /\ mem[p][i].address \in owned[c]
       /\ kind[mem[p][i].address] = kind[p] + 1
       /\ mem[p][i].user = (kind[p] = LEVEL_MAX)
       /\ \A d \in Context, q \in PageAddress, j \in Index :
            Reference(d, q, j) /\ mem[q][j].address = mem[p][i].address =>
              p = q /\ i = j

VirtualPages == {PageOf(address) : address \in {a \in Address : a < VA_SIZE}}

MappedTo(c, v) == IF c \in created THEN {w.page : w \in Translate(c, v)} ELSE {}
MapOf          == [c \in Context |-> [v \in VirtualPages |-> MappedTo(c, v)]]

Map == INSTANCE AddressMap WITH
  VirtualPage <- VirtualPages, PhysicalPage <- PageAddress, map <- MapOf

\* alloc_page implements the abstract map: a call adds the translation of its
\* own address at most, with a page that nobody else maps; failed calls,
\* address-space switches and everything user programs write change nothing.
ImplementsAddressMap == Map!Spec

\* The page that alloc_page returned is, and stays, the one that the context
\* translates the address to; the caller copies to it by that address.
ReturnedPageIsMapped ==
  \A t \in Thread : ret[t].ok =>
    Translate(arg[t].context, arg[t].address) = {[page |-> ret[t].page, user |-> TRUE]}

\* Nothing is invalidated on a switch: as long as fewer than ASID_COUNT
\* contexts were made, a cached translation that the core can use for a context
\* is what that context's own tables say.
TlbMatchesTables ==
  Cardinality(created) < ASID_COUNT =>
    \A e \in tlb, c \in created : e.asid = asid[c] =>
      Translate(c, e.address) = {[page |-> e.page, user |-> e.user]}

\* create_tables succeeds, and the kernel reaches every page of memory at
\* MEMORY_MAPPER.virtual_address of it, through tables that nothing ever changes,
\* whatever it allocates and user programs write; these do not reach it there.
KernelMapIsLinear ==
  /\ CreateTablesOk
  /\ \A p \in PageAddress :
       Walk(mem, L0.table, PhysicalAddress(VirtualAddress(p))) = {[page |-> p, user |-> FALSE]}
===============================================================================
