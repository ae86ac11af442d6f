------------------------------ MODULE PageAllocator ---------------------------
(***************************************************************************)
(* The physical page allocator: a cursor that only moves up, under a       *)
(* Mutex, skipping the pages that touch a reserved range (the kernel image *)
(* and the memory-mapped devices).  Addresses are bytes.                   *)
(*                                                                         *)
(* The threads that allocate are tasks that can be preempted anywhere,     *)
(* also while they hold the mutex and between two turns of the loop.       *)
(***************************************************************************)
EXTENDS Integers, FiniteSets

CONSTANTS
  Thread,
  PageSize,    \* size_of::<Page>()
  Capacity,    \* PageAllocator.capacity
  Layouts,     \* the sets of reserved ranges that new() may be given
  MaxAllocs    \* bound: how many calls of alloc() are made

\* A Range<usize>: start is in the range, end is not.
Range == {r \in [start : Nat, end : Nat] : r.start < r.end}

ASSUME PageAllocatorAssumption ==
  /\ PageSize \in Nat \ {0}
  /\ Capacity \in Nat
  /\ \A l \in Layouts : l \subseteq Range
  /\ MaxAllocs \in Nat

VARIABLES
  reserved,    \* PageAllocator.reserved_ranges
  allocated,   \* PageAllocator.allocated: the first byte never considered yet
  lock,        \* the lock of the mutex around it
  pc,          \* where each thread is: "idle", "lock", "loop" or "return"
  start,       \* alloc_start of each thread
  granted,     \* every page alloc() ever returned
  live,        \* the PageAllocations not dropped yet, by owner
  calls        \* how many calls of alloc() were made

vars == <<reserved, allocated, lock, pc, start, granted, live, calls>>

Page(s) == [start |-> s, end |-> s + PageSize]

\* Mutant of Contains: the end of a range counts as part of it.
ContainsEnd(r, a) == r.start <= a /\ a <= r.end

\* Range::contains.
Contains(r, a) == r.start <= a /\ a < r.end

\* Mutant of Intersects: only the ends of the reserved range are tested.
IntersectsAtEnds(page, r) ==
  Contains(page, r.start) \/ Contains(page, r.end - 1)

\* The test of alloc's inner loop.
Intersects(page, r) ==
  \/ Contains(page, r.start)
  \/ Contains(page, r.end - 1)
  \/ Contains(r, page.start)
  \/ Contains(r, page.end - 1)

Usable(s) == \A r \in reserved : ~Intersects(Page(s), r)

Init ==
  /\ reserved \in Layouts
  /\ allocated = 0 /\ lock = FALSE
  /\ pc = [t \in Thread |-> "idle"]
  /\ start = [t \in Thread |-> 0]
  /\ granted = {}
  /\ live = [t \in Thread |-> {}]
  /\ calls = 0

Goto(t, p) == pc' = [pc EXCEPT ![t] = p]

Alloc(t) ==
  /\ pc[t] = "idle" /\ calls < MaxAllocs
  /\ calls' = calls + 1
  /\ Goto(t, "lock")
  /\ UNCHANGED <<reserved, allocated, lock, start, granted, live>>

\* self.allocated.lock().
Lock(t) ==
  /\ pc[t] = "lock" /\ ~lock
  /\ lock' = TRUE
  /\ Goto(t, "loop")
  /\ UNCHANGED <<reserved, allocated, start, granted, live, calls>>

\* Mutant of Advance: the start of the previous page is recorded.
AdvanceRecordsPrevious(t) ==
  /\ pc[t] = "loop"
  /\ start' = [start EXCEPT ![t] = allocated - PageSize]
  /\ allocated' = allocated + PageSize
  /\ UNCHANGED <<reserved, live, calls>>

\* The head of the loop: take the next page, whatever becomes of it.
Advance(t) ==
  /\ pc[t] = "loop"
  /\ start' = [start EXCEPT ![t] = allocated]
  /\ allocated' = allocated + PageSize
  /\ UNCHANGED <<reserved, live, calls>>

\* Memory is exhausted: the guard is dropped and alloc returns Err.
Fail(t) ==
  /\ Advance(t)
  /\ allocated' > Capacity
  /\ lock' = FALSE
  /\ Goto(t, "idle")
  /\ UNCHANGED granted

\* Mutant of Skip: the cursor stays where it is.
SkipInPlace(t) ==
  /\ pc[t] = "loop"
  /\ allocated + PageSize <= Capacity
  /\ ~Usable(allocated)
  /\ UNCHANGED vars

\* The page touches a reserved range: next turn of the loop.
Skip(t) ==
  /\ Advance(t)
  /\ allocated' <= Capacity
  /\ ~Usable(allocated)
  /\ UNCHANGED <<lock, pc, granted>>

\* The page is free: break.
Found(t) ==
  /\ Advance(t)
  /\ allocated' <= Capacity
  /\ Usable(allocated)
  /\ granted' = granted \cup {allocated}
  /\ Goto(t, "return")
  /\ UNCHANGED lock

\* The page is zeroed, the guard dropped and the PageAllocation returned.
Return(t) ==
  /\ pc[t] = "return"
  /\ lock' = FALSE
  /\ live' = [live EXCEPT ![t] = @ \cup {start[t]}]
  /\ Goto(t, "idle")
  /\ UNCHANGED <<reserved, allocated, start, granted, calls>>

\* Mutant of Dealloc: the cursor moves back, as if the last page was dropped.
DeallocMovesBack(t, p) ==
  /\ pc[t] = "idle" /\ p \in live[t]
  /\ live' = [live EXCEPT ![t] = @ \ {p}]
  /\ allocated' = allocated - PageSize
  /\ UNCHANGED <<reserved, lock, pc, start, granted, calls>>

\* PageAllocation::drop: dealloc zeroes the page and does not reuse it.
Dealloc(t, p) ==
  /\ pc[t] = "idle" /\ p \in live[t]
  /\ live' = [live EXCEPT ![t] = @ \ {p}]
  /\ UNCHANGED <<reserved, allocated, lock, pc, start, granted, calls>>

Step(t) == Lock(t) \/ Fail(t) \/ Skip(t) \/ Found(t) \/ Return(t)

\* Every call has been made and has returned.
Done ==
  /\ calls = MaxAllocs /\ \A t \in Thread : pc[t] = "idle" /\ live[t] = {}
  /\ UNCHANGED vars

Next ==
  \/ \E t \in Thread : Alloc(t) \/ Step(t) \/ \E p \in live[t] : Dealloc(t, p)
  \/ Done

Spec == Init /\ [][Next]_vars

\* A thread inside alloc() keeps being scheduled.
FairSpec == Spec /\ \A t \in Thread : WF_vars(Step(t))

-------------------------------------------------------------------------------
(***************************************************************************)
(* Properties.                                                             *)
(***************************************************************************)
\* The values the allocator's fields and alloc's locals can take.
TypeOK ==
  /\ reserved \subseteq Range
  /\ allocated \in Nat /\ lock \in BOOLEAN
  /\ pc \in [Thread -> {"idle", "lock", "loop", "return"}]
  /\ start \in [Thread -> Nat]
  /\ granted \subseteq Nat
  /\ live \in [Thread -> SUBSET Nat]
  /\ calls \in 0 .. MaxAllocs

Bytes(r) == r.start .. r.end - 1

\* The reference definition of Intersects: two ranges share a byte.
Overlap(p, r) == \E a \in Bytes(p) : a \in Bytes(r)

Holding(t) == pc[t] \in {"loop", "return"}

\* One thread at a time is inside the loop.
MutualExclusion ==
  /\ lock <=> \E t \in Thread : Holding(t)
  /\ \A t, u \in Thread : Holding(t) /\ Holding(u) => t = u

(***************************************************************************)
(* The invariant that the proofs use.  Pages come off the cursor one by    *)
(* one, so the granted ones lie apart and below it; each is live for one   *)
(* thread at most.                                                         *)
(***************************************************************************)
GrantInv ==
  /\ \A p \in granted :
       /\ p + PageSize <= allocated
       /\ p + PageSize <= Capacity
       /\ Usable(p)
  /\ \A p, q \in granted : p # q => p + PageSize <= q \/ q + PageSize <= p

LiveInv ==
  /\ \A t \in Thread : live[t] \subseteq granted
  /\ \A t, u \in Thread : t # u => live[t] \cap live[u] = {}
  /\ \A t \in Thread : pc[t] = "return" =>
       start[t] \in granted /\ \A u \in Thread : start[t] \notin live[u]

WasteInv ==
  \E k \in Nat :
    /\ allocated = k * PageSize
    /\ \A n \in Nat :
         n < k /\ n * PageSize + PageSize <= Capacity /\ Usable(n * PageSize) =>
           n * PageSize \in granted

Inv == TypeOK /\ MutualExclusion /\ GrantInv /\ LiveInv

\* The hardware's tables name a page by the upper bits of its address.
Aligned(p) == \E n \in 0 .. p : p = n * PageSize

\* A page that alloc() returned begins on a page boundary, lies in memory and
\* shares no byte with the kernel image or the devices.
GrantsAreSafe ==
  \A p \in granted :
    /\ Aligned(p)
    /\ p + PageSize <= Capacity
    /\ \A r \in reserved : ~Overlap(Page(p), r)

\* No two live PageAllocations share a byte, whoever owns them: dropping one
\* (which zeroes it) never touches another.
LivePagesDisjoint ==
  \A t, u \in Thread : \A p \in live[t], q \in live[u] :
    Overlap(Page(p), Page(q)) => t = u /\ p = q

\* Nothing usable is passed over: every page below the cursor that fits and
\* touches no reserved byte has been handed out.
NothingWasted ==
  \A n \in 0 .. Capacity :
    LET p == n * PageSize IN
      /\ p < allocated
      /\ p + PageSize <= Capacity
      /\ \A r \in reserved : ~Overlap(Page(p), r)
      => p \in granted

\* A page is handed out at most once, and the cursor never moves back; after
\* the first Err no page is handed out any more.
CursorMonotonic ==
  [][ /\ allocated' >= allocated
      /\ \A p \in granted' \ granted : p >= allocated
      /\ allocated > Capacity => granted' = granted ]_vars

\* Once a call of alloc() has the mutex, its loop ends and the call returns,
\* however much memory is reserved.  (A thread that waits for the mutex may be
\* overtaken: Lock::lock is not fair.)
AllocReturns == \A t \in Thread : pc[t] = "loop" ~> pc[t] = "idle"
===============================================================================
