-------------------------- MODULE PageAllocatorProofs -------------------------
(***************************************************************************)
(* The page allocator is correct for every page size, capacity, set of     *)
(* reserved ranges and number of threads.                                  *)
(***************************************************************************)
EXTENDS PageAllocator, TLAPS

\* The four comparisons of alloc's inner loop decide whether a page and a
\* (non-empty) reserved range share a byte.
LEMMA IntersectsIsOverlap ==
  ASSUME NEW s \in Nat, NEW r \in Range
  PROVE  Intersects(Page(s), r) <=> Overlap(Page(s), r)
<1> USE PageAllocatorAssumption DEF Page, Range, Overlap, Bytes, Intersects, Contains
<1>1. ASSUME Intersects(Page(s), r) PROVE Overlap(Page(s), r)
  <2>1. CASE Contains(Page(s), r.start)
    BY <2>1
  <2>2. CASE Contains(Page(s), r.end - 1)
    BY <2>2
  <2>3. CASE Contains(r, s)
    BY <2>3
  <2>4. CASE Contains(r, s + PageSize - 1)
    BY <2>4
  <2> QED BY <1>1, <2>1, <2>2, <2>3, <2>4
<1>2. ASSUME Overlap(Page(s), r) PROVE Intersects(Page(s), r)
  BY <1>2
<1> QED BY <1>1, <1>2

\* A fresh allocator satisfies the invariant.
LEMMA InitInv == Init => Inv
<1> SUFFICES ASSUME Init PROVE Inv
  OBVIOUS
<1> USE DEF Init
<1>1. TypeOK
  <2>1. reserved \subseteq Range /\ calls \in 0 .. MaxAllocs
    BY PageAllocatorAssumption
  <2>2. granted \subseteq Nat /\ live \in [Thread -> SUBSET Nat]
    OBVIOUS
  <2> QED BY <2>1, <2>2 DEF TypeOK
<1>2. MutualExclusion
  BY DEF MutualExclusion, Holding
<1>3. GrantInv
  BY DEF GrantInv
<1>4. LiveInv
  BY DEF LiveInv
<1> QED BY <1>1, <1>2, <1>3, <1>4 DEF Inv

\* One turn of the loop.
LEMMA TypeNext == Inv /\ [Next]_vars => TypeOK'
<1> SUFFICES ASSUME TypeOK, [Next]_vars PROVE TypeOK'
  BY DEF Inv
<1> USE PageAllocatorAssumption DEF TypeOK, Goto, Advance
<1>1. CASE UNCHANGED vars
  BY <1>1 DEF vars
<1>2. ASSUME NEW t \in Thread, Alloc(t) PROVE TypeOK'
  BY <1>2 DEF Alloc
<1>3. ASSUME NEW t \in Thread, Lock(t) PROVE TypeOK'
  BY <1>3 DEF Lock
<1>4. ASSUME NEW t \in Thread, Fail(t) PROVE TypeOK'
  <2>1. lock' \in BOOLEAN /\ pc' \in [Thread -> {"idle", "lock", "loop", "return"}]
    BY <1>4 DEF Fail
  <2>2. allocated' \in Nat /\ start' \in [Thread -> Nat]
    BY <1>4 DEF Fail
  <2> QED BY <1>4, <2>1, <2>2 DEF Fail
<1>5. ASSUME NEW t \in Thread, Skip(t) PROVE TypeOK'
  BY <1>5 DEF Skip
<1>6. ASSUME NEW t \in Thread, Found(t) PROVE TypeOK'
  BY <1>6 DEF Found
<1>7. ASSUME NEW t \in Thread, Return(t) PROVE TypeOK'
  BY <1>7 DEF Return
<1>8. ASSUME NEW t \in Thread, NEW p \in live[t], Dealloc(t, p) PROVE TypeOK'
  BY <1>8 DEF Dealloc
<1> QED BY <1>1, <1>2, <1>3, <1>4, <1>5, <1>6, <1>7, <1>8 DEF Next, Step, Done

\* The mutex of the cursor excludes.
LEMMA MutualExclusionNext == Inv /\ [Next]_vars => MutualExclusion'
<1> SUFFICES ASSUME TypeOK, MutualExclusion, [Next]_vars PROVE MutualExclusion'
  BY DEF Inv
<1> USE DEF TypeOK, MutualExclusion, Holding, Goto, Advance
<1>1. CASE UNCHANGED vars
  BY <1>1 DEF vars
<1>2. ASSUME NEW t \in Thread, Alloc(t) PROVE MutualExclusion'
  BY <1>2 DEF Alloc
<1>3. ASSUME NEW t \in Thread, Lock(t) PROVE MutualExclusion'
  BY <1>3 DEF Lock
<1>4. ASSUME NEW t \in Thread, Fail(t) PROVE MutualExclusion'
  BY <1>4 DEF Fail
<1>5. ASSUME NEW t \in Thread, Skip(t) PROVE MutualExclusion'
  BY <1>5 DEF Skip
<1>6. ASSUME NEW t \in Thread, Found(t) PROVE MutualExclusion'
  BY <1>6 DEF Found
<1>7. ASSUME NEW t \in Thread, Return(t) PROVE MutualExclusion'
  BY <1>7 DEF Return
<1>8. ASSUME NEW t \in Thread, NEW p \in live[t], Dealloc(t, p)
      PROVE  MutualExclusion'
  BY <1>8 DEF Dealloc
<1> QED BY <1>1, <1>2, <1>3, <1>4, <1>5, <1>6, <1>7, <1>8 DEF Next, Step, Done

\* Only Found hands out a page, and it takes it from the cursor.
LEMMA GrantNext == Inv /\ [Next]_vars => GrantInv'
<1> SUFFICES ASSUME TypeOK, GrantInv, [Next]_vars PROVE GrantInv'
  BY DEF Inv
<1> USE PageAllocatorAssumption DEF TypeOK, GrantInv, Usable
<1>1. CASE granted' = granted /\ allocated' >= allocated /\ allocated' \in Nat
           /\ reserved' = reserved
  BY <1>1
<1>2. ASSUME NEW t \in Thread, Found(t) PROVE GrantInv'
  <2>1. /\ granted' = granted \cup {allocated}
        /\ allocated' = allocated + PageSize
        /\ allocated' <= Capacity
        /\ Usable(allocated)
        /\ reserved' = reserved
    BY <1>2 DEF Found, Advance
  <2> QED BY <2>1
<1>3. ASSUME NEW t \in Thread, Fail(t) \/ Skip(t)
      PROVE  /\ granted' = granted /\ allocated' >= allocated /\ allocated' \in Nat
             /\ reserved' = reserved
  BY <1>3 DEF Fail, Skip, Advance
<1>4. ASSUME NEW t \in Thread,
             Alloc(t) \/ Lock(t) \/ Return(t) \/ (\E p \in live[t] : Dealloc(t, p))
      PROVE  /\ granted' = granted /\ allocated' >= allocated /\ allocated' \in Nat
             /\ reserved' = reserved
  BY <1>4 DEF Alloc, Lock, Return, Dealloc
<1>5. CASE UNCHANGED vars
  BY <1>1, <1>5 DEF vars
<1> QED BY <1>1, <1>2, <1>3, <1>4, <1>5 DEF Next, Step, Done

\* A granted page belongs to one thread: the one that found it, until it drops it.
LEMMA LiveNext == Inv /\ [Next]_vars => LiveInv'
<1> SUFFICES ASSUME Inv, [Next]_vars PROVE LiveInv'
  OBVIOUS
<1> USE DEF Inv, TypeOK, LiveInv, Goto
<1>1. CASE UNCHANGED vars
  BY <1>1 DEF vars
<1>2. ASSUME NEW t \in Thread, Alloc(t) \/ Lock(t) PROVE LiveInv'
  BY <1>2 DEF Alloc, Lock
<1>3. ASSUME NEW t \in Thread, Fail(t) \/ Skip(t) PROVE LiveInv'
  BY <1>3 DEF Fail, Skip, Advance
<1>4. ASSUME NEW t \in Thread, Found(t) PROVE LiveInv'
  <2>1. \A p \in granted : p # allocated
    BY PageAllocatorAssumption DEF GrantInv
  <2>2. /\ granted' = granted \cup {allocated} /\ live' = live
        /\ start' = [start EXCEPT ![t] = allocated]
        /\ pc' = [pc EXCEPT ![t] = "return"]
    BY <1>4 DEF Found, Advance
  <2> QED BY <2>1, <2>2
<1>5. ASSUME NEW t \in Thread, Return(t) PROVE LiveInv'
  <2>1. \A u \in Thread : u # t => pc[u] # "return"
    BY <1>5 DEF Return, MutualExclusion, Holding
  <2> QED BY <1>5, <2>1 DEF Return
<1>6. ASSUME NEW t \in Thread, NEW p \in live[t], Dealloc(t, p) PROVE LiveInv'
  BY <1>6 DEF Dealloc
<1> QED BY <1>1, <1>2, <1>3, <1>4, <1>5, <1>6 DEF Next, Step, Done

\* The invariant holds in every reachable state.
THEOREM Invariant == Spec => []Inv
<1>1. Inv /\ [Next]_vars => Inv'
  BY TypeNext, MutualExclusionNext, GrantNext, LiveNext DEF Inv
<1> QED BY InitInv, <1>1, PTL DEF Spec

\* Type correctness of the allocator.
THEOREM TypeCorrect == Spec => []TypeOK
  BY Invariant, PTL DEF Inv

\* The mutex excludes: one thread at most is inside alloc's loop.
THEOREM Exclusion == Spec => []MutualExclusion
  BY Invariant, PTL DEF Inv

\* Two live pages never share a byte.
THEOREM LiveDisjoint == Spec => []LivePagesDisjoint
<1>1. Inv => LivePagesDisjoint
  <2> SUFFICES ASSUME Inv, NEW t \in Thread, NEW u \in Thread,
                      NEW p \in live[t], NEW q \in live[u],
                      Overlap(Page(p), Page(q))
               PROVE  t = u /\ p = q
    BY DEF LivePagesDisjoint
  <2>1. p \in granted /\ q \in granted /\ p \in Nat /\ q \in Nat
    BY DEF Inv, TypeOK, LiveInv
  <2>2. p = q
    BY <2>1, PageAllocatorAssumption DEF Inv, GrantInv, Overlap, Page, Bytes
  <2> QED BY <2>2 DEF Inv, LiveInv
<1> QED BY <1>1, Invariant, PTL

\* The cursor never moves back, a page is granted at most once, and Err is final.
THEOREM CursorTheorem == Spec => CursorMonotonic
<1> DEFINE Up == /\ allocated' >= allocated
                 /\ \A p \in granted' \ granted : p >= allocated
                 /\ allocated > Capacity => granted' = granted
<1>1. Inv /\ [Next]_vars => [Up]_vars
  <2> SUFFICES ASSUME TypeOK, Next PROVE Up
    BY DEF Inv, vars
  <2> USE PageAllocatorAssumption DEF TypeOK
  <2>1. ASSUME NEW t \in Thread, Found(t) \/ Fail(t) \/ Skip(t) PROVE Up
    BY <2>1 DEF Found, Fail, Skip, Advance
  <2>2. ASSUME UNCHANGED <<allocated, granted>> PROVE Up
    BY <2>2
  <2>3. ASSUME NEW t \in Thread,
               Alloc(t) \/ Lock(t) \/ Return(t) \/ (\E p \in live[t] : Dealloc(t, p))
        PROVE  UNCHANGED <<allocated, granted>>
    BY <2>3 DEF Alloc, Lock, Return, Dealloc
  <2> QED BY <2>1, <2>2, <2>3 DEF Next, Step, Done, vars
<1> QED BY <1>1, Invariant, PTL DEF Spec, CursorMonotonic

-------------------------------------------------------------------------------
\* Multiples of the page size are ordered as their factors are.
LEMMA MultipleOrder ==
  ASSUME NEW m \in Nat, NEW n \in Nat
  PROVE  /\ n * PageSize \in Nat
         /\ (m + 1) * PageSize = m * PageSize + PageSize
         /\ m < n => m * PageSize < n * PageSize
         /\ m * PageSize < n * PageSize => m < n
<1> USE PageAllocatorAssumption
<1>1. n * PageSize \in Nat /\ (m + 1) * PageSize = m * PageSize + PageSize
  OBVIOUS
<1>2. ASSUME m < n PROVE m * PageSize < n * PageSize
  <2>1. n * PageSize = m * PageSize + (n - m) * PageSize
    OBVIOUS
  <2>2. (n - m) * PageSize > 0
    BY <1>2
  <2> QED BY <2>1, <2>2
<1>3. ASSUME n <= m PROVE ~ (m * PageSize < n * PageSize)
  <2>1. m * PageSize = n * PageSize + (m - n) * PageSize
    OBVIOUS
  <2>2. (m - n) * PageSize >= 0
    BY <1>3
  <2> QED BY <2>1, <2>2
<1> QED BY <1>1, <1>2, <1>3

\* The cursor visits every page and passes over the unusable ones only.
LEMMA WasteNext == Inv /\ WasteInv /\ [Next]_vars => WasteInv'
<1> SUFFICES ASSUME TypeOK, WasteInv, [Next]_vars PROVE WasteInv'
  BY DEF Inv
<1> USE PageAllocatorAssumption DEF TypeOK
<1>1. ASSUME UNCHANGED <<allocated, granted, reserved>> PROVE WasteInv'
  BY <1>1 DEF WasteInv, Usable
<1>2. ASSUME NEW t \in Thread,
             \/ Alloc(t) \/ Lock(t) \/ Return(t)
             \/ \E p \in live[t] : Dealloc(t, p)
      PROVE  UNCHANGED <<allocated, granted, reserved>>
  BY <1>2 DEF Alloc, Lock, Return, Dealloc
<1>3. ASSUME NEW t \in Thread, Found(t) \/ Fail(t) \/ Skip(t) PROVE WasteInv'
  <2>1. PICK k \in Nat :
          /\ allocated = k * PageSize
          /\ \A n \in Nat :
               n < k /\ n * PageSize + PageSize <= Capacity /\ Usable(n * PageSize) =>
                 n * PageSize \in granted
    BY DEF WasteInv
  <2>2. /\ allocated' = allocated + PageSize
        /\ reserved' = reserved
        /\ granted \subseteq granted'
        /\ allocated' <= Capacity /\ Usable(allocated) => allocated \in granted'
    BY <1>3 DEF Found, Fail, Skip, Advance
  <2>3. allocated' = (k + 1) * PageSize
    BY <2>1, <2>2, MultipleOrder
  <2>4. ASSUME NEW n \in Nat, n < k + 1, n * PageSize + PageSize <= Capacity,
               Usable(n * PageSize)'
        PROVE  n * PageSize \in granted'
    <3>1. Usable(n * PageSize)
      BY <2>2, <2>4 DEF Usable
    <3>2. CASE n < k
      BY <2>1, <2>2, <2>4, <3>1, <3>2
    <3>3. CASE n = k
      BY <2>1, <2>2, <2>4, <3>1, <3>3
    <3> QED BY <2>4, <3>2, <3>3
  <2>5. k + 1 \in Nat
    OBVIOUS
  <2> QED BY <2>3, <2>4, <2>5, Zenon DEF WasteInv
<1> QED BY <1>1, <1>2, <1>3 DEF Next, Step, Done, vars

\* The cursor of a fresh allocator has passed nothing.
LEMMA WasteInit == Init => WasteInv
<1> SUFFICES ASSUME Init PROVE WasteInv
  OBVIOUS
<1>1. allocated = 0 * PageSize
  BY PageAllocatorAssumption DEF Init
<1>2. \A n \in Nat : ~ (n < 0)
  OBVIOUS
<1> USE DEF WasteInv
<1> WITNESS 0 \in Nat
<1> QED BY <1>1, <1>2

\* Nothing usable is passed over: the allocator fails only when memory is full.
THEOREM NothingIsWasted == Spec => []NothingWasted
<1>1. Inv /\ WasteInv => NothingWasted
  <2> SUFFICES ASSUME Inv, WasteInv, NEW n \in 0 .. Capacity,
                      n * PageSize < allocated,
                      n * PageSize + PageSize <= Capacity,
                      \A r \in reserved : ~Overlap(Page(n * PageSize), r)
               PROVE  n * PageSize \in granted
    BY DEF NothingWasted
  <2>1. PICK k \in Nat :
          /\ allocated = k * PageSize
          /\ \A m \in Nat :
               m < k /\ m * PageSize + PageSize <= Capacity /\ Usable(m * PageSize) =>
                 m * PageSize \in granted
    BY DEF WasteInv
  <2>2. n \in Nat /\ n * PageSize \in Nat /\ n < k
    BY <2>1, MultipleOrder, PageAllocatorAssumption
  <2>3. Usable(n * PageSize)
    BY <2>2, IntersectsIsOverlap DEF Usable, Inv, TypeOK
  <2> QED BY <2>1, <2>2, <2>3
<1> QED BY <1>1, WasteInit, WasteNext, Invariant, PTL DEF Spec

-------------------------------------------------------------------------------
\* Every page handed out came off the cursor, which is a multiple of the page size.
AlignInv == \A p \in granted : Aligned(p)

LEMMA AlignNext == Inv /\ WasteInv /\ AlignInv /\ [Next]_vars => AlignInv'
<1> SUFFICES ASSUME TypeOK, WasteInv, AlignInv, [Next]_vars PROVE AlignInv'
  BY DEF Inv
<1>1. PICK k \in Nat : allocated = k * PageSize
  BY DEF WasteInv
<1>2. Aligned(allocated)
  <2>1. allocated >= k /\ allocated \in Nat
    <3>1. k * PageSize = k + k * (PageSize - 1) /\ k * (PageSize - 1) \in Nat
      BY PageAllocatorAssumption
    <3> QED BY <1>1, <3>1
  <2>2. k \in 0 .. allocated
    BY <2>1
  <2> QED BY <1>1, <2>2 DEF Aligned
<1>3. granted' \subseteq granted \cup {allocated}
  <2>1. ASSUME NEW t \in Thread, Found(t) \/ Fail(t) \/ Skip(t)
        PROVE  granted' \subseteq granted \cup {allocated}
    BY <2>1 DEF Found, Fail, Skip, Advance
  <2>2. ASSUME NEW t \in Thread,
               Alloc(t) \/ Lock(t) \/ Return(t) \/ (\E p \in live[t] : Dealloc(t, p))
        PROVE  granted' \subseteq granted \cup {allocated}
    BY <2>2 DEF Alloc, Lock, Return, Dealloc
  <2>3. CASE UNCHANGED vars
    BY <2>3 DEF vars
  <2> QED BY <2>1, <2>2, <2>3 DEF Next, Step, Done, vars
<1> QED BY <1>2, <1>3 DEF AlignInv, Aligned

\* alloc() returns whole pages on page boundaries, never reserved memory nor
\* memory beyond the capacity.
THEOREM GrantsSafe == Spec => []GrantsAreSafe
<1>1. Init => AlignInv
  BY DEF Init, AlignInv
<1>2. Inv /\ AlignInv => GrantsAreSafe
  BY IntersectsIsOverlap DEF Inv, TypeOK, GrantInv, GrantsAreSafe, AlignInv, Usable
<1> QED BY <1>1, <1>2, WasteInit, WasteNext, AlignNext, Invariant, PTL DEF Spec
===============================================================================
