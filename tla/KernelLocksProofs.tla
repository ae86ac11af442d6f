--------------------------- MODULE KernelLocksProofs --------------------------
(***************************************************************************)
(* Proofs about KernelLocks, for any number of kernel threads.             *)
(*                                                                         *)
(* A piece of code is typed by what holds before and after it: the locks   *)
(* that its task holds, whether it has interrupts masked and how many      *)
(* threads it has created.  The types of pieces compose the way the code   *)
(* does, and the typing of the whole code of a task says at every          *)
(* operation what the invariant needs to know of it.                       *)
(***************************************************************************)
EXTENDS KernelLocks, SequenceTheorems, Iteration

\* The locks that the interrupt handler takes whenever it runs.  (schedule() takes
\* the heap's as well when it has to grow the queue.)
HandlerLocks == {"INSTALLED_TABLE", "InterruptRouter", "InterruptController", "Scheduler", "Timer"}

Op == [op : {"lock", "unlock", "mask", "unmask", "spawn", "switch"}, l : LockId \cup {"none"}]

\* Where code can be: the locks held, whether interrupts are masked, and the
\* threads created.
At(h, m, k) == [held |-> h, mode |-> m, spawned |-> k]

\* Who may take which locks with interrupts unmasked, and which with interrupts
\* masked; no code holds a lock of the handler while it can be interrupted.
Places(e) ==
  {x \in [held : SUBSET (e.open \cup e.masked), mode : {"open", "masked"}, spawned : 0 .. Len(Kthreads)] :
     x.mode = "open" => x.held \cap HandlerLocks = {}}

\* The operation o takes its code from x to y.
Fits(e, o, x, y) ==
  \/ /\ o.op = "lock" /\ o.l \in LockId /\ o.l \notin x.held
     /\ o.l \in IF x.mode = "open" THEN e.open ELSE e.masked
     /\ y = At(x.held \cup {o.l}, x.mode, x.spawned)
  \/ /\ o.op = "unlock" /\ o.l \in LockId /\ o.l \in x.held
     /\ y = At(x.held \ {o.l}, x.mode, x.spawned)
  \/ o.op = "mask" /\ y = At(x.held, "masked", x.spawned)
  \/ o.op = "unmask" /\ y = At(x.held, "open", x.spawned)
  \/ o.op = "spawn" /\ e.who = "kinit" /\ y = At(x.held, x.mode, x.spawned + 1)
  \/ o.op = "switch" /\ e.who = "irq" /\ y = x

Annotates(e, s, a, x, y) ==
  /\ a \in [0 .. Len(s) -> Places(e)]
  /\ a[0] = x /\ a[Len(s)] = y
  /\ \A i \in 1 .. Len(s) : Fits(e, s[i], a[i - 1], a[i])

Typed(e, s, x, y) == s \in Seq(Op) /\ \E a : Annotates(e, s, a, x, y)

-------------------------------------------------------------------------------
(***************************************************************************)
(* How the types of pieces compose.                                        *)
(***************************************************************************)
LEMMA EmptyTyped ==
  ASSUME NEW e, NEW x \in Places(e)
  PROVE  Typed(e, <<>>, x, x)
<1> DEFINE a == [i \in 0 .. 0 |-> x]
<1>1. <<>> \in Seq(Op) /\ Len(<<>>) = 0
  OBVIOUS
<1>2. a \in [0 .. 0 -> Places(e)] /\ a[0] = x
  OBVIOUS
<1> HIDE DEF a
<1>3. Annotates(e, <<>>, a, x, x)
  BY <1>1, <1>2 DEF Annotates
<1> QED BY <1>1, <1>3 DEF Typed

LEMMA OneTyped ==
  ASSUME NEW e, NEW o \in Op, NEW x \in Places(e), NEW y \in Places(e), Fits(e, o, x, y)
  PROVE  Typed(e, <<o>>, x, y)
<1> DEFINE s == <<o>>
           a == [i \in 0 .. 1 |-> IF i = 0 THEN x ELSE y]
<1>1. s \in Seq(Op) /\ Len(s) = 1 /\ s[1] = o
  OBVIOUS
<1>2. a \in [0 .. 1 -> Places(e)] /\ a[0] = x /\ a[1] = y
  OBVIOUS
<1> HIDE DEF a, s
<1>3. \A i \in 1 .. 1 : Fits(e, s[i], a[i - 1], a[i])
  <2> SUFFICES ASSUME NEW i \in 1 .. 1 PROVE Fits(e, s[i], a[i - 1], a[i])
    OBVIOUS
  <2>1. i = 1 /\ i - 1 = 0
    OBVIOUS
  <2> QED BY <1>1, <1>2, <2>1
<1>4. Annotates(e, s, a, x, y)
  BY <1>1, <1>2, <1>3 DEF Annotates
<1> QED BY <1>1, <1>4 DEF Typed, s

LEMMA ConcatTyped ==
  ASSUME NEW e, NEW s, NEW r, NEW x, NEW y, NEW z, Typed(e, s, x, y), Typed(e, r, y, z)
  PROVE  Typed(e, s \o r, x, z)
<1>1. PICK a : Annotates(e, s, a, x, y)
  BY DEF Typed
<1>2. PICK b : Annotates(e, r, b, y, z)
  BY DEF Typed
<1>3. s \in Seq(Op) /\ r \in Seq(Op)
  BY DEF Typed
<1> DEFINE q == s \o r
           m == Len(s)
           n == Len(r)
           c == [i \in 0 .. m + n |-> IF i <= m THEN a[i] ELSE b[i - m]]
<1>4. /\ q \in Seq(Op) /\ Len(q) = m + n /\ m \in Nat /\ n \in Nat
      /\ \A i \in 1 .. m + n : q[i] = IF i <= m THEN s[i] ELSE r[i - m]
  BY <1>3, ConcatProperties, LenProperties
<1>5. /\ a \in [0 .. m -> Places(e)] /\ a[0] = x /\ a[m] = y
      /\ b \in [0 .. n -> Places(e)] /\ b[0] = y /\ b[n] = z
      /\ \A i \in 1 .. m : Fits(e, s[i], a[i - 1], a[i])
      /\ \A i \in 1 .. n : Fits(e, r[i], b[i - 1], b[i])
  BY <1>1, <1>2 DEF Annotates
<1> HIDE DEF q, m, n
<1>6. c \in [0 .. m + n -> Places(e)]
  <2>1. \A i \in 0 .. m + n : (i <= m => i \in 0 .. m) /\ (i > m => i - m \in 0 .. n)
    BY <1>4
  <2> QED BY <1>4, <1>5, <2>1
<1>7. \A i \in 0 .. m + n : c[i] = IF i <= m THEN a[i] ELSE b[i - m]
  OBVIOUS
<1> HIDE DEF c
<1>8. c[0] = x /\ c[m + n] = z
  <2>1. c[0] = x
    BY <1>4, <1>5, <1>7
  <2>2. CASE n = 0
    BY <1>4, <1>5, <1>7, <2>2
  <2>3. CASE n # 0
    <3>1. m + n \in 0 .. m + n /\ ~(m + n <= m) /\ (m + n) - m = n
      BY <1>4, <2>3
    <3> QED BY <1>5, <1>7, <2>1, <3>1
  <2> QED BY <2>1, <2>2, <2>3
<1>9. ASSUME NEW i \in 1 .. m + n PROVE Fits(e, q[i], c[i - 1], c[i])
  <2>1. CASE i <= m
    <3>1. i \in 1 .. m /\ i - 1 \in 0 .. m + n /\ i \in 0 .. m + n /\ i - 1 <= m
      BY <1>4, <2>1
    <3>2. q[i] = s[i] /\ c[i - 1] = a[i - 1] /\ c[i] = a[i]
      BY <1>4, <1>7, <2>1, <3>1
    <3> QED BY <1>5, <3>1, <3>2
  <2>2. CASE i > m
    <3>1. /\ i - m \in 1 .. n /\ i - 1 \in 0 .. m + n /\ i \in 0 .. m + n /\ (i - m) - 1 = (i - 1) - m
          /\ ~(i <= m)
      BY <1>4, <2>2
    <3>2. q[i] = r[i - m] /\ c[i] = b[i - m]
      BY <1>4, <1>7, <3>1
    <3>3. c[i - 1] = b[(i - m) - 1]
      <4>1. CASE i - 1 = m
        <5>1. (i - m) - 1 = 0 /\ c[i - 1] = a[m]
          BY <1>4, <1>7, <3>1, <4>1
        <5> QED BY <1>5, <5>1
      <4>2. CASE i - 1 # m
        BY <1>4, <1>7, <2>2, <3>1, <4>2
      <4> QED BY <4>1, <4>2
    <3> QED BY <1>5, <3>1, <3>2, <3>3
  <2> QED BY <1>4, <2>1, <2>2
<1>10. Annotates(e, q, c, x, z)
  BY <1>4, <1>6, <1>8, <1>9 DEF Annotates
<1> QED BY <1>4, <1>10 DEF Typed, q

-------------------------------------------------------------------------------
(***************************************************************************)
(* The types of locks and critical sections.                               *)
(***************************************************************************)
\* A lock that code may take where it is.
MayTake(e, h, m, l) ==
  /\ l \in LockId /\ l \notin h /\ l \in IF m = "open" THEN e.open ELSE e.masked
  /\ m = "open" => l \notin HandlerLocks

LEMMA PlaceFacts ==
  ASSUME NEW e, NEW h, NEW m, NEW k
  PROVE  /\ At(h, m, k).held = h /\ At(h, m, k).mode = m /\ At(h, m, k).spawned = k
         /\ At(h, m, k) \in Places(e) <=>
              /\ h \subseteq e.open \cup e.masked /\ m \in {"open", "masked"} /\ k \in 0 .. Len(Kthreads)
              /\ m = "open" => h \cap HandlerLocks = {}
BY DEF At, Places

LEMMA LockTyped ==
  ASSUME NEW e, NEW h, NEW m, NEW k, NEW l, At(h, m, k) \in Places(e), MayTake(e, h, m, l)
  PROVE  /\ At(h \cup {l}, m, k) \in Places(e)
         /\ Typed(e, <<Acq(l)>>, At(h, m, k), At(h \cup {l}, m, k))
         /\ Typed(e, <<Rel(l)>>, At(h \cup {l}, m, k), At(h, m, k))
<1>1. l \in LockId /\ l \notin h
  BY DEF MayTake
<1>2. At(h \cup {l}, m, k) \in Places(e)
  BY PlaceFacts DEF MayTake
<1>3. Acq(l) \in Op /\ Acq(l).op = "lock" /\ Acq(l).l = l
  BY <1>1 DEF Acq, Op
<1>4. Rel(l) \in Op /\ Rel(l).op = "unlock" /\ Rel(l).l = l
  BY <1>1 DEF Rel, Op
<1>5. Fits(e, Acq(l), At(h, m, k), At(h \cup {l}, m, k))
  <2> DEFINE x == At(h, m, k)
  <2>1. x.held = h /\ x.mode = m /\ x.spawned = k
    BY PlaceFacts
  <2> HIDE DEF x
  <2>2. At(h \cup {l}, m, k) = At(x.held \cup {l}, x.mode, x.spawned)
    BY <2>1
  <2>3. l \in IF x.mode = "open" THEN e.open ELSE e.masked
    BY <2>1 DEF MayTake
  <2>4. Fits(e, Acq(l), x, At(h \cup {l}, m, k))
    BY <1>1, <1>3, <2>1, <2>2, <2>3 DEF Fits
  <2> QED BY <2>4 DEF x
<1>6. (h \cup {l}) \ {l} = h
  BY <1>1
<1>7. Fits(e, Rel(l), At(h \cup {l}, m, k), At(h, m, k))
  <2> DEFINE x == At(h \cup {l}, m, k)
  <2>1. x.held = h \cup {l} /\ x.mode = m /\ x.spawned = k
    BY PlaceFacts
  <2> HIDE DEF x
  <2>2. At(h, m, k) = At(x.held \ {l}, x.mode, x.spawned)
    BY <1>6, <2>1
  <2>3. Fits(e, Rel(l), x, At(h, m, k))
    BY <1>1, <1>4, <2>1, <2>2 DEF Fits
  <2> QED BY <2>3 DEF x
<1> QED BY <1>2, <1>3, <1>4, <1>5, <1>7, OneTyped

LEMMA MaskTyped ==
  ASSUME NEW e, NEW h, NEW k, At(h, "open", k) \in Places(e)
  PROVE  /\ At(h, "masked", k) \in Places(e)
         /\ Typed(e, <<Mask>>, At(h, "open", k), At(h, "masked", k))
         /\ Typed(e, <<Unmask>>, At(h, "masked", k), At(h, "open", k))
<1>1. At(h, "masked", k) \in Places(e)
  BY PlaceFacts
<1>2. Mask \in Op /\ Mask.op = "mask" /\ Unmask \in Op /\ Unmask.op = "unmask"
  BY DEF Mask, Unmask, Op
<1>3. Fits(e, Mask, At(h, "open", k), At(h, "masked", k))
      /\ Fits(e, Unmask, At(h, "masked", k), At(h, "open", k))
  BY <1>2, PlaceFacts DEF Fits
<1> QED BY <1>1, <1>2, <1>3, OneTyped

LEMMA HoldingTyped ==
  ASSUME NEW e, NEW h, NEW m, NEW k, NEW l, At(h, m, k) \in Places(e), MayTake(e, h, m, l),
         NEW body, Typed(e, body, At(h \cup {l}, m, k), At(h \cup {l}, m, k))
  PROVE  Typed(e, Holding(l, body), At(h, m, k), At(h, m, k))
<1>1. /\ Typed(e, <<Acq(l)>>, At(h, m, k), At(h \cup {l}, m, k))
      /\ Typed(e, <<Rel(l)>>, At(h \cup {l}, m, k), At(h, m, k))
  BY LockTyped
<1>2. Typed(e, <<Acq(l)>> \o body, At(h, m, k), At(h \cup {l}, m, k))
  BY <1>1, ConcatTyped
<1>3. Typed(e, (<<Acq(l)>> \o body) \o <<Rel(l)>>, At(h, m, k), At(h, m, k))
  BY <1>1, <1>2, ConcatTyped
<1> QED BY <1>3 DEF Holding

LEMMA SectionTyped ==
  ASSUME NEW e, NEW h, NEW m, NEW k, NEW l, At(h, m, k) \in Places(e), MayTake(e, h, m, l)
  PROVE  Typed(e, Section(l), At(h, m, k), At(h, m, k))
<1>1. Typed(e, <<>>, At(h \cup {l}, m, k), At(h \cup {l}, m, k))
  BY LockTyped, EmptyTyped
<1> QED BY <1>1, HoldingTyped DEF Section

LEMMA CriticalTyped ==
  ASSUME NEW e, NEW h, NEW k, NEW n, NEW l, At(h, "open", k) \in Places(e), At(h, "open", n) \in Places(e),
         MayTake(e, h, "masked", l),
         NEW body, Typed(e, body, At(h \cup {l}, "masked", k), At(h \cup {l}, "masked", n))
  PROVE  Typed(e, Critical(l, body), At(h, "open", k), At(h, "open", n))
<1>1. At(h, "masked", k) \in Places(e) /\ At(h, "masked", n) \in Places(e)
  BY MaskTyped
<1>2. Typed(e, <<Mask>> \o <<Acq(l)>>, At(h, "open", k), At(h \cup {l}, "masked", k))
  BY <1>1, MaskTyped, LockTyped, ConcatTyped
<1>3. Typed(e, <<Rel(l)>> \o <<Unmask>>, At(h \cup {l}, "masked", n), At(h, "open", n))
  BY <1>1, MaskTyped, LockTyped, ConcatTyped
<1>4. ASSUME NEW o, NEW p PROVE <<o>> \o <<p>> = <<o, p>>
  <2> DEFINE S == {o, p}
  <2>1. <<o>> \in Seq(S) /\ <<p>> \in Seq(S) /\ <<o, p>> \in Seq(S)
    OBVIOUS
  <2>2. /\ Len(<<o>>) = 1 /\ Len(<<p>>) = 1 /\ Len(<<o, p>>) = 2
        /\ <<o>>[1] = o /\ <<p>>[1] = p /\ <<o, p>>[1] = o /\ <<o, p>>[2] = p
    OBVIOUS
  <2>3. /\ <<o>> \o <<p>> \in Seq(S) /\ Len(<<o>> \o <<p>>) = 2
        /\ \A i \in 1 .. 2 : (<<o>> \o <<p>>)[i] = IF i <= 1 THEN <<o>>[i] ELSE <<p>>[i - 1]
    BY <2>1, <2>2, ConcatProperties
  <2>4. (<<o>> \o <<p>>)[1] = o /\ (<<o>> \o <<p>>)[2] = p
    BY <2>2, <2>3
  <2>5. \A i \in 1 .. 2 : (<<o>> \o <<p>>)[i] = <<o, p>>[i]
    BY <2>2, <2>4
  <2> HIDE DEF S
  <2> QED BY <2>1, <2>2, <2>3, <2>5, SeqEqual
<1>5. Typed(e, <<Mask, Acq(l)>>, At(h, "open", k), At(h \cup {l}, "masked", k))
  BY <1>2, <1>4
<1>6. Typed(e, <<Rel(l), Unmask>>, At(h \cup {l}, "masked", n), At(h, "open", n))
  BY <1>3, <1>4
<1>7. Typed(e, <<Mask, Acq(l)>> \o body, At(h, "open", k), At(h \cup {l}, "masked", n))
  BY <1>5, ConcatTyped
<1>8. Typed(e, (<<Mask, Acq(l)>> \o body) \o <<Rel(l), Unmask>>, At(h, "open", k), At(h, "open", n))
  BY <1>6, <1>7, ConcatTyped
<1> QED BY <1>8 DEF Critical

-------------------------------------------------------------------------------
(***************************************************************************)
(* The types of the code of tasks.                                         *)
(***************************************************************************)
\* A task takes the handler's locks with interrupts masked and all others with
\* interrupts unmasked; Allocates tells whether it takes the heap's lock.
TaskLocks(e) ==
  /\ e.open \subseteq LockId \ HandlerLocks
  /\ LockId \ (HandlerLocks \cup {"ALLOCATOR"}) \subseteq e.open
  /\ HandlerLocks \subseteq e.masked

Allocates(e) == "ALLOCATOR" \in e.open \cap e.masked

LEMMA LocksDiffer ==
  /\ {"SCHEDULER", "DEVICE", "MONOTONIC", "Serial", "PageAllocator", "MemoryContext", "mounts",
      "directories", "files", "position"} \subseteq LockId \ (HandlerLocks \cup {"ALLOCATOR"})
  /\ "ALLOCATOR" \in LockId \ HandlerLocks
  /\ HandlerLocks \subseteq LockId
BY DEF LockId, HandlerLocks

LEMMA TaskMayTake ==
  ASSUME NEW e, TaskLocks(e), NEW h, NEW l, l \notin h
  PROVE  /\ l \in LockId \ (HandlerLocks \cup {"ALLOCATOR"}) => MayTake(e, h, "open", l)
         /\ l \in HandlerLocks => MayTake(e, h, "masked", l)
BY LocksDiffer DEF TaskLocks, MayTake

LEMMA MayAllocate ==
  ASSUME NEW e, TaskLocks(e), Allocates(e), NEW h, "ALLOCATOR" \notin h, NEW m \in {"open", "masked"}
  PROVE  MayTake(e, h, m, "ALLOCATOR")
BY LocksDiffer DEF Allocates, MayTake

LEMMA AllocTyped ==
  ASSUME NEW e, TaskLocks(e), Allocates(e), NEW h, "ALLOCATOR" \notin h, NEW m \in {"open", "masked"},
         NEW k, At(h, m, k) \in Places(e)
  PROVE  Typed(e, Alloc, At(h, m, k), At(h, m, k))
BY MayAllocate, SectionTyped DEF Alloc

LEMMA CurrentTaskTyped ==
  ASSUME NEW e, TaskLocks(e), NEW k, At({}, "open", k) \in Places(e)
  PROVE  Typed(e, CurrentTask, At({}, "open", k), At({}, "open", k))
<1> DEFINE x == At({}, "open", k)
<1>1. MayTake(e, {}, "open", "SCHEDULER")
  BY LocksDiffer, TaskMayTake
<1>2. Typed(e, Section("SCHEDULER"), x, x)
  BY <1>1, SectionTyped
<1>3. MayTake(e, {}, "masked", "Scheduler")
  BY TaskMayTake DEF HandlerLocks
<1>4. At({} \cup {"Scheduler"}, "masked", k) \in Places(e)
  BY <1>3, MaskTyped, LockTyped
<1>5. Typed(e, Critical("Scheduler", <<>>), x, x)
  BY <1>3, <1>4, EmptyTyped, CriticalTyped
<1> HIDE DEF x
<1>6. Typed(e, Section("SCHEDULER") \o Critical("Scheduler", <<>>), x, x)
  BY <1>2, <1>5, ConcatTyped
<1>7. Typed(e, Section("SCHEDULER") \o Critical("Scheduler", <<>>) \o Critical("Scheduler", <<>>), x, x)
  BY <1>5, <1>6, ConcatTyped
<1> QED BY <1>7 DEF CurrentTask, x

LEMMA WriteTyped ==
  ASSUME NEW e, TaskLocks(e), NEW k, At({}, "open", k) \in Places(e)
  PROVE  /\ Typed(e, Write, At({}, "open", k), At({}, "open", k))
         /\ Typed(e, Println, At({}, "open", k), At({}, "open", k))
<1> DEFINE x == At({}, "open", k)
<1>1. /\ MayTake(e, {}, "open", "DEVICE") /\ MayTake(e, {}, "open", "Serial")
      /\ MayTake(e, {}, "open", "MONOTONIC")
  BY LocksDiffer, TaskMayTake
<1>2. Typed(e, Section("DEVICE"), x, x) /\ Typed(e, Section("Serial"), x, x) /\ Typed(e, Section("MONOTONIC"), x, x)
  BY <1>1, SectionTyped
<1> HIDE DEF x
<1>3. Typed(e, Write, x, x)
  BY <1>2, ConcatTyped DEF Write
<1>4. Typed(e, Section("MONOTONIC") \o Write, x, x)
  BY <1>2, <1>3, ConcatTyped
<1>5. Typed(e, Println, x, x)
  BY <1>3, <1>4, ConcatTyped DEF Println
<1> QED BY <1>3, <1>5 DEF x

LEMMA AllocPageTyped ==
  ASSUME NEW e, TaskLocks(e), Allocates(e), NEW k, At({}, "open", k) \in Places(e)
  PROVE  /\ Typed(e, Section("PageAllocator"), At({}, "open", k), At({}, "open", k))
         /\ Typed(e, AllocPage, At({}, "open", k), At({}, "open", k))
<1> DEFINE h == {} \cup {"MemoryContext"}
           x == At(h, "open", k)
<1>1. MayTake(e, {}, "open", "MemoryContext") /\ MayTake(e, {}, "open", "PageAllocator")
  BY LocksDiffer, TaskMayTake
<1>2. "PageAllocator" \notin h /\ "ALLOCATOR" \notin h
  OBVIOUS
<1> HIDE DEF h
<1>3. MayTake(e, h, "open", "PageAllocator")
  BY <1>2, LocksDiffer, TaskMayTake
<1>4. x \in Places(e)
  BY <1>1, LockTyped DEF h
<1>5. Typed(e, Section("PageAllocator"), x, x)
  BY <1>3, <1>4, SectionTyped
<1>6. Typed(e, Alloc, x, x)
  BY <1>2, <1>4, AllocTyped
<1>7. Typed(e, Section("PageAllocator") \o Alloc, x, x)
  BY <1>5, <1>6, ConcatTyped
<1>8. Typed(e, AllocPage, At({}, "open", k), At({}, "open", k))
  BY <1>1, <1>7, HoldingTyped DEF AllocPage, h
<1> QED BY <1>1, <1>8, SectionTyped

\* The insertion into the scheduler's collections, under its lock.
LEMMA InsertTyped ==
  ASSUME NEW e, e.who = "kinit", TaskLocks(e), Allocates(e), NEW k \in Nat, k < Len(Kthreads)
  PROVE  Typed(e, Critical("Scheduler", Alloc \o <<Spawn>>), At({}, "open", k), At({}, "open", k + 1))
<1> DEFINE h == {} \cup {"Scheduler"}
<1>1. Len(Kthreads) \in Nat
  BY KernelLocksAssumption
<1>2. MayTake(e, {}, "masked", "Scheduler")
  BY TaskMayTake DEF HandlerLocks
<1>3. At({}, "open", k) \in Places(e) /\ At({}, "open", k + 1) \in Places(e)
  BY <1>1, PlaceFacts
<1>4. "ALLOCATOR" \notin h
  OBVIOUS
<1>5. At(h, "masked", k) \in Places(e) /\ At(h, "masked", k + 1) \in Places(e)
  BY <1>2, <1>3, MaskTyped, LockTyped
<1>6. Typed(e, Alloc, At(h, "masked", k), At(h, "masked", k))
  BY <1>4, <1>5, AllocTyped
<1>7. Spawn \in Op /\ Fits(e, Spawn, At(h, "masked", k), At(h, "masked", k + 1))
  BY PlaceFacts DEF Spawn, Op, Fits
<1>8. Typed(e, Alloc \o <<Spawn>>, At(h, "masked", k), At(h, "masked", k + 1))
  BY <1>5, <1>6, <1>7, OneTyped, ConcatTyped
<1> HIDE DEF h
<1>9. Typed(e, Alloc \o <<Spawn>>, At({} \cup {"Scheduler"}, "masked", k), At({} \cup {"Scheduler"}, "masked", k + 1))
  BY <1>8 DEF h
<1> QED BY <1>2, <1>3, <1>9, CriticalTyped

LEMMA CreateKthreadTyped ==
  ASSUME NEW e, e.who = "kinit", TaskLocks(e), Allocates(e), NEW k \in Nat, k < Len(Kthreads)
  PROVE  Typed(e, CreateKthread, At({}, "open", k), At({}, "open", k + 1))
<1> DEFINE x == At({}, "open", k)
           y == At({}, "open", k + 1)
<1>1. x \in Places(e)
  BY PlaceFacts, KernelLocksAssumption
<1>2. Typed(e, Section("PageAllocator"), x, x) /\ Typed(e, AllocPage, x, x) /\ Typed(e, Alloc, x, x)
  BY <1>1, AllocPageTyped, AllocTyped
<1>3. Typed(e, Critical("Scheduler", Alloc \o <<Spawn>>), x, y)
  BY InsertTyped
<1> HIDE DEF x, y
<1>4. Typed(e, Section("PageAllocator") \o AllocPage, x, x)
  BY <1>2, ConcatTyped
<1>5. Typed(e, Section("PageAllocator") \o AllocPage \o Alloc, x, x)
  BY <1>2, <1>4, ConcatTyped
<1>6. Typed(e, CreateKthread, x, y)
  BY <1>3, <1>5, ConcatTyped DEF CreateKthread
<1> QED BY <1>6 DEF x, y

\* The reads of the file, whose position is locked around its tables.
LEMMA FileTyped ==
  ASSUME NEW e, TaskLocks(e), Allocates(e), NEW k, At({}, "open", k) \in Places(e)
  PROVE  /\ Typed(e, Holding("position", Section("directories")), At({}, "open", k), At({}, "open", k))
         /\ Typed(e, Holding("position", Holding("files", Alloc)), At({}, "open", k), At({}, "open", k))
<1> DEFINE h == {} \cup {"position"}
           g == h \cup {"files"}
<1>1. MayTake(e, {}, "open", "position")
  BY LocksDiffer, TaskMayTake
<1>2. "directories" \notin h /\ "files" \notin h /\ "ALLOCATOR" \notin g
  OBVIOUS
<1>3. At(h, "open", k) \in Places(e)
  BY <1>1, LockTyped
<1> HIDE DEF h
<1>4. MayTake(e, h, "open", "directories") /\ MayTake(e, h, "open", "files")
  BY <1>2, LocksDiffer, TaskMayTake
<1>5. Typed(e, Section("directories"), At(h, "open", k), At(h, "open", k))
  BY <1>3, <1>4, SectionTyped
<1>6. At(g, "open", k) \in Places(e)
  BY <1>3, <1>4, LockTyped
<1>7. Typed(e, Alloc, At(g, "open", k), At(g, "open", k))
  BY <1>2, <1>6, AllocTyped
<1>8. Typed(e, Holding("files", Alloc), At(h, "open", k), At(h, "open", k))
  BY <1>3, <1>4, <1>7, HoldingTyped
<1> QED BY <1>1, <1>5, <1>8, HoldingTyped DEF h

LEMMA ExecuteTyped ==
  ASSUME NEW e, TaskLocks(e), Allocates(e), NEW k, At({}, "open", k) \in Places(e)
  PROVE  Typed(e, Execute, At({}, "open", k), At({}, "open", k))
<1> DEFINE x == At({}, "open", k)
<1>1. MayTake(e, {}, "open", "mounts")
  BY LocksDiffer, TaskMayTake
<1>2. /\ Typed(e, CurrentTask, x, x) /\ Typed(e, Section("mounts"), x, x) /\ Typed(e, AllocPage, x, x)
      /\ Typed(e, Holding("position", Section("directories")), x, x)
      /\ Typed(e, Holding("position", Holding("files", Alloc)), x, x)
  BY <1>1, CurrentTaskTyped, SectionTyped, AllocPageTyped, FileTyped
<1> HIDE DEF x
<1>3. Typed(e, CurrentTask \o Section("mounts"), x, x)
  BY <1>2, ConcatTyped
<1>4. Typed(e, CurrentTask \o Section("mounts") \o Holding("position", Section("directories")), x, x)
  BY <1>2, <1>3, ConcatTyped
<1>5. Typed(e, CurrentTask \o Section("mounts") \o Holding("position", Section("directories"))
                 \o Holding("position", Holding("files", Alloc)), x, x)
  BY <1>2, <1>4, ConcatTyped
<1>6. Typed(e, Execute, x, x)
  BY <1>2, <1>5, ConcatTyped DEF Execute
<1> QED BY <1>6 DEF x

\* A write by the user program takes all its locks with interrupts masked.
LEMMA SysWriteTyped ==
  ASSUME NEW e, TaskLocks(e), Allocates(e), LockId \subseteq e.masked, NEW k, At({}, "open", k) \in Places(e)
  PROVE  Typed(e, SysWrite, At({}, "open", k), At({}, "open", k))
<1> DEFINE x == At({}, "open", k)
           y == At({}, "masked", k)
<1>1. Typed(e, <<Mask>>, x, y) /\ Typed(e, <<Unmask>>, y, x) /\ y \in Places(e)
  BY MaskTyped
<1>2. ASSUME NEW l \in LockId PROVE Typed(e, Section(l), y, y)
  <2>1. MayTake(e, {}, "masked", l)
    BY DEF MayTake
  <2> QED BY <1>1, <2>1, SectionTyped
<1>3. "ALLOCATOR" \notin {} /\ "masked" \in {"open", "masked"}
  OBVIOUS
<1>4. Typed(e, Alloc, y, y)
  BY <1>1, <1>3, AllocTyped
<1> HIDE DEF x, y
<1>5. /\ Typed(e, Section("INSTALLED_TABLE"), y, y) /\ Typed(e, Section("SCHEDULER"), y, y)
      /\ Typed(e, Section("Scheduler"), y, y) /\ Typed(e, Section("DEVICE"), y, y)
      /\ Typed(e, Section("Serial"), y, y)
  BY <1>2 DEF LockId
<1>6. Typed(e, Write, y, y)
  BY <1>5, ConcatTyped DEF Write
<1>7. Typed(e, <<Mask>> \o Section("INSTALLED_TABLE"), x, y)
  BY <1>1, <1>5, ConcatTyped
<1>8. Typed(e, <<Mask>> \o Section("INSTALLED_TABLE") \o Section("SCHEDULER"), x, y)
  BY <1>5, <1>7, ConcatTyped
<1>9. Typed(e, <<Mask>> \o Section("INSTALLED_TABLE") \o Section("SCHEDULER") \o Section("Scheduler"), x, y)
  BY <1>5, <1>8, ConcatTyped
<1>10. Typed(e, <<Mask>> \o Section("INSTALLED_TABLE") \o Section("SCHEDULER") \o Section("Scheduler")
                  \o Section("Scheduler"), x, y)
  BY <1>5, <1>9, ConcatTyped
<1>11. Typed(e, <<Mask>> \o Section("INSTALLED_TABLE") \o Section("SCHEDULER") \o Section("Scheduler")
                  \o Section("Scheduler") \o Alloc, x, y)
  BY <1>4, <1>10, ConcatTyped
<1>12. Typed(e, <<Mask>> \o Section("INSTALLED_TABLE") \o Section("SCHEDULER") \o Section("Scheduler")
                  \o Section("Scheduler") \o Alloc \o Write, x, y)
  BY <1>6, <1>11, ConcatTyped
<1>13. Typed(e, SysWrite, x, x)
  BY <1>1, <1>12, ConcatTyped DEF SysWrite
<1> QED BY <1>13 DEF x

\* The interrupt handler, from the vector to the eret.
LEMMA HandlerTyped ==
  ASSUME NEW e, e.who = "irq", HandlerLocks \subseteq e.masked
  PROVE  Typed(e, Handler, At({}, "masked", 0), At({}, "open", 0))
<1> DEFINE x == At({}, "masked", 0)
           y == At({}, "open", 0)
           g == {} \cup {"InterruptRouter"}
           h == {} \cup {"Scheduler"}
<1>1. y \in Places(e)
  BY PlaceFacts, KernelLocksAssumption
<1>2. x \in Places(e) /\ Typed(e, <<Unmask>>, x, y)
  BY <1>1, MaskTyped
<1>3. ASSUME NEW s, NEW l \in HandlerLocks, l \notin s PROVE MayTake(e, s, "masked", l)
  BY <1>3, LocksDiffer DEF MayTake
<1>4. ASSUME NEW l \in HandlerLocks PROVE Typed(e, Section(l), x, x)
  <2>1. MayTake(e, {}, "masked", l)
    BY <1>3
  <2> QED BY <1>2, <2>1, SectionTyped
<1>5. MayTake(e, {}, "masked", "InterruptRouter") /\ MayTake(e, {}, "masked", "Scheduler")
  BY <1>3 DEF HandlerLocks
<1>6. At(g, "masked", 0) \in Places(e) /\ At(h, "masked", 0) \in Places(e)
  BY <1>2, <1>5, LockTyped
<1>7. "InterruptController" \in HandlerLocks /\ "InterruptController" \notin g
  BY DEF HandlerLocks
<1> DEFINE z == At(g, "masked", 0)
           w == At(h, "masked", 0)
<1>8. Typed(e, Section("InterruptController"), z, z)
  BY <1>3, <1>6, <1>7, SectionTyped
<1>9. Switch \in Op /\ Fits(e, Switch, w, w)
  BY DEF Switch, Op, Fits
<1>10. Typed(e, <<Switch>>, w, w)
  BY <1>6, <1>9, OneTyped
<1>11. Typed(e, Section("InterruptController") \o Section("InterruptController"), z, z)
  BY <1>8, ConcatTyped
<1>12. Typed(e, Holding("InterruptRouter", Section("InterruptController") \o Section("InterruptController")), x, x)
  BY <1>2, <1>5, <1>11, HoldingTyped
<1>13. Typed(e, Holding("Scheduler", <<Switch>>), x, x)
  BY <1>2, <1>5, <1>10, HoldingTyped
<1>14. Typed(e, Section("INSTALLED_TABLE"), x, x) /\ Typed(e, Section("Timer"), x, x)
  BY <1>4 DEF HandlerLocks
<1> HIDE DEF x, y, z, w
<1>15. Typed(e, Section("INSTALLED_TABLE") \o
             Holding("InterruptRouter", Section("InterruptController") \o Section("InterruptController")), x, x)
  BY <1>12, <1>14, ConcatTyped
<1>16. Typed(e, Section("INSTALLED_TABLE") \o
             Holding("InterruptRouter", Section("InterruptController") \o Section("InterruptController"))
               \o Holding("Scheduler", <<Switch>>), x, x)
  BY <1>13, <1>15, ConcatTyped
<1>17. Typed(e, Section("INSTALLED_TABLE") \o
             Holding("InterruptRouter", Section("InterruptController") \o Section("InterruptController"))
               \o Holding("Scheduler", <<Switch>>) \o Section("Timer"), x, x)
  BY <1>14, <1>16, ConcatTyped
<1>18. Typed(e, Handler, x, y)
  BY <1>2, <1>17, ConcatTyped DEF Handler
<1> QED BY <1>18 DEF x, y

-------------------------------------------------------------------------------
(***************************************************************************)
(* The types of what a task does once and of what it repeats.              *)
(***************************************************************************)
\* The creation of all kernel threads.
CreateAll == FlattenSeq([i \in DOMAIN Kthreads |-> CreateKthread])

LEMMA OperationsOf ==
  ASSUME NEW e, NEW s, NEW x, NEW y, Typed(e, s, x, y)
  PROVE  s \in Seq(Op)
BY DEF Typed

\* Unfolds the concatenation, which is a recursive function of the library.
LEMMA CreateAllIterates ==
  ASSUME Len(Kthreads) # 0, CreateKthread \in Seq(Op)
  PROVE  LET N == Len(Kthreads) IN
           \E f : /\ CreateAll = f[N]
                  /\ f[1] = CreateKthread
                  /\ \A i \in 2 .. N : f[i] = f[i - 1] \o CreateKthread
<1> DEFINE N == Len(Kthreads)
           seqs == [i \in 1 .. N |-> CreateKthread]
           Flat(g) == g = [i \in 1 .. Len(seqs) |-> IF i = 1 THEN seqs[i] ELSE g[i - 1] \o seqs[i]]
           flat == CHOOSE g : Flat(g)
           step == [s \in Seq(Op) |-> s \o CreateKthread]
<1>1. N \in Nat \ {0} /\ DOMAIN Kthreads = 1 .. N /\ Len(seqs) = N
  BY KernelLocksAssumption
<1>2. step \in [Seq(Op) -> Seq(Op)]
  BY ConcatProperties
<1>3. N - 1 \in Nat
  BY <1>1
<1> HIDE DEF N, step
<1>4. PICK f : IsLoop(f, Seq(Op), step, CreateKthread, N - 1)
  BY <1>2, <1>3, Iterates
<1>5. \E g : Flat(g)
  <2> DEFINE g == [i \in 1 .. N |-> f[i - 1]]
  <2>1. ASSUME NEW i \in 1 .. N PROVE g[i] = IF i = 1 THEN CreateKthread ELSE g[i - 1] \o CreateKthread
    <3>1. CASE i = 1
      BY <1>4, <3>1 DEF IsLoop
    <3>2. CASE i # 1
      <4>1. i - 1 \in 1 .. N - 1 /\ i - 1 \in 1 .. N /\ i - 2 \in 0 .. N - 1 /\ (i - 1) - 1 = i - 2
        BY <1>1, <3>2
      <4>2. f[i - 1] = step[f[i - 2]] /\ f[i - 2] \in Seq(Op)
        BY <1>4, <4>1 DEF IsLoop
      <4>3. g[i] = f[i - 1] /\ g[i - 1] = f[i - 2]
        BY <4>1
      <4> QED BY <3>2, <4>2, <4>3 DEF step
    <3> QED BY <3>1, <3>2
  <2>2. g = [i \in 1 .. N |-> IF i = 1 THEN CreateKthread ELSE g[i - 1] \o CreateKthread]
    <3>1. g = [i \in 1 .. N |-> g[i]]
      OBVIOUS
    <3> HIDE DEF g
    <3> QED BY <2>1, <3>1
  <2> HIDE DEF g
  <2>3. Flat(g)
    <3>1. \A i \in 1 .. N : seqs[i] = CreateKthread
      OBVIOUS
    <3> HIDE DEF seqs
    <3> QED BY <1>1, <2>2, <3>1
  <2> QED BY <2>3
<1>6. Flat(flat)
  BY <1>5
<1>7. CreateAll = flat[N]
  BY <1>1 DEF CreateAll, FlattenSeq
<1>8. \A i \in 1 .. N : flat[i] = IF i = 1 THEN CreateKthread ELSE flat[i - 1] \o CreateKthread
  <2>1. \A i \in 1 .. N : seqs[i] = CreateKthread
    OBVIOUS
  <2> HIDE DEF flat, seqs
  <2> QED BY <1>1, <1>6, <2>1
<1> HIDE DEF flat
<1>9. /\ flat[1] = CreateKthread
      /\ \A i \in 2 .. N : flat[i] = flat[i - 1] \o CreateKthread
  <2>1. N \in Nat \ {0}
    BY <1>1
  <2>2. 1 \in 1 .. N
    BY <2>1
  <2>3. ASSUME NEW i \in 2 .. N PROVE flat[i] = flat[i - 1] \o CreateKthread
    <3>1. i \in 1 .. N /\ i # 1
      BY <2>1
    <3> QED BY <1>8, <3>1
  <2> QED BY <1>8, <2>2, <2>3
<1> QED BY <1>7, <1>9 DEF N

LEMMA CreateAllTyped ==
  ASSUME NEW e, e.who = "kinit", TaskLocks(e), Allocates(e)
  PROVE  Typed(e, CreateAll, At({}, "open", 0), At({}, "open", Len(Kthreads)))
<1> DEFINE N == Len(Kthreads)
           x(k) == At({}, "open", k)
<1>1. N \in Nat
  BY KernelLocksAssumption
<1>2. \A k \in 0 .. N : x(k) \in Places(e)
  BY PlaceFacts
<1>3. \A k \in 0 .. N - 1 : Typed(e, CreateKthread, x(k), x(k + 1))
  <2> SUFFICES ASSUME NEW k \in 0 .. N - 1 PROVE Typed(e, CreateKthread, x(k), x(k + 1))
    OBVIOUS
  <2>1. k \in Nat /\ k < Len(Kthreads)
    BY <1>1
  <2> QED BY <2>1, CreateKthreadTyped
<1> HIDE DEF x
<1>4. CASE N = 0
  <2>1. Kthreads = <<>> /\ DOMAIN Kthreads = {}
    BY <1>4, KernelLocksAssumption
  <2> DEFINE q == [i \in DOMAIN Kthreads |-> CreateKthread]
  <2>2. q = <<>> /\ Len(q) = 0
    BY <2>1
  <2>3. CreateAll = <<>>
    <3>1. CreateAll = FlattenSeq(q)
      BY DEF CreateAll
    <3> HIDE DEF q
    <3> QED BY <2>2, <3>1 DEF FlattenSeq
  <2>4. x(0) \in Places(e)
    BY <1>1, <1>2
  <2>5. Typed(e, <<>>, x(0), x(0))
    BY <2>4, EmptyTyped
  <2> QED BY <1>4, <2>3, <2>5 DEF x
<1>5. CASE N # 0
  <2>1. N \in Nat \ {0} /\ 0 \in 0 .. N - 1 /\ 0 + 1 = 1
    BY <1>1, <1>5
  <2>2. Typed(e, CreateKthread, x(0), x(1))
    BY <1>3, <2>1
  <2>3. CreateKthread \in Seq(Op)
    BY <2>2, OperationsOf
  <2>4. PICK f : /\ CreateAll = f[N]
                 /\ f[1] = CreateKthread
                 /\ \A i \in 2 .. N : f[i] = f[i - 1] \o CreateKthread
    BY <1>5, <2>3, CreateAllIterates
  <2> DEFINE S == {k \in Nat : k < N => Typed(e, f[k + 1], x(0), x(k + 1))}
  <2>5. 0 \in S
    BY <2>2, <2>4
  <2>6. ASSUME NEW k \in Nat, k \in S PROVE k + 1 \in S
    <3> SUFFICES ASSUME k + 1 < N PROVE Typed(e, f[(k + 1) + 1], x(0), x((k + 1) + 1))
      OBVIOUS
    <3>1. Typed(e, f[k + 1], x(0), x(k + 1))
      BY <1>1, <2>6
    <3>2. k + 2 \in 2 .. N /\ (k + 2) - 1 = k + 1 /\ (k + 1) + 1 = k + 2 /\ k + 1 \in 0 .. N - 1
      BY <1>1
    <3>3. f[k + 2] = f[k + 1] \o CreateKthread
      BY <2>4, <3>2
    <3>4. Typed(e, CreateKthread, x(k + 1), x(k + 2))
      BY <1>3, <3>2
    <3>5. Typed(e, f[k + 1] \o CreateKthread, x(0), x(k + 2))
      BY <3>1, <3>4, ConcatTyped
    <3> QED BY <3>2, <3>3, <3>5
  <2> HIDE DEF S
  <2>7. \A k \in Nat : k \in S
    BY <2>5, <2>6, SetInduction
  <2>8. N - 1 \in S /\ N - 1 < N /\ (N - 1) + 1 = N
    BY <2>1, <2>7
  <2>9. Typed(e, f[N], x(0), x(N))
    BY <2>8 DEF S
  <2> QED BY <2>4, <2>9 DEF x
<1> QED BY <1>4, <1>5

LEMMA KinitPrologTyped ==
  ASSUME NEW e, e.who = "kinit", TaskLocks(e), Allocates(e)
  PROVE  Typed(e, KinitProlog, At({}, "open", 0), At({}, "open", Len(Kthreads)))
<1> DEFINE x == At({}, "open", 0)
           y == At({}, "open", Len(Kthreads))
<1>1. Typed(e, CreateAll, x, y)
  BY CreateAllTyped
<1>2. y \in Places(e)
  BY PlaceFacts, KernelLocksAssumption
<1>3. Typed(e, Println, y, y) /\ Typed(e, Execute, y, y)
  BY <1>2, WriteTyped, ExecuteTyped
<1> HIDE DEF x, y
<1>4. Typed(e, CreateAll \o Println, x, y)
  BY <1>1, <1>3, ConcatTyped
<1>5. Typed(e, CreateAll \o Println \o Execute, x, y)
  BY <1>3, <1>4, ConcatTyped
<1>6. KinitProlog = CreateAll \o Println \o Execute
  BY DEF KinitProlog, CreateAll
<1> QED BY <1>5, <1>6 DEF x, y

\* The environments of the tasks and of the interrupt handler.
TaskEnv(t) ==
  [who    |-> IF t = Kinit THEN "kinit" ELSE "task",
   open   |-> IF t = Kinit THEN LockId \ HandlerLocks ELSE LockId \ (HandlerLocks \cup {"ALLOCATOR"}),
   masked |-> IF t = Kinit THEN IF CliWrites THEN LockId ELSE HandlerLocks \cup {"ALLOCATOR"}
              ELSE HandlerLocks]

IrqEnv == [who |-> "irq", open |-> {}, masked |-> HandlerLocks]

\* The threads that a task has created when it begins to repeat its body.
Created(t) == IF t = Kinit THEN Len(Kthreads) ELSE 0

LEMMA TaskEnvFacts ==
  ASSUME NEW t
  PROVE  /\ TaskLocks(TaskEnv(t))
         /\ t = Kinit => TaskEnv(t).who = "kinit" /\ Allocates(TaskEnv(t))
         /\ t = Kinit /\ CliWrites => LockId \subseteq TaskEnv(t).masked
         /\ TaskEnv(t).who # "irq" /\ (t # Kinit => TaskEnv(t).who # "kinit")
         /\ TaskEnv(t).open \subseteq LockId /\ TaskEnv(t).masked \subseteq LockId
<1>1. TaskLocks(TaskEnv(t))
  BY LocksDiffer DEF TaskLocks, TaskEnv
<1>2. t = Kinit => Allocates(TaskEnv(t))
  BY LocksDiffer DEF Allocates, TaskEnv
<1>3. TaskEnv(t).open \subseteq LockId /\ TaskEnv(t).masked \subseteq LockId
  BY LocksDiffer DEF TaskEnv
<1> QED BY <1>1, <1>2, <1>3 DEF TaskEnv

LEMMA TaskTyped ==
  ASSUME NEW t
  PROVE  /\ Typed(TaskEnv(t), Prolog(t), At({}, "open", 0), At({}, "open", Created(t)))
         /\ Typed(TaskEnv(t), Body(t), At({}, "open", Created(t)), At({}, "open", Created(t)))
<1> DEFINE e == TaskEnv(t)
           x == At({}, "open", Created(t))
<1>1. TaskLocks(e)
  BY TaskEnvFacts
<1>2. Created(t) \in 0 .. Len(Kthreads)
  BY KernelLocksAssumption DEF Created
<1>3. x \in Places(e)
  BY <1>2, PlaceFacts
<1>4. CASE t = Kinit
  <2>1. e.who = "kinit" /\ Allocates(e)
    BY <1>4, TaskEnvFacts
  <2>2. Typed(e, KinitProlog, At({}, "open", 0), x)
    BY <1>1, <1>4, <2>1, KinitPrologTyped DEF Created
  <2>3. CASE CliWrites
    <3>1. LockId \subseteq e.masked
      BY <1>4, <2>3, TaskEnvFacts
    <3>2. Typed(e, SysWrite, x, x)
      BY <1>1, <1>3, <2>1, <3>1, SysWriteTyped
    <3> QED BY <1>4, <2>2, <2>3, <3>2 DEF Prolog, Body
  <2>4. CASE ~CliWrites
    <3>1. Typed(e, <<>>, x, x)
      BY <1>3, EmptyTyped
    <3> QED BY <1>4, <2>2, <2>4, <3>1 DEF Prolog, Body
  <2> QED BY <2>3, <2>4
<1>5. CASE t # Kinit
  <2>1. Created(t) = 0
    BY <1>5 DEF Created
  <2>2. Typed(e, <<>>, x, x)
    BY <1>3, EmptyTyped
  <2>3. Typed(e, CurrentTask, x, x) /\ Typed(e, Write, x, x)
    BY <1>1, <1>3, CurrentTaskTyped, WriteTyped
  <2>4. Typed(e, CurrentTask \o Write, x, x)
    BY <2>3, ConcatTyped
  <2> QED BY <1>5, <2>1, <2>2, <2>4 DEF Prolog, Body
<1> QED BY <1>4, <1>5

-------------------------------------------------------------------------------
(***************************************************************************)
(* The places of tasks and of the interrupt handler in their code.         *)
(***************************************************************************)
Start(t) == At({}, "open", Created(t))

PrologNotes(t) == CHOOSE a : Annotates(TaskEnv(t), Prolog(t), a, At({}, "open", 0), Start(t))
BodyNotes(t) == CHOOSE a : Annotates(TaskEnv(t), Body(t), a, Start(t), Start(t))

\* Where task t is after n operations of its code.
Note(t, n) ==
  IF n < Len(Prolog(t)) THEN PrologNotes(t)[n] ELSE BodyNotes(t)[n - Len(Prolog(t))]

HandlerNotes == CHOOSE a : Annotates(IrqEnv, Handler, a, At({}, "masked", 0), At({}, "open", 0))

\* The positions that a task can have.
Reaches(t, n) ==
  /\ n \in Nat
  /\ IF Body(t) = <<>> THEN n <= Len(Prolog(t)) ELSE n < Len(Prolog(t)) + Len(Body(t))

LEMMA NotesAnnotate ==
  ASSUME NEW t
  PROVE  /\ Annotates(TaskEnv(t), Prolog(t), PrologNotes(t), At({}, "open", 0), Start(t))
         /\ Annotates(TaskEnv(t), Body(t), BodyNotes(t), Start(t), Start(t))
         /\ Prolog(t) \in Seq(Op) /\ Body(t) \in Seq(Op)
         /\ Len(Prolog(t)) \in Nat /\ Len(Body(t)) \in Nat
<1>1. /\ Typed(TaskEnv(t), Prolog(t), At({}, "open", 0), Start(t))
      /\ Typed(TaskEnv(t), Body(t), Start(t), Start(t))
  BY TaskTyped DEF Start
<1>2. Prolog(t) \in Seq(Op) /\ Body(t) \in Seq(Op)
  BY <1>1, OperationsOf
<1>3. /\ \E a : Annotates(TaskEnv(t), Prolog(t), a, At({}, "open", 0), Start(t))
      /\ \E a : Annotates(TaskEnv(t), Body(t), a, Start(t), Start(t))
  BY <1>1 DEF Typed
<1>4. Annotates(TaskEnv(t), Prolog(t), PrologNotes(t), At({}, "open", 0), Start(t))
  BY <1>3, Zenon DEF PrologNotes
<1>5. Annotates(TaskEnv(t), Body(t), BodyNotes(t), Start(t), Start(t))
  BY <1>3, Zenon DEF BodyNotes
<1>6. Len(Prolog(t)) \in Nat /\ Len(Body(t)) \in Nat
  BY <1>2, LenProperties
<1> QED BY <1>2, <1>4, <1>5, <1>6

LEMMA HandlerNotesAnnotate ==
  /\ Annotates(IrqEnv, Handler, HandlerNotes, At({}, "masked", 0), At({}, "open", 0))
  /\ Handler \in Seq(Op) /\ Len(Handler) \in Nat \ {0}
<1>1. IrqEnv.who = "irq" /\ HandlerLocks \subseteq IrqEnv.masked
  BY DEF IrqEnv
<1>2. Typed(IrqEnv, Handler, At({}, "masked", 0), At({}, "open", 0))
  BY <1>1, HandlerTyped
<1>3. Handler \in Seq(Op)
  BY <1>2, OperationsOf
<1>4. \E a : Annotates(IrqEnv, Handler, a, At({}, "masked", 0), At({}, "open", 0))
  BY <1>2 DEF Typed
<1>5. Annotates(IrqEnv, Handler, HandlerNotes, At({}, "masked", 0), At({}, "open", 0))
  BY <1>4, Zenon DEF HandlerNotes
<1>6. Len(Handler) # 0
  <2>1. CASE Len(Handler) = 0
    <3>1. At({}, "masked", 0) = At({}, "open", 0)
      BY <1>5, <2>1 DEF Annotates
    <3>2. At({}, "masked", 0).mode = At({}, "open", 0).mode
      BY <3>1
    <3>3. At({}, "masked", 0).mode = "masked" /\ At({}, "open", 0).mode = "open"
      BY PlaceFacts
    <3>4. "masked" = "open"
      BY <3>2, <3>3
    <3> QED BY <3>4
  <2> QED BY <2>1
<1>7. Len(Handler) \in Nat
  BY <1>3, LenProperties
<1> QED BY <1>3, <1>5, <1>6, <1>7

\* A position of a task is a place, and its first one is the start.
LEMMA NoteFacts ==
  ASSUME NEW t
  PROVE  /\ \A n : Reaches(t, n) => Note(t, n) \in Places(TaskEnv(t))
         /\ Reaches(t, 0) /\ Note(t, 0) = At({}, "open", 0)
<1> DEFINE e == TaskEnv(t)
           p == Len(Prolog(t))
           b == Len(Body(t))
<1>1. /\ p \in Nat /\ b \in Nat
      /\ PrologNotes(t) \in [0 .. p -> Places(e)] /\ BodyNotes(t) \in [0 .. b -> Places(e)]
      /\ PrologNotes(t)[0] = At({}, "open", 0) /\ PrologNotes(t)[p] = Start(t)
      /\ BodyNotes(t)[0] = Start(t)
  BY NotesAnnotate DEF Annotates
<1>2. Body(t) # <<>> <=> b # 0
  BY NotesAnnotate
<1>3. \A n : Note(t, n) = IF n < p THEN PrologNotes(t)[n] ELSE BodyNotes(t)[n - p]
  BY DEF Note
<1>4. \A n : Reaches(t, n) <=> n \in Nat /\ IF b = 0 THEN n <= p ELSE n < p + b
  BY <1>2 DEF Reaches
<1> HIDE DEF e, p, b
<1>5. ASSUME NEW n, Reaches(t, n) PROVE Note(t, n) \in Places(e)
  <2>1. n \in Nat /\ (n < p => n \in 0 .. p) /\ (~(n < p) => n - p \in 0 .. b)
    BY <1>1, <1>4, <1>5
  <2> QED BY <1>1, <1>3, <2>1
<1>6. Reaches(t, 0)
  BY <1>1, <1>4
<1>7. Note(t, 0) = At({}, "open", 0)
  <2>1. CASE p = 0
    <3>1. ~(0 < p) /\ 0 - p = 0
      BY <2>1
    <3> QED BY <1>1, <1>3, <2>1, <3>1
  <2>2. CASE p # 0
    BY <1>1, <1>3, <2>2
  <2> QED BY <2>1, <2>2
<1> QED BY <1>5, <1>6, <1>7 DEF e

\* Each operation of a task takes it from its place to the next one.
LEMMA TaskAdvances ==
  ASSUME NEW t, Reaches(t, at[t]), TaskOp(t) # Idle
  PROVE  /\ TaskOp(t) \in Op /\ Reaches(t, Advance(t))
         /\ Fits(TaskEnv(t), TaskOp(t), Note(t, at[t]), Note(t, Advance(t)))
<1> DEFINE e == TaskEnv(t)
           p == Len(Prolog(t))
           b == Len(Body(t))
           n == at[t]
<1>1. /\ p \in Nat /\ b \in Nat
      /\ PrologNotes(t) \in [0 .. p -> Places(e)] /\ BodyNotes(t) \in [0 .. b -> Places(e)]
      /\ PrologNotes(t)[p] = Start(t)
      /\ BodyNotes(t)[0] = Start(t) /\ BodyNotes(t)[b] = Start(t)
      /\ \A i \in 1 .. p : Fits(e, Prolog(t)[i], PrologNotes(t)[i - 1], PrologNotes(t)[i])
      /\ \A i \in 1 .. b : Fits(e, Body(t)[i], BodyNotes(t)[i - 1], BodyNotes(t)[i])
  BY NotesAnnotate DEF Annotates
<1>2. Body(t) # <<>> <=> b # 0
  BY NotesAnnotate
<1>3. (\A i \in 1 .. p : Prolog(t)[i] \in Op) /\ (\A i \in 1 .. b : Body(t)[i] \in Op)
  BY NotesAnnotate
<1>4. \A m : Note(t, m) = IF m < p THEN PrologNotes(t)[m] ELSE BodyNotes(t)[m - p]
  BY DEF Note
<1>5. \A m : Reaches(t, m) <=> m \in Nat /\ IF b = 0 THEN m <= p ELSE m < p + b
  BY <1>2 DEF Reaches
<1>6. TaskOp(t) = IF n < p THEN Prolog(t)[n + 1] ELSE IF b = 0 THEN Idle ELSE Body(t)[n - p + 1]
  BY <1>2 DEF TaskOp
<1>7. Advance(t) = IF n + 1 = p + b THEN p ELSE n + 1
  BY DEF Advance
<1>8. n \in Nat /\ IF b = 0 THEN n <= p ELSE n < p + b
  BY <1>5
<1> HIDE DEF e, p, b, n
<1>9. CASE n < p
  <2>1. Advance(t) = n + 1
    BY <1>1, <1>7, <1>8, <1>9
  <2>2. n + 1 \in 1 .. p /\ (n + 1) - 1 = n
    BY <1>1, <1>8, <1>9
  <2>3. Note(t, n) = PrologNotes(t)[n] /\ TaskOp(t) = Prolog(t)[n + 1]
    BY <1>4, <1>6, <1>9
  <2>4. Note(t, n + 1) = PrologNotes(t)[n + 1]
    <3>1. CASE n + 1 = p
      <4>1. ~(n + 1 < p) /\ (n + 1) - p = 0
        BY <1>1, <1>8, <3>1
      <4> QED BY <1>1, <1>4, <3>1, <4>1
    <3>2. CASE n + 1 # p
      <4>1. n + 1 < p
        BY <1>1, <2>2, <3>2
      <4> QED BY <1>4, <4>1
    <3> QED BY <3>1, <3>2
  <2>5. Reaches(t, n + 1)
    BY <1>1, <1>5, <1>8, <1>9
  <2>6. Fits(e, Prolog(t)[n + 1], PrologNotes(t)[n], PrologNotes(t)[n + 1])
    BY <1>1, <2>2
  <2> QED BY <1>3, <2>1, <2>2, <2>3, <2>4, <2>5, <2>6 DEF e, n
<1>10. CASE ~(n < p)
  <2> DEFINE i == n - p + 1
  <2>1. b # 0
    BY <1>6, <1>10
  <2>2. i \in 1 .. b /\ i - 1 = n - p
    BY <1>1, <1>8, <1>10, <2>1
  <2>3. TaskOp(t) = Body(t)[i] /\ Note(t, n) = BodyNotes(t)[i - 1]
    BY <1>4, <1>6, <1>10, <2>1, <2>2
  <2>4. Reaches(t, Advance(t)) /\ Note(t, Advance(t)) = BodyNotes(t)[i]
    <3>1. CASE n + 1 = p + b
      <4>1. Advance(t) = p /\ i = b /\ ~(p < p) /\ p - p = 0
        BY <1>1, <1>7, <1>8, <3>1
      <4>2. Note(t, p) = BodyNotes(t)[0]
        BY <1>4, <4>1
      <4>3. Reaches(t, p)
        BY <1>1, <1>5, <2>1
      <4> QED BY <1>1, <4>1, <4>2, <4>3
    <3>2. CASE n + 1 # p + b
      <4>1. ~(n + 1 < p) /\ (n + 1) - p = i
        BY <1>1, <1>8, <1>10
      <4>2. Advance(t) = n + 1
        BY <1>7, <3>2
      <4>3. n + 1 \in Nat /\ n + 1 < p + b
        <5>1. n \in Nat /\ p \in Nat /\ b \in Nat /\ n < p + b
          BY <1>1, <1>8, <2>1
        <5> QED BY <3>2, <5>1
      <4>4. Reaches(t, n + 1)
        BY <1>5, <2>1, <4>3
      <4> QED BY <1>4, <4>1, <4>2, <4>4
    <3> QED BY <3>1, <3>2
  <2> HIDE DEF i
  <2>5. Fits(e, Body(t)[i], BodyNotes(t)[i - 1], BodyNotes(t)[i])
    BY <1>1, <2>2
  <2> QED BY <1>3, <2>2, <2>3, <2>4, <2>5 DEF e, n
<1> QED BY <1>9, <1>10

-------------------------------------------------------------------------------
(***************************************************************************)
(* The inductive invariant.                                                *)
(***************************************************************************)
TaskNote(t) == Note(t, at[t])
IrqNote == HandlerNotes[handler]

TypeInv ==
  /\ owner \in [LockId -> Task \cup {Nobody, Irq}]
  /\ ring \in Seq(Task) /\ ring # <<>>
  /\ at \in [Task -> Nat] /\ \A t \in Task : Reaches(t, at[t])
  /\ handler \in 0 .. Len(Handler) - 1
  /\ inIrq \in BOOLEAN /\ masked \in BOOLEAN /\ ran \in BOOLEAN

\* The locks belong to whoever has taken them.
OwnerInv ==
  /\ \A t \in Task : \A l \in LockId : owner[l] = t <=> l \in TaskNote(t).held
  /\ \A l \in LockId : owner[l] = Irq <=> (inIrq /\ l \in IrqNote.held)

\* A task is interrupted only where it has interrupts unmasked, and the mask is
\* the one of the code that runs.
MaskInv ==
  /\ \A t \in Task : (t # Current \/ inIrq) => TaskNote(t).mode = "open"
  /\ inIrq => (masked <=> IrqNote.mode = "masked")
  /\ ~inIrq => (masked <=> TaskNote(Current).mode = "masked")

\* The scheduler has kinit and the threads that it has created.
RingInv == Len(ring) = 1 + TaskNote(Kinit).spawned

\* Each of these has one place in the ring, and the queue has slots for all but
\* the running one.
QueueInv ==
  /\ \A i, j \in 1 .. Len(ring) : ring[i] = ring[j] => i = j
  /\ \A i \in 1 .. Len(ring) :
       ring[i] = Kinit \/ \E j \in 1 .. Len(ring) - 1 : ring[i] = Kthreads[j]
  /\ capacity \in Nat /\ MinCapacity <= capacity /\ Len(ring) - 1 <= capacity

Inv == TypeInv /\ OwnerInv /\ MaskInv /\ RingInv /\ QueueInv

LEMMA TaskFacts ==
  /\ Kinit \in Task /\ Nobody \notin Task /\ Irq \notin Task /\ Irq # Nobody
  /\ \A i \in 1 .. Len(Kthreads) : Kthreads[i] \in Task
  /\ Len(Kthreads) \in Nat
<1>1. Irq # Nobody
  BY DEF Irq, Nobody
<1>2. /\ Len(Kthreads) \in Nat /\ DOMAIN Kthreads = 1 .. Len(Kthreads)
      /\ \A i \in 1 .. Len(Kthreads) : Kthreads[i] \in STRING \ {Nobody, Irq, Kinit}
  <2> DEFINE S == STRING \ {Nobody, Irq, Kinit}
  <2>1. Kthreads \in Seq(S)
    BY KernelLocksAssumption
  <2> HIDE DEF S
  <2>2. /\ Len(Kthreads) \in Nat /\ DOMAIN Kthreads = 1 .. Len(Kthreads)
        /\ \A i \in 1 .. Len(Kthreads) : Kthreads[i] \in S
    BY <2>1
  <2> QED BY <2>2 DEF S
<1>3. Kinit \in STRING \ {Nobody, Irq}
  BY KernelLocksAssumption
<1> QED BY <1>1, <1>2, <1>3 DEF Task

LEMMA PlacesOf ==
  ASSUME NEW e, NEW x \in Places(e)
  PROVE  /\ x.held \subseteq e.open \cup e.masked /\ x.mode \in {"open", "masked"}
         /\ x.spawned \in 0 .. Len(Kthreads)
         /\ x.mode = "open" => x.held \cap HandlerLocks = {}
BY DEF Places

LEMMA CurrentIsTask ==
  ASSUME TypeInv
  PROVE  Current \in Task /\ Len(ring) \in Nat \ {0}
<1>1. ring \in Seq(Task) /\ ring # <<>>
  BY DEF TypeInv
<1> QED BY <1>1 DEF Current

LEMMA InitInv == Init => Inv
<1> SUFFICES ASSUME Init PROVE Inv
  OBVIOUS
<1>1. /\ owner = [l \in LockId |-> Nobody] /\ ring = <<Kinit>> /\ at = [t \in Task |-> 0]
      /\ handler = 0 /\ inIrq = FALSE /\ masked = FALSE /\ ran = FALSE
  BY DEF Init
<1>2. \A t \in Task : TaskNote(t) = At({}, "open", 0) /\ Reaches(t, at[t])
  BY <1>1, NoteFacts DEF TaskNote
<1>3. Kinit \in Task /\ ring \in Seq(Task) /\ ring # <<>> /\ Len(ring) = 1 /\ Current = Kinit
  BY <1>1, TaskFacts DEF Current
<1>4. 0 \in 0 .. Len(Handler) - 1
  BY HandlerNotesAnnotate
<1>5. TypeInv
  BY <1>1, <1>2, <1>3, <1>4 DEF TypeInv
<1>6. \A t \in Task : TaskNote(t).held = {} /\ TaskNote(t).mode = "open" /\ TaskNote(t).spawned = 0
  BY <1>2, PlaceFacts
<1>7. OwnerInv
  <2>1. \A l \in LockId : owner[l] = Nobody
    BY <1>1
  <2> QED BY <1>1, <1>6, <2>1, TaskFacts DEF OwnerInv
<1>8. MaskInv
  BY <1>1, <1>3, <1>6 DEF MaskInv
<1>9. RingInv
  BY <1>3, <1>6 DEF RingInv
<1>10. QueueInv
  <2>1. capacity = MinCapacity
    BY DEF Init
  <2>2. ring[1] = Kinit /\ Len(ring) = 1
    BY <1>1
  <2>3. MinCapacity \in Nat
    BY KernelLocksAssumption
  <2>4. \A i \in 1 .. Len(ring) : i = 1
    BY <2>2
  <2> QED BY <2>1, <2>2, <2>3, <2>4 DEF QueueInv
<1> QED BY <1>5, <1>7, <1>8, <1>9, <1>10 DEF Inv

-------------------------------------------------------------------------------
(***************************************************************************)
(* What an operation does.                                                 *)
(***************************************************************************)
\* who holds the locks in h, and no other.
Holds(who, h) == \A l \in LockId : owner[l] = who <=> l \in h

LEMMA OwnerStep ==
  ASSUME owner \in [LockId -> Task \cup {Nobody, Irq}],
         NEW e, NEW o, NEW x \in Places(e), NEW y, Fits(e, o, x, y),
         NEW who \in Task \cup {Irq}, Free(o), Perform(o, who), Holds(who, x.held)
  PROVE  /\ owner' \in [LockId -> Task \cup {Nobody, Irq}]
         /\ \A l \in LockId : owner'[l] = who <=> l \in y.held
         /\ \A w : w # who /\ w # Nobody => \A l \in LockId : owner'[l] = w <=> owner[l] = w
<1>1. who # Nobody
  BY TaskFacts
<1>2. CASE o.op = "lock"
  <2>1. o.l \in LockId /\ y = At(x.held \cup {o.l}, x.mode, x.spawned)
    BY <1>2 DEF Fits
  <2>2. y.held = x.held \cup {o.l}
    BY <2>1, PlaceFacts
  <2>3. owner[o.l] = Nobody
    BY <1>2 DEF Free
  <2>4. owner' = [owner EXCEPT ![o.l] = who]
    BY <1>2 DEF Perform
  <2>5. \A l \in LockId : owner'[l] = IF l = o.l THEN who ELSE owner[l]
    BY <2>4
  <2>6. owner' \in [LockId -> Task \cup {Nobody, Irq}]
    BY <2>1, <2>4
  <2>7. \A w : w # who /\ w # Nobody => \A l \in LockId : owner'[l] = w <=> owner[l] = w
    BY <2>3, <2>5
  <2>8. \A l \in LockId : owner'[l] = who <=> l \in y.held
    BY <2>2, <2>5 DEF Holds
  <2> QED BY <2>6, <2>7, <2>8 DEF Holds
<1>3. CASE o.op = "unlock"
  <2>1. o.l \in LockId /\ o.l \in x.held /\ y = At(x.held \ {o.l}, x.mode, x.spawned)
    BY <1>3 DEF Fits
  <2>2. y.held = x.held \ {o.l}
    BY <2>1, PlaceFacts
  <2>3. owner[o.l] = who
    BY <2>1 DEF Holds
  <2>4. owner' = [owner EXCEPT ![o.l] = Nobody]
    BY <1>3 DEF Perform
  <2>5. \A l \in LockId : owner'[l] = IF l = o.l THEN Nobody ELSE owner[l]
    BY <2>4
  <2>6. owner' \in [LockId -> Task \cup {Nobody, Irq}]
    BY <2>1, <2>4
  <2>7. \A w : w # who /\ w # Nobody => \A l \in LockId : owner'[l] = w <=> owner[l] = w
    BY <2>3, <2>5
  <2>8. \A l \in LockId : owner'[l] = who <=> l \in y.held
    BY <1>1, <2>2, <2>5 DEF Holds
  <2> QED BY <2>6, <2>7, <2>8 DEF Holds
<1>4. CASE o.op # "lock" /\ o.op # "unlock"
  <2>1. y = x \/ \E m, k : y = At(x.held, m, k)
    BY <1>4 DEF Fits
  <2>2. y.held = x.held
    BY <2>1, PlaceFacts
  <2>3. owner' = owner
    BY <1>4 DEF Perform
  <2>4. \A l \in LockId : owner'[l] = who <=> l \in y.held
    BY <2>2, <2>3 DEF Holds
  <2> QED BY <2>3, <2>4
<1> QED BY <1>2, <1>3, <1>4

LEMMA MaskStep ==
  ASSUME masked \in BOOLEAN, NEW e, NEW o, NEW x, NEW y, Fits(e, o, x, y),
         NEW who, Perform(o, who), masked <=> x.mode = "masked"
  PROVE  masked' \in BOOLEAN /\ (masked' <=> y.mode = "masked")
<1>1. CASE o.op = "mask"
  <2>1. y.mode = "masked"
    <3>1. y = At(x.held, "masked", x.spawned)
      BY <1>1 DEF Fits
    <3> QED BY <3>1, PlaceFacts
  <2>2. masked' = TRUE
    BY <1>1 DEF Perform
  <2> QED BY <2>1, <2>2
<1>2. CASE o.op = "unmask"
  <2>1. y.mode = "open"
    <3>1. y = At(x.held, "open", x.spawned)
      BY <1>2 DEF Fits
    <3> QED BY <3>1, PlaceFacts
  <2>2. masked' = FALSE
    BY <1>2 DEF Perform
  <2>3. "open" # "masked"
    OBVIOUS
  <2> QED BY <2>1, <2>2, <2>3
<1>3. CASE o.op # "mask" /\ o.op # "unmask"
  <2>1. y = x \/ \E h, k : y = At(h, x.mode, k)
    BY <1>3 DEF Fits
  <2>2. y.mode = x.mode
    BY <2>1, PlaceFacts
  <2>3. masked' = masked
    BY <1>3, Zenon DEF Perform
  <2> QED BY <2>2, <2>3
<1> QED BY <1>1, <1>2, <1>3

\* A task other than kinit creates no thread; the interrupt handler creates none,
\* and a task does not switch.
LEMMA RingStep ==
  ASSUME ring \in Seq(Task), ring # <<>>, NEW e, NEW o, NEW x \in Places(e), NEW y \in Places(e),
         Fits(e, o, x, y), NEW who, Perform(o, who)
  PROVE  \/ ring' = ring /\ y.spawned = x.spawned
         \/ /\ e.who = "kinit" /\ y.spawned = x.spawned + 1
            /\ Len(ring) = 1 + x.spawned =>
                 ring' \in Seq(Task) /\ ring' # <<>> /\ Len(ring') = Len(ring) + 1 /\ Head(ring') = Head(ring)
         \/ /\ e.who = "irq" /\ y.spawned = x.spawned
            /\ ring' \in Seq(Task) /\ ring' # <<>> /\ Len(ring') = Len(ring)
<1>1. CASE o.op = "spawn"
  <2>1. e.who = "kinit" /\ y = At(x.held, x.mode, x.spawned + 1)
    BY <1>1 DEF Fits
  <2>2. y.spawned = x.spawned + 1 /\ y.spawned \in 0 .. Len(Kthreads)
    BY <2>1, PlaceFacts, PlacesOf
  <2>3. ring' = Append(ring, Kthreads[Len(ring)])
    BY <1>1 DEF Perform
  <2>4. ASSUME Len(ring) = 1 + x.spawned
        PROVE  ring' \in Seq(Task) /\ ring' # <<>> /\ Len(ring') = Len(ring) + 1 /\ Head(ring') = Head(ring)
    <3>1. Len(ring) \in 1 .. Len(Kthreads)
      <4>1. Len(ring) = y.spawned
        BY <2>2, <2>4, PlacesOf
      <4>2. Len(ring) \in Nat \ {0}
        BY EmptySeq, LenProperties
      <4> QED BY <2>2, <4>1, <4>2, TaskFacts
    <3>2. Kthreads[Len(ring)] \in Task
      BY <3>1, TaskFacts
    <3> QED BY <2>3, <3>2
  <2> QED BY <2>1, <2>2, <2>4
<1>2. CASE o.op = "switch"
  <2>1. e.who = "irq" /\ y = x
    BY <1>2 DEF Fits
  <2>2. ring' = Append(Tail(ring), Head(ring))
    BY <1>2 DEF Perform, Rotate
  <2>3. ring' \in Seq(Task) /\ ring' # <<>> /\ Len(ring') = Len(ring)
    BY <2>2
  <2> QED BY <2>1, <2>3
<1>3. CASE o.op # "spawn" /\ o.op # "switch"
  <2>1. \E h, m : y = At(h, m, x.spawned)
    BY <1>3 DEF Fits
  <2>2. y.spawned = x.spawned
    BY <2>1, PlaceFacts
  <2>3. ring' = ring
    BY <1>3 DEF Perform
  <2> QED BY <2>2, <2>3
<1> QED BY <1>1, <1>2, <1>3

\* The ring after a task was added at its end, and after a rotation.
LEMMA Appended ==
  ASSUME NEW r \in Seq(Task), NEW k \in Task, NEW r1, r1 = Append(r, k)
  PROVE  /\ Len(r1) = Len(r) + 1 /\ r1[Len(r) + 1] = k /\ Len(r) \in Nat
         /\ \A i \in 1 .. Len(r) : r1[i] = r[i]
BY AppendProperties, LenProperties

LEMMA RotatedRing ==
  ASSUME NEW r \in Seq(Task), r # <<>>, NEW r1, r1 = Append(Tail(r), Head(r))
  PROVE  /\ Len(r1) = Len(r) /\ Len(r) \in Nat \ {0}
         /\ r1[Len(r)] = r[1] /\ \A i \in 1 .. Len(r) - 1 : r1[i] = r[i + 1]
<1>1. Len(r) \in Nat \ {0} /\ Head(r) = r[1] /\ r[1] \in Task
  BY EmptySeq, LenProperties, HeadTailProperties
<1>2. Tail(r) \in Seq(Task) /\ Len(Tail(r)) = Len(r) - 1
      /\ \A i \in 1 .. Len(r) - 1 : Tail(r)[i] = r[i + 1]
  BY HeadTailProperties
<1> PICK t \in Seq(Task) : t = Tail(r)
  BY <1>2
<1>3. /\ Len(r1) = Len(t) + 1 /\ r1[Len(t) + 1] = r[1]
      /\ \A i \in 1 .. Len(t) : r1[i] = t[i]
  BY <1>1, Appended
<1> QED BY <1>1, <1>2, <1>3

\* Adding a task or rotating keeps the tasks apart; a queue that is full grows
\* before it takes another task.
LEMMA QueueStep ==
  ASSUME ring \in Seq(Task), ring # <<>>, QueueInv,
         NEW e, NEW o, NEW x \in Places(e), NEW y \in Places(e),
         Fits(e, o, x, y), NEW who, Perform(o, who),
         e.who = "kinit" => Len(ring) = 1 + x.spawned
  PROVE  QueueInv'
<1> DEFINE n == Len(ring)
<1>1. /\ \A i, j \in 1 .. n : ring[i] = ring[j] => i = j
      /\ \A i \in 1 .. n : ring[i] = Kinit \/ \E j \in 1 .. n - 1 : ring[i] = Kthreads[j]
      /\ capacity \in Nat /\ MinCapacity <= capacity /\ n - 1 <= capacity
      /\ MinCapacity \in Nat \ {0} /\ n \in Nat \ {0}
  BY KernelLocksAssumption, EmptySeq, LenProperties DEF QueueInv
<1>2. capacity' = IF o.op \in {"spawn", "switch"} /\ n - 1 = capacity THEN 2 * capacity ELSE capacity
  BY DEF Perform, QueueFull
<1>3. capacity' \in Nat /\ MinCapacity <= capacity' /\ n - 1 <= capacity'
  BY <1>1, <1>2
<1>4. ASSUME o.op = "spawn" PROVE n <= capacity'
  BY <1>1, <1>2, <1>4
<1> HIDE DEF n
<1>5. CASE o.op = "spawn"
  <2>1. e.who = "kinit" /\ y = At(x.held, x.mode, x.spawned + 1)
    BY <1>5 DEF Fits
  <2>2. n = y.spawned /\ y.spawned \in 0 .. Len(Kthreads) /\ x.spawned \in Nat
    <3>1. y.spawned = x.spawned + 1
      BY <2>1, PlaceFacts
    <3> QED BY <2>1, <3>1, PlacesOf DEF n
  <2>3. n \in 1 .. Len(Kthreads)
    BY <1>1, <2>2, TaskFacts
  <2> PICK k \in Task : k = Kthreads[n]
    BY <2>3, TaskFacts
  <2>4. ring' = Append(ring, k)
    BY <1>5 DEF Perform, n
  <2>5. /\ Len(ring') = n + 1 /\ ring'[n + 1] = k
        /\ \A i \in 1 .. n : ring'[i] = ring[i]
    BY <2>4, Appended DEF n
  <2>6. k # Kinit
    BY <2>3, KernelLocksAssumption
  <2>7. \A j \in 1 .. n - 1 : Kthreads[j] # k
    <3>1. DOMAIN Kthreads = 1 .. Len(Kthreads)
      BY KernelLocksAssumption
    <3>2. ASSUME NEW j \in 1 .. n - 1 PROVE j \in 1 .. Len(Kthreads) /\ j # n
      BY <1>1, <2>3, TaskFacts
    <3> QED BY <2>3, <3>1, <3>2, KernelLocksAssumption DEF IsInjective
  <2>8. \A i \in 1 .. n : ring[i] # k
    BY <1>1, <2>6, <2>7
  <2>9. \A i, j \in 1 .. Len(ring') : ring'[i] = ring'[j] => i = j
    <3>1. \A i \in 1 .. Len(ring') : i \in 1 .. n \/ i = n + 1
      BY <1>1, <2>5
    <3> QED BY <1>1, <2>5, <2>8, <3>1
  <2>10. ASSUME NEW i \in 1 .. Len(ring')
         PROVE  ring'[i] = Kinit \/ \E j \in 1 .. Len(ring') - 1 : ring'[i] = Kthreads[j]
    <3>1. CASE i \in 1 .. n
      <4>1. \A j \in 1 .. n - 1 : j \in 1 .. Len(ring') - 1
        BY <1>1, <2>5
      <4> QED BY <1>1, <2>5, <3>1, <4>1
    <3>2. CASE i = n + 1
      <4>1. n \in 1 .. Len(ring') - 1
        BY <1>1, <2>5
      <4> QED BY <2>5, <3>2, <4>1
    <3> QED BY <1>1, <2>5, <3>1, <3>2
  <2>11. Len(ring') - 1 <= capacity'
    BY <1>1, <1>4, <1>5, <2>5
  <2> QED BY <1>3, <2>9, <2>10, <2>11 DEF QueueInv
<1>6. CASE o.op = "switch"
  <2>1. ring' = Append(Tail(ring), Head(ring))
    BY <1>6 DEF Perform, Rotate
  <2>2. /\ Len(ring') = n /\ ring'[n] = ring[1]
        /\ \A i \in 1 .. n - 1 : ring'[i] = ring[i + 1]
    BY <2>1, RotatedRing DEF n
  <2>3. \A i \in 1 .. n : (i \in 1 .. n - 1 /\ i + 1 \in 1 .. n) \/ i = n
    BY <1>1
  <2>4. 1 \in 1 .. n
    BY <1>1
  <2>5. \A i, j \in 1 .. Len(ring') : ring'[i] = ring'[j] => i = j
    <3> SUFFICES ASSUME NEW i \in 1 .. n, NEW j \in 1 .. n, ring'[i] = ring'[j] PROVE i = j
      BY <2>2
    <3>1. CASE i # n /\ j # n
      <4>1. i + 1 = j + 1
        BY <1>1, <2>2, <2>3, <3>1
      <4> QED BY <4>1
    <3>2. CASE i = n /\ j # n
      <4>1. j + 1 = 1
        BY <1>1, <2>2, <2>3, <2>4, <3>2
      <4> QED BY <4>1
    <3>3. CASE i # n /\ j = n
      <4>1. i + 1 = 1
        BY <1>1, <2>2, <2>3, <2>4, <3>3
      <4> QED BY <4>1
    <3> QED BY <3>1, <3>2, <3>3
  <2>6. \A i \in 1 .. Len(ring') :
          ring'[i] = Kinit \/ \E j \in 1 .. Len(ring') - 1 : ring'[i] = Kthreads[j]
    <3> SUFFICES ASSUME NEW i \in 1 .. n
                 PROVE  ring'[i] = Kinit \/ \E j \in 1 .. n - 1 : ring'[i] = Kthreads[j]
      BY <2>2
    <3>1. PICK k \in 1 .. n : ring'[i] = ring[k]
      BY <2>2, <2>3, <2>4
    <3> QED BY <1>1, <3>1
  <2> QED BY <1>3, <2>2, <2>5, <2>6 DEF QueueInv
<1>7. CASE o.op # "spawn" /\ o.op # "switch"
  <2>1. ring' = ring
    BY <1>7 DEF Perform
  <2> QED BY <1>1, <1>3, <2>1 DEF QueueInv, n
<1> QED BY <1>5, <1>6, <1>7

-------------------------------------------------------------------------------
(***************************************************************************)
(* Every step preserves the invariant.                                     *)
(***************************************************************************)
LEMMA TaskStepPreserves ==
  ASSUME Inv, TaskStep
  PROVE  Inv'
<1>1. TypeInv /\ OwnerInv /\ MaskInv /\ RingInv /\ QueueInv
  BY DEF Inv
<1>2. Current \in Task /\ Len(ring) \in Nat
  BY <1>1, CurrentIsTask
<1> PICK t \in Task : t = Current
  BY <1>2
<1> PICK o : o = TaskOp(t)
  OBVIOUS
<1> PICK x : x = TaskNote(t)
  OBVIOUS
<1> PICK y : y = Note(t, Advance(t))
  OBVIOUS
<1> DEFINE e == TaskEnv(t)
<1>3. /\ ~inIrq /\ Free(o) /\ o # Idle /\ Perform(o, t)
      /\ at' = [at EXCEPT ![t] = Advance(t)]
      /\ ran' = TRUE /\ handler' = handler /\ inIrq' = inIrq
  BY DEF TaskStep
<1>4. Reaches(t, at[t])
  BY <1>1 DEF TypeInv
<1>5. Fits(e, o, x, y) /\ Reaches(t, Advance(t))
  BY <1>3, <1>4, TaskAdvances DEF TaskNote
<1>6. x \in Places(e) /\ y \in Places(e)
  BY <1>4, <1>5, NoteFacts DEF TaskNote
<1>7. \A u \in Task : at'[u] = IF u = t THEN Advance(t) ELSE at[u]
  BY <1>1, <1>3 DEF TypeInv
<1>8. \A u \in Task : (TaskNote(u))' = IF u = t THEN y ELSE TaskNote(u)
  <2>1. \A u \in Task : (TaskNote(u))' = Note(u, at'[u])
    BY DEF TaskNote, Note
  <2> QED BY <1>7, <2>1 DEF TaskNote
<1>9. IrqNote' = IrqNote
  BY <1>3 DEF IrqNote
<1>10. Holds(t, x.held) /\ t # Irq /\ t # Nobody
  BY <1>1, <1>2, TaskFacts DEF OwnerInv, Holds
<1>11. owner \in [LockId -> Task \cup {Nobody, Irq}] /\ t \in Task \cup {Irq}
  BY <1>1, <1>2 DEF TypeInv
<1>12. e.who # "irq" /\ (t # Kinit => e.who # "kinit")
  BY TaskEnvFacts
<1> HIDE DEF e
<1>13. /\ owner' \in [LockId -> Task \cup {Nobody, Irq}]
       /\ \A l \in LockId : owner'[l] = t <=> l \in y.held
       /\ \A w : w # t /\ w # Nobody => \A l \in LockId : owner'[l] = w <=> owner[l] = w
  BY <1>3, <1>5, <1>6, <1>10, <1>11, OwnerStep
<1>14. masked' \in BOOLEAN /\ (masked' <=> y.mode = "masked")
  <2>1. masked \in BOOLEAN /\ (masked <=> x.mode = "masked")
    BY <1>1, <1>3 DEF TypeInv, MaskInv
  <2> QED BY <1>3, <1>5, <2>1, MaskStep
<1>15. \/ ring' = ring /\ y.spawned = x.spawned
       \/ /\ e.who = "kinit" /\ y.spawned = x.spawned + 1
          /\ Len(ring) = 1 + x.spawned =>
               ring' \in Seq(Task) /\ ring' # <<>> /\ Len(ring') = Len(ring) + 1 /\ Head(ring') = Head(ring)
       \/ /\ e.who = "irq" /\ y.spawned = x.spawned
          /\ ring' \in Seq(Task) /\ ring' # <<>> /\ Len(ring') = Len(ring)
  <2>1. ring \in Seq(Task) /\ ring # <<>>
    BY <1>1 DEF TypeInv
  <2> QED BY <1>3, <1>5, <1>6, <2>1, RingStep
<1>16. ASSUME e.who = "kinit" PROVE t = Kinit /\ Len(ring) = 1 + x.spawned
  BY <1>1, <1>12, <1>16 DEF RingInv
<1>17. /\ ring' \in Seq(Task) /\ ring' # <<>> /\ Head(ring') = Head(ring)
       /\ \/ Len(ring') = Len(ring) /\ y.spawned = x.spawned
          \/ t = Kinit /\ Len(ring') = Len(ring) + 1 /\ y.spawned = x.spawned + 1
  <2>1. ring \in Seq(Task) /\ ring # <<>>
    BY <1>1 DEF TypeInv
  <2> QED BY <1>12, <1>15, <1>16, <2>1
<1>18. Current' = t
  BY <1>17 DEF Current
<1>19. TypeInv'
  <2>1. at' \in [Task -> Nat]
    BY <1>1, <1>3, <1>5 DEF TypeInv, Reaches
  <2>2. ASSUME NEW u \in Task PROVE Reaches(u, at[u])'
    <3>1. Reaches(u, at'[u])
      BY <1>1, <1>5, <1>7 DEF TypeInv
    <3> QED BY <3>1 DEF Reaches
  <2>3. /\ handler' \in 0 .. Len(Handler) - 1
        /\ inIrq' \in BOOLEAN /\ ran' \in BOOLEAN
    BY <1>1, <1>3 DEF TypeInv
  <2> QED BY <1>13, <1>14, <1>17, <2>1, <2>2, <2>3 DEF TypeInv
<1>20. OwnerInv'
  <2>1. ASSUME NEW u \in Task, NEW l \in LockId PROVE owner'[l] = u <=> l \in (TaskNote(u))'.held
    <3>1. CASE u = t
      BY <1>8, <1>13, <3>1 DEF Holds
    <3>2. CASE u # t
      <4>1. u # Nobody
        BY TaskFacts
      <4>2. (owner'[l] = u <=> owner[l] = u) /\ (TaskNote(u))' = TaskNote(u)
        BY <1>8, <1>13, <3>2, <4>1
      <4> QED BY <1>1, <4>2 DEF OwnerInv
    <3> QED BY <3>1, <3>2
  <2>2. ASSUME NEW l \in LockId PROVE owner'[l] = Irq <=> owner[l] = Irq
    BY <1>10, <1>13, TaskFacts
  <2>3. \A l \in LockId : owner'[l] # Irq /\ ~inIrq'
    BY <1>1, <1>3, <2>2 DEF OwnerInv
  <2> QED BY <2>1, <2>3 DEF OwnerInv
<1>21. MaskInv'
  <2>1. ASSUME NEW u \in Task, u # t PROVE (TaskNote(u))'.mode = "open"
    BY <1>1, <1>8, <2>1 DEF MaskInv
  <2>2. (TaskNote(t))' = y
    BY <1>2, <1>8
  <2>3. \A u \in Task : u # Current' => (TaskNote(u))'.mode = "open"
    BY <1>18, <2>1
  <2>4. TaskNote(Current)' = y
    BY <1>18, <2>2 DEF TaskNote, Note, Current
  <2> QED BY <1>3, <1>14, <2>3, <2>4 DEF MaskInv
<1>22. RingInv'
  <2>1. Kinit \in Task
    BY TaskFacts
  <2>2. CASE t = Kinit
    <3>1. (TaskNote(Kinit))' = y /\ Len(ring) = 1 + x.spawned
      BY <1>1, <1>8, <2>1, <2>2 DEF RingInv
    <3>2. x.spawned \in Nat
      BY <1>6, PlacesOf
    <3> QED BY <1>2, <1>17, <3>1, <3>2 DEF RingInv
  <2>3. CASE t # Kinit
    <3>1. (TaskNote(Kinit))' = TaskNote(Kinit) /\ Len(ring') = Len(ring)
      BY <1>8, <1>17, <2>1, <2>3
    <3> QED BY <1>1, <3>1 DEF RingInv
  <2> QED BY <2>2, <2>3
<1>23. QueueInv'
  <2>1. ring \in Seq(Task) /\ ring # <<>>
    BY <1>1 DEF TypeInv
  <2> QED BY <1>1, <1>3, <1>5, <1>6, <1>16, <2>1, QueueStep
<1> QED BY <1>19, <1>20, <1>21, <1>22, <1>23 DEF Inv

\* The handler's places, each operation between them, and its end.
LEMMA HandlerFacts ==
  ASSUME TypeInv
  PROVE  /\ handler \in Nat /\ IrqNote \in Places(IrqEnv)
         /\ HandlerNotes[handler + 1] \in Places(IrqEnv)
         /\ Fits(IrqEnv, Handler[handler + 1], IrqNote, HandlerNotes[handler + 1])
         /\ handler + 1 = Len(Handler) => HandlerNotes[handler + 1] = At({}, "open", 0)
         /\ HandlerNotes[0] = At({}, "masked", 0)
         /\ IrqNote.held \subseteq HandlerLocks
<1> DEFINE n == Len(Handler)
<1>1. /\ HandlerNotes \in [0 .. n -> Places(IrqEnv)]
      /\ HandlerNotes[0] = At({}, "masked", 0) /\ HandlerNotes[n] = At({}, "open", 0)
      /\ \A i \in 1 .. n : Fits(IrqEnv, Handler[i], HandlerNotes[i - 1], HandlerNotes[i])
      /\ n \in Nat \ {0}
  BY HandlerNotesAnnotate DEF Annotates
<1>2. handler \in 0 .. n - 1
  BY DEF TypeInv
<1> HIDE DEF n
<1>3. handler \in Nat /\ handler \in 0 .. n /\ handler + 1 \in 1 .. n /\ (handler + 1) - 1 = handler
  BY <1>1, <1>2
<1>4. IrqNote \in Places(IrqEnv) /\ HandlerNotes[handler + 1] \in Places(IrqEnv)
  BY <1>1, <1>3 DEF IrqNote
<1>5. Fits(IrqEnv, Handler[handler + 1], HandlerNotes[(handler + 1) - 1], HandlerNotes[handler + 1])
  BY <1>1, <1>3
<1>6. IrqNote.held \subseteq HandlerLocks
  <2>1. IrqNote.held \subseteq IrqEnv.open \cup IrqEnv.masked
    BY <1>4, PlacesOf
  <2> QED BY <2>1 DEF IrqEnv
<1> QED BY <1>1, <1>3, <1>4, <1>5, <1>6 DEF IrqNote, n

LEMMA HandlerStepPreserves ==
  ASSUME Inv, HandlerStep
  PROVE  Inv'
<1> DEFINE e == IrqEnv
<1>1. TypeInv /\ OwnerInv /\ MaskInv /\ RingInv /\ QueueInv
  BY DEF Inv
<1> PICK o : o = Handler[handler + 1]
  OBVIOUS
<1> PICK x : x = IrqNote
  OBVIOUS
<1> PICK y : y = HandlerNotes[handler + 1]
  OBVIOUS
<1>2. /\ inIrq /\ Free(o) /\ Perform(o, Irq) /\ at' = at
      /\ ran' = (ran /\ o.op # "switch")
      /\ handler' = (IF handler + 1 = Len(Handler) THEN 0 ELSE handler + 1)
      /\ inIrq' = (handler + 1 # Len(Handler))
  BY DEF HandlerStep
<1>3. /\ handler \in Nat /\ x \in Places(e) /\ y \in Places(e) /\ Fits(e, o, x, y)
      /\ handler + 1 = Len(Handler) => y = At({}, "open", 0)
  BY <1>1, HandlerFacts
<1>4. e.who = "irq"
  BY DEF IrqEnv
<1> HIDE DEF e
<1>5. \A u \in Task : (TaskNote(u))' = TaskNote(u)
  BY <1>2 DEF TaskNote, Note
<1>6. Holds(Irq, x.held) /\ owner \in [LockId -> Task \cup {Nobody, Irq}] /\ Irq \in Task \cup {Irq}
  BY <1>1, <1>2 DEF OwnerInv, TypeInv, Holds
<1>7. /\ owner' \in [LockId -> Task \cup {Nobody, Irq}]
      /\ \A l \in LockId : owner'[l] = Irq <=> l \in y.held
      /\ \A w : w # Irq /\ w # Nobody => \A l \in LockId : owner'[l] = w <=> owner[l] = w
  <2>1. Free(o) /\ Perform(o, Irq)
    BY <1>2
  <2>2. x \in Places(e) /\ Fits(e, o, x, y)
    BY <1>3
  <2> QED BY <1>6, <2>1, <2>2, OwnerStep
<1>8. masked' \in BOOLEAN /\ (masked' <=> y.mode = "masked")
  <2>1. masked \in BOOLEAN /\ (masked <=> x.mode = "masked")
    BY <1>1, <1>2 DEF TypeInv, MaskInv
  <2> QED BY <1>2, <1>3, <2>1, MaskStep
<1>9. ring' \in Seq(Task) /\ ring' # <<>> /\ Len(ring') = Len(ring)
  <2>1. ring \in Seq(Task) /\ ring # <<>>
    BY <1>1 DEF TypeInv
  <2> QED BY <1>2, <1>3, <1>4, <2>1, RingStep
<1>q. QueueInv'
  <2>1. ring \in Seq(Task) /\ ring # <<>>
    BY <1>1 DEF TypeInv
  <2> QED BY <1>1, <1>2, <1>3, <1>4, <2>1, QueueStep
<1>10. \A u \in Task : TaskNote(u).mode = "open"
  BY <1>1, <1>2 DEF MaskInv
<1>11. TypeInv'
  <2>1. \A u \in Task : Reaches(u, at[u])'
    BY <1>1, <1>2 DEF TypeInv, Reaches
  <2>2. handler' \in 0 .. Len(Handler) - 1
    BY <1>1, <1>2, <1>3, HandlerNotesAnnotate DEF TypeInv
  <2>3. inIrq' \in BOOLEAN /\ ran' \in BOOLEAN
    BY <1>2
  <2>4. at' \in [Task -> Nat]
    BY <1>1, <1>2 DEF TypeInv
  <2> QED BY <1>7, <1>8, <1>9, <2>1, <2>2, <2>3, <2>4 DEF TypeInv
<1>12. CASE handler + 1 = Len(Handler)
  <2>1. ~inIrq' /\ y.held = {} /\ y.mode = "open"
    <3>1. y = At({}, "open", 0)
      BY <1>3, <1>12
    <3>2. ~inIrq'
      BY <1>2, <1>12
    <3> QED BY <3>1, <3>2, PlaceFacts
  <2>2. OwnerInv'
    <3>1. ASSUME NEW u \in Task, NEW l \in LockId PROVE owner'[l] = u <=> l \in (TaskNote(u))'.held
      BY <1>1, <1>5, <1>7, TaskFacts DEF OwnerInv
    <3>2. \A l \in LockId : owner'[l] # Irq
      BY <1>7, <2>1
    <3> QED BY <2>1, <3>1, <3>2 DEF OwnerInv
  <2>3. MaskInv'
    <3>1. (Current \in Task)'
      BY <1>11, CurrentIsTask, PTL
    <3>2. \A u \in Task : (TaskNote(u))'.mode = "open"
      BY <1>5, <1>10
    <3>3. PICK c \in Task : c = Current'
      BY <3>1
    <3>4. TaskNote(Current)' = (TaskNote(c))'
      BY <3>3 DEF TaskNote, Note
    <3>5. ~masked' /\ TaskNote(Current)'.mode # "masked"
      BY <1>8, <2>1, <3>2, <3>4
    <3> QED BY <2>1, <3>2, <3>5 DEF MaskInv
  <2> QED BY <1>1, <1>5, <1>9, <1>11, <1>q, <2>2, <2>3, TaskFacts DEF Inv, RingInv
<1>13. CASE handler + 1 # Len(Handler)
  <2>1. inIrq' /\ handler' = handler + 1
    BY <1>2, <1>13
  <2>2. IrqNote' = y
    BY <2>1 DEF IrqNote
  <2>3. OwnerInv'
    <3>1. ASSUME NEW u \in Task, NEW l \in LockId PROVE owner'[l] = u <=> l \in (TaskNote(u))'.held
      BY <1>1, <1>5, <1>7, TaskFacts DEF OwnerInv
    <3>2. \A l \in LockId : owner'[l] = Irq <=> (inIrq' /\ l \in IrqNote'.held)
      BY <1>7, <2>1, <2>2
    <3> QED BY <3>1, <3>2 DEF OwnerInv
  <2>4. MaskInv'
    BY <1>5, <1>8, <1>10, <2>1, <2>2 DEF MaskInv
  <2> QED BY <1>1, <1>5, <1>9, <1>11, <1>q, <2>3, <2>4, TaskFacts DEF Inv, RingInv
<1> QED BY <1>12, <1>13

LEMMA TakeIrqPreserves ==
  ASSUME Inv, TakeIrq
  PROVE  Inv'
<1>1. TypeInv /\ OwnerInv /\ MaskInv /\ RingInv /\ QueueInv
  BY DEF Inv
<1>2. /\ ~inIrq /\ ~masked /\ inIrq' = TRUE /\ masked' = TRUE /\ handler' = 0
      /\ owner' = owner /\ ring' = ring /\ at' = at /\ ran' = ran /\ capacity' = capacity
  BY DEF TakeIrq
<1>3. \A u \in Task : (TaskNote(u))' = TaskNote(u)
  BY <1>2 DEF TaskNote, Note
<1>4. IrqNote' = At({}, "masked", 0)
  BY <1>1, <1>2, HandlerFacts DEF IrqNote
<1>5. IrqNote'.held = {} /\ IrqNote'.mode = "masked"
  BY <1>4, PlaceFacts
<1>6. TypeInv'
  <2>1. \A u \in Task : Reaches(u, at[u])'
    BY <1>1, <1>2 DEF TypeInv, Reaches
  <2>2. 0 \in 0 .. Len(Handler) - 1
    BY HandlerNotesAnnotate
  <2> QED BY <1>1, <1>2, <2>1, <2>2 DEF TypeInv
<1>7. OwnerInv'
  BY <1>1, <1>2, <1>3, <1>5 DEF OwnerInv
<1>8. ASSUME NEW u \in Task PROVE TaskNote(u).mode = "open"
  <2>1. CASE u # Current
    BY <1>1, <2>1 DEF MaskInv
  <2>2. CASE u = Current
    <3>1. TaskNote(u).mode # "masked"
      BY <1>1, <1>2, <2>2 DEF MaskInv
    <3>2. TaskNote(u).mode \in {"open", "masked"}
      <4>1. TaskNote(u) \in Places(TaskEnv(u))
        BY <1>1, NoteFacts DEF TypeInv, TaskNote
      <4> QED BY <4>1, PlacesOf
    <3> QED BY <3>1, <3>2
  <2> QED BY <2>1, <2>2
<1>9. MaskInv'
  BY <1>2, <1>3, <1>5, <1>8 DEF MaskInv
<1>10. RingInv'
  BY <1>1, <1>2, <1>3, TaskFacts DEF RingInv
<1>11. QueueInv'
  BY <1>1, <1>2 DEF QueueInv
<1> QED BY <1>6, <1>7, <1>9, <1>10, <1>11 DEF Inv

LEMMA StepPreserves ==
  ASSUME Inv, [Next]_vars
  PROVE  Inv'
<1>1. ASSUME TaskStep PROVE Inv'
  BY <1>1, TaskStepPreserves
<1>2. ASSUME HandlerStep PROVE Inv'
  BY <1>2, HandlerStepPreserves
<1>3. ASSUME TakeIrq PROVE Inv'
  BY <1>3, TakeIrqPreserves
<1>4. ASSUME /\ owner' = owner /\ ring' = ring /\ at' = at /\ handler' = handler
             /\ inIrq' = inIrq /\ masked' = masked /\ ran' \in BOOLEAN
             /\ capacity' = capacity
      PROVE  Inv'
  <2>1. TypeInv'
    BY <1>4 DEF Inv, TypeInv, Reaches
  <2>2. /\ (\A u \in Task : (TaskNote(u))' = TaskNote(u)) /\ IrqNote' = IrqNote
        /\ Current' = Current
    BY <1>4 DEF TaskNote, Note, IrqNote, Current
  <2>3. TaskNote(Current)' = TaskNote(Current)
    BY <1>4 DEF TaskNote, Note, Current
  <2>4. OwnerInv'
    BY <1>4, <2>2 DEF Inv, OwnerInv
  <2>5. MaskInv'
    BY <1>4, <2>2, <2>3 DEF Inv, MaskInv
  <2>6. RingInv'
    BY <1>4, <2>2, TaskFacts DEF Inv, RingInv
  <2>7. QueueInv'
    BY <1>4 DEF Inv, QueueInv
  <2> QED BY <2>1, <2>4, <2>5, <2>6, <2>7 DEF Inv
<1>5. ASSUME Spin PROVE Inv'
  <2>1. /\ owner' = owner /\ ring' = ring /\ at' = at /\ handler' = handler
        /\ inIrq' = inIrq /\ masked' = masked /\ ran' \in BOOLEAN
        /\ capacity' = capacity
    BY <1>5 DEF Spin
  <2> QED BY <1>4, <2>1
<1>6. ASSUME UNCHANGED vars PROVE Inv'
  <2>1. /\ owner' = owner /\ ring' = ring /\ at' = at /\ handler' = handler
        /\ inIrq' = inIrq /\ masked' = masked /\ ran' \in BOOLEAN
        /\ capacity' = capacity
    BY <1>6 DEF vars, Inv, TypeInv
  <2> QED BY <1>4, <2>1
<1> QED BY <1>1, <1>2, <1>3, <1>5, <1>6 DEF Next

-------------------------------------------------------------------------------
(***************************************************************************)
(* The theorems.                                                           *)
(***************************************************************************)
\* At every moment the locks held are the ones that the code of their owners has
\* taken and not released up to where it is (Lock::call, Mutex::lock), the mask is
\* the one of the code that runs, and a task that is not running, or that the timer
\* has interrupted, is at a place where interrupts are unmasked and none of the
\* locks is held that the interrupt handler always takes (HandlerLocks; the heap's
\* is not one of them).
THEOREM InvariantHolds == Spec => []Inv
BY InitInv, StepPreserves, PTL DEF Spec

LEMMA InvTypeOK ==
  ASSUME Inv
  PROVE  TypeOK
<1>1. TypeInv
  BY DEF Inv
<1>2. /\ owner \in [LockId -> Task \cup {Nobody, Irq}]
      /\ at \in [Task -> Nat]
      /\ inIrq \in BOOLEAN /\ masked \in BOOLEAN /\ ran \in BOOLEAN
  BY <1>1 DEF TypeInv
<1>3. ring \in Seq(Task) /\ DOMAIN ring = 1 .. Len(ring)
  BY <1>1 DEF TypeInv
<1>4. IsInjective(ring) /\ capacity \in Nat /\ Len(ring) - 1 <= capacity
  BY <1>3 DEF Inv, QueueInv, IsInjective
<1>5. handler \in Nat
  BY <1>1, HandlerNotesAnnotate DEF TypeInv
<1> QED BY <1>2, <1>3, <1>4, <1>5 DEF TypeOK

\* A lock has one owner, the scheduler has each task once whatever schedule() and
\* add_task do, and the queue never holds more tasks than it has slots.
THEOREM TypeCorrect == Spec => []TypeOK
BY InvariantHolds, InvTypeOK, PTL

\* The locks that the handler of an interrupt takes are free whenever it runs.
HandlerNeverWaits == inIrq => Free(Handler[handler + 1])

LEMMA OpenHoldsNone ==
  ASSUME Inv, NEW t \in Task, TaskNote(t).mode = "open", NEW l \in HandlerLocks
  PROVE  owner[l] # t
<1>1. TaskNote(t) \in Places(TaskEnv(t))
  BY NoteFacts DEF Inv, TypeInv, TaskNote
<1>2. l \notin TaskNote(t).held
  BY <1>1, PlacesOf
<1>3. l \in LockId
  BY LocksDiffer
<1> QED BY <1>2, <1>3 DEF Inv, OwnerInv

\* With fewer kernel threads than the queue has slots, schedule() never grows it.
LEMMA QueueNeverFull ==
  ASSUME Inv, Len(Kthreads) < MinCapacity
  PROVE  ~QueueFull
<1>1. Len(ring) = 1 + TaskNote(Kinit).spawned /\ MinCapacity <= capacity /\ capacity \in Nat
  BY DEF Inv, RingInv, QueueInv
<1>2. TaskNote(Kinit) \in Places(TaskEnv(Kinit))
  BY TaskFacts, NoteFacts DEF Inv, TypeInv, TaskNote
<1>3. TaskNote(Kinit).spawned \in 0 .. Len(Kthreads)
  BY <1>2, PlacesOf
<1> PICK k \in 0 .. Len(Kthreads) : k = TaskNote(Kinit).spawned
  BY <1>3
<1>4. Len(ring) - 1 = k /\ k <= Len(Kthreads) /\ k \in Nat /\ MinCapacity \in Nat
  BY <1>1, TaskFacts, KernelLocksAssumption
<1> QED BY <1>1, <1>4, TaskFacts DEF QueueFull

LEMMA HandlerFindsFree ==
  ASSUME Inv, Len(Kthreads) < MinCapacity
  PROVE  HandlerNeverWaits
<1>1. TypeInv /\ OwnerInv /\ MaskInv
  BY DEF Inv
<1>2. ASSUME inIrq PROVE Free(Handler[handler + 1])
  <2> DEFINE o == Handler[handler + 1]
  <2>1. Fits(IrqEnv, o, IrqNote, HandlerNotes[handler + 1])
    BY <1>1, HandlerFacts
  <2>2. masked <=> IrqNote.mode = "masked"
    BY <1>1, <1>2 DEF MaskInv
  <2> HIDE DEF o
  <2>3. SUFFICES ASSUME o.op = "lock" PROVE owner[o.l] = Nobody
    BY QueueNeverFull DEF Free, o
  <2>4. /\ o.l \in LockId /\ o.l \notin IrqNote.held
        /\ o.l \in IF IrqNote.mode = "open" THEN IrqEnv.open ELSE IrqEnv.masked
    BY <2>1, <2>3 DEF Fits
  <2>5. o.l \in HandlerLocks
    BY <2>4 DEF IrqEnv
  <2>6. owner[o.l] # Irq
    BY <1>1, <2>4 DEF OwnerInv
  <2>7. \A t \in Task : owner[o.l] # t
    BY <1>1, <1>2, <2>5, OpenHoldsNone DEF MaskInv
  <2> QED BY <1>1, <2>4, <2>6, <2>7 DEF TypeInv
<1> QED BY <1>2 DEF HandlerNeverWaits

\* The interrupt handler never waits for a lock, whatever the timer interrupts,
\* also with a /bin/cli that writes: vector_irq, InterruptRouter::handle, schedule
\* and set_duration find theirs free, because every code that holds one of them
\* has interrupts masked.  The heap's lock is not of that kind: the hypothesis is
\* that there are fewer kernel threads than the slots with which schedule()'s
\* queue begins, so that its push_back in the handler does not allocate.
THEOREM HandlerAlwaysFindsFree ==
  ASSUME Len(Kthreads) < MinCapacity
  PROVE  Spec => []HandlerNeverWaits
BY InvariantHolds, HandlerFindsFree, PTL

\* A task that takes a lock with interrupts masked finds it free: the lock is one
\* of the handler's, which no other task holds where it was interrupted, or, for
\* kinit alone, the heap's, which nobody else takes.
LEMMA NeverSpins ==
  ASSUME CliWrites = FALSE, Len(Kthreads) < MinCapacity, Inv
  PROVE  MaskedNeverSpins
<1>1. TypeInv /\ OwnerInv /\ MaskInv
  BY DEF Inv
<1>2. ASSUME NEW t \in Task PROVE TaskNote(t) \in Places(TaskEnv(t))
  BY <1>1, NoteFacts DEF TypeInv, TaskNote
<1>3. ASSUME masked, ~inIrq PROVE Free(TaskOp(Current))
  <2> DEFINE c == Current
             o == TaskOp(c)
             x == TaskNote(c)
             e == TaskEnv(c)
  <2>1. c \in Task /\ x.mode = "masked"
    BY <1>1, <1>3, CurrentIsTask DEF MaskInv
  <2>2. SUFFICES ASSUME o.op = "lock" PROVE owner[o.l] = Nobody
    BY QueueNeverFull DEF Free
  <2>3. o # Idle
    BY <2>2 DEF Idle
  <2>4. Fits(e, o, x, Note(c, Advance(c)))
    BY <1>1, <2>1, <2>3, TaskAdvances DEF TypeInv, TaskNote
  <2>5. \A t \in Task : t # c => TaskNote(t).mode = "open"
    BY <1>1 DEF MaskInv
  <2> HIDE DEF c, o, x
  <2>6. o.l \in LockId /\ o.l \notin x.held /\ o.l \in e.masked
    BY <2>1, <2>2, <2>4 DEF Fits
  <2>7. o.l \in HandlerLocks \/ (c = Kinit /\ o.l = "ALLOCATOR")
    BY <2>6 DEF TaskEnv
  <2>8. owner[o.l] # Irq
    BY <1>1, <1>3, <2>6 DEF OwnerInv
  <2>9. owner[o.l] # c
    BY <1>1, <2>1, <2>6 DEF OwnerInv, x
  <2>10. ASSUME NEW t \in Task, t # c PROVE owner[o.l] # t
    <3>1. CASE o.l \in HandlerLocks
      BY <2>5, <2>10, <3>1, OpenHoldsNone
    <3>2. CASE c = Kinit /\ o.l = "ALLOCATOR"
      <4>1. TaskNote(t).held \subseteq TaskEnv(t).open \cup TaskEnv(t).masked
        BY <1>2, PlacesOf
      <4>2. "ALLOCATOR" \notin TaskEnv(t).open \cup TaskEnv(t).masked
        BY <2>10, <3>2 DEF TaskEnv, HandlerLocks
      <4> QED BY <1>1, <2>6, <3>2, <4>1, <4>2 DEF OwnerInv
    <3> QED BY <2>7, <3>1, <3>2
  <2> QED BY <1>1, <2>6, <2>8, <2>9, <2>10 DEF TypeInv
<1> QED BY <1>3, HandlerFindsFree DEF HandlerNeverWaits, MaskedNeverSpins

\* When /bin/cli makes no system call that writes, nobody ever waits for a lock
\* with interrupts masked, wherever the timer interrupts the kernel threads, as
\* long as they are fewer than the slots with which the scheduler's queue begins.
\* (With a write it may: the run kernel_locks_cli.  With more threads, schedule()
\* may wait in the handler for the heap.)
THEOREM MaskedCodeNeverSpins ==
  ASSUME CliWrites = FALSE, Len(Kthreads) < MinCapacity
  PROVE  Spec => []MaskedNeverSpins
BY InvariantHolds, NeverSpins, PTL
===============================================================================
