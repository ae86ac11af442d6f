----------------------------- MODULE OnceLockProofs ---------------------------
(***************************************************************************)
(* OnceLock is correct for any number of threads and values.               *)
(***************************************************************************)
EXTENDS OnceLock, TLAPS

USE OnceLockAssumption

\* The empty cell of OnceLock::new satisfies the invariant.
LEMMA InitInv == Init => Inv
<1> SUFFICES ASSUME Init PROVE Inv
  OBVIOUS
<1> USE DEF Init, Point, LockPoint, HeldPoint, AfterPoint, Op
<1>1. TypeOK
  BY DEF TypeOK
<1>2. MutualExclusion
  BY DEF MutualExclusion, Holding
<1>3. DataInv
  BY DEF DataInv
<1>4. \A t \in Thread : ThreadInv(t)
  BY DEF ThreadInv
<1> QED BY <1>1, <1>2, <1>3, <1>4 DEF Inv

\* A step of any thread preserves the types.
LEMMA NextTypeOK == Inv /\ [Next]_vars => TypeOK'
<1> SUFFICES ASSUME TypeOK, \A t \in Thread : ThreadInv(t), [Next]_vars PROVE TypeOK'
  BY DEF Inv
<1> USE DEF TypeOK, Point, LockPoint, HeldPoint, AfterPoint, Op, Move, Goto
<1>1. CASE UNCHANGED vars
  BY <1>1 DEF vars
<1>2. ASSUME NEW t \in Thread, Step(t) PROVE TypeOK'
  <2>1. CASE Lock(t, "is_completed", "is_completed.load") \/ Lock(t, "call_once", "call_once.test")
    BY <2>1 DEF Lock
  <2>2. CASE Unlock(t, "is_completed.unlock", "get") \/ Unlock(t, "call_once.unlock", "get_or_init")
    BY <2>2 DEF Unlock
  <2>3. CASE LoadCompleted(t)
    BY <2>3 DEF LoadCompleted
  <2>4. CASE TestCompleted(t)
    BY <2>4 DEF TestCompleted
  <2>5. CASE WriteData(t)
    BY <2>5 DEF WriteData, ThreadInv
  <2>6. CASE SetCompleted(t)
    BY <2>6 DEF SetCompleted
  <2>7. CASE GetReturns(t)
    BY <2>7 DEF GetReturns, Return
  <2>8. CASE GetOrInitReturns(t)
    BY <2>8 DEF GetOrInitReturns, Return
  <2>9. CASE SetReturns(t)
    BY <2>9 DEF SetReturns, Return
  <2> QED BY <1>2, <2>1, <2>2, <2>3, <2>4, <2>5, <2>6, <2>7, <2>8, <2>9 DEF Step
<1>3. ASSUME NEW t \in Thread, Begin(t) PROVE TypeOK'
  BY <1>3 DEF Begin, Get, Set, GetOrInit, Invoke
<1> QED BY <1>1, <1>2, <1>3 DEF Next

\* compare_exchange hands the lock to one thread at a time.
LEMMA NextMutualExclusion == Inv /\ [Next]_vars => MutualExclusion'
<1> SUFFICES ASSUME TypeOK, MutualExclusion, [Next]_vars PROVE MutualExclusion'
  BY DEF Inv
<1> USE DEF TypeOK, MutualExclusion, Holding, HeldPoint, Move, Goto
<1>1. CASE UNCHANGED vars
  BY <1>1 DEF vars
<1>2. ASSUME NEW t \in Thread, Step(t) PROVE MutualExclusion'
  <2>1. CASE Lock(t, "is_completed", "is_completed.load") \/ Lock(t, "call_once", "call_once.test")
    BY <2>1 DEF Lock
  <2>2. CASE Unlock(t, "is_completed.unlock", "get") \/ Unlock(t, "call_once.unlock", "get_or_init")
    BY <2>2 DEF Unlock
  <2>3. CASE LoadCompleted(t)
    BY <2>3 DEF LoadCompleted
  <2>4. CASE TestCompleted(t)
    BY <2>4 DEF TestCompleted
  <2>5. CASE WriteData(t)
    BY <2>5 DEF WriteData
  <2>6. CASE SetCompleted(t)
    BY <2>6 DEF SetCompleted
  <2>7. CASE GetReturns(t) \/ GetOrInitReturns(t) \/ SetReturns(t)
    BY <2>7 DEF GetReturns, GetOrInitReturns, SetReturns, Return
  <2> QED BY <1>2, <2>1, <2>2, <2>3, <2>4, <2>5, <2>6, <2>7 DEF Step
<1>3. ASSUME NEW t \in Thread, Begin(t) PROVE MutualExclusion'
  BY <1>3 DEF Begin, Get, Set, GetOrInit, Invoke
<1> QED BY <1>1, <1>2, <1>3 DEF Next

\* The value and the flag change only under the lock, in the order f, completed.
LEMMA NextDataInv == Inv /\ [Next]_vars => DataInv'
<1> SUFFICES ASSUME TypeOK, DataInv, \A t \in Thread : ThreadInv(t), [Next]_vars
             PROVE DataInv'
  BY DEF Inv
<1> USE DEF TypeOK, DataInv, ThreadInv, Move, Goto
<1>1. CASE UNCHANGED vars
  BY <1>1 DEF vars
<1>2. ASSUME NEW t \in Thread, Step(t) PROVE DataInv'
  <2>1. CASE Lock(t, "is_completed", "is_completed.load") \/ Lock(t, "call_once", "call_once.test")
    BY <2>1 DEF Lock
  <2>2. CASE Unlock(t, "is_completed.unlock", "get") \/ Unlock(t, "call_once.unlock", "get_or_init")
    BY <2>2 DEF Unlock
  <2>3. CASE LoadCompleted(t)
    BY <2>3 DEF LoadCompleted
  <2>4. CASE TestCompleted(t)
    BY <2>4 DEF TestCompleted
  <2>5. CASE WriteData(t)
    BY <2>5 DEF WriteData
  <2>6. CASE SetCompleted(t)
    BY <2>6 DEF SetCompleted
  <2>7. CASE GetReturns(t)
    BY <2>7 DEF GetReturns, Return
  <2>8. CASE GetOrInitReturns(t)
    BY <2>8 DEF GetOrInitReturns, Return
  <2>9. CASE SetReturns(t)
    BY <2>9 DEF SetReturns, Return
  <2> QED BY <1>2, <2>1, <2>2, <2>3, <2>4, <2>5, <2>6, <2>7, <2>8, <2>9 DEF Step
<1>3. ASSUME NEW t \in Thread, Begin(t) PROVE DataInv'
  BY <1>3 DEF Begin, Get, Set, GetOrInit, Invoke
<1> QED BY <1>1, <1>2, <1>3 DEF Next

\* No step of a thread upsets what another thread relies on.
LEMMA NextThreadInv ==
  Inv /\ [Next]_vars => \A u \in Thread : ThreadInv(u)'
<1> SUFFICES ASSUME Inv, [Next]_vars, NEW u \in Thread PROVE ThreadInv(u)'
  OBVIOUS
<1> USE DEF Inv, TypeOK, DataInv, ThreadInv, Move, Goto
<1>1. CASE UNCHANGED vars
  BY <1>1 DEF vars
<1>2. ASSUME NEW t \in Thread, Step(t) PROVE ThreadInv(u)'
  <2>1. CASE Lock(t, "is_completed", "is_completed.load") \/ Lock(t, "call_once", "call_once.test")
    BY <2>1 DEF Lock
  <2>2. CASE Unlock(t, "is_completed.unlock", "get") \/ Unlock(t, "call_once.unlock", "get_or_init")
    BY <2>2 DEF Unlock
  <2>3. CASE LoadCompleted(t)
    BY <2>3 DEF LoadCompleted
  <2>4. CASE TestCompleted(t)
    BY <2>4 DEF TestCompleted, MutualExclusion, Holding, HeldPoint
  <2>5. CASE WriteData(t)
    BY <2>5 DEF WriteData, MutualExclusion, Holding, HeldPoint
  <2>6. CASE SetCompleted(t)
    BY <2>6 DEF SetCompleted, MutualExclusion, Holding, HeldPoint
  <2>7. CASE GetReturns(t) \/ GetOrInitReturns(t) \/ SetReturns(t)
    BY <2>7 DEF GetReturns, GetOrInitReturns, SetReturns, Return
  <2> QED BY <1>2, <2>1, <2>2, <2>3, <2>4, <2>5, <2>6, <2>7 DEF Step
<1>3. ASSUME NEW t \in Thread, Begin(t) PROVE ThreadInv(u)'
  BY <1>3 DEF Begin, Get, Set, GetOrInit, Invoke
<1> QED BY <1>1, <1>2, <1>3 DEF Next

\* The invariant holds in every reachable state.
THEOREM Invariant == Spec => []Inv
<1>1. Init => Inv
  BY InitInv
<1>2. Inv /\ [Next]_vars => Inv'
  BY NextTypeOK, NextMutualExclusion, NextDataInv, NextThreadInv DEF Inv
<1> QED BY <1>1, <1>2, PTL DEF Spec

\* Type correctness of OnceLock, for any number of threads.
THEOREM TypeCorrect == Spec => []TypeOK
  BY Invariant, PTL DEF Inv

\* The spin lock of Once excludes: one thread at most is inside a closure.
THEOREM Exclusion == Spec => []MutualExclusion
  BY Invariant, PTL DEF Inv

\* get and get_or_init never hand out uninitialised memory.
THEOREM NoUninitRead == Spec => []NeverReadsUninit
<1>1. Inv => NeverReadsUninit
  BY DEF Inv, DataInv, ThreadInv, NeverReadsUninit
<1> QED BY <1>1, Invariant, PTL

\* Every call returns None, the one stored value, or set's verdict.
THEOREM StoredResults == Spec => []ResultsAreStored
<1>1. Inv => ResultsAreStored
  BY DEF Inv, DataInv, ResultsAreStored
<1> QED BY <1>1, Invariant, PTL

\* Once written, the cell never changes, and is_completed never reverts.
THEOREM WriteOnceOnly == Spec => WrittenOnce
<1> DEFINE Kept == (data # Uninit => data' = data) /\ (completed => completed')
<1>1. Inv /\ [Next]_vars => [Kept]_vars
  <2> SUFFICES ASSUME Inv, NEW t \in Thread, Step(t) \/ Begin(t) PROVE Kept
    BY DEF Next
  <2>1. CASE WriteData(t)
    BY <2>1 DEF WriteData, Move, Inv, ThreadInv
  <2>2. CASE SetCompleted(t)
    BY <2>2 DEF SetCompleted
  <2>3. CASE Begin(t)
    BY <2>3 DEF Begin, Get, Set, GetOrInit, Invoke
  <2> QED BY <2>1, <2>2, <2>3
       DEF Step, Lock, Unlock, LoadCompleted, TestCompleted, GetReturns,
           GetOrInitReturns, SetReturns, Return
<1> QED BY <1>1, Invariant, PTL DEF Spec, WrittenOnce

-------------------------------------------------------------------------------
(***************************************************************************)
(* The refinement: OnceLock implements the atomic write-once cell.         *)
(***************************************************************************)
\* An empty OnceLock is an empty cell.
LEMMA InitRefines == Init => WO!Init
  BY DEF Init, WO!Init, AbstractAnswer

\* A step of OnceLock is a step of the cell, or none.
LEMMA StepRefines == Inv /\ [Next]_vars => [WO!Next]_WO!vars
<1> SUFFICES ASSUME Inv, [Next]_vars PROVE [WO!Next]_WO!vars
  OBVIOUS
<1> USE DEF Inv, TypeOK, WO!vars, AbstractAnswer, Move, Goto
<1>1. CASE UNCHANGED vars
  BY <1>1 DEF vars
<1>2. ASSUME NEW t \in Thread, Step(t) PROVE [WO!Next]_WO!vars
  <2>1. CASE Lock(t, "is_completed", "is_completed.load") \/ Lock(t, "call_once", "call_once.test")
    BY <2>1 DEF Lock
  <2>2. CASE Unlock(t, "is_completed.unlock", "get") \/ Unlock(t, "call_once.unlock", "get_or_init")
    BY <2>2 DEF Unlock
  <2>3. CASE LoadCompleted(t)
    <3>1. WO!Answer(t)
      BY <2>3 DEF LoadCompleted, WO!Answer, WO!Get, DataInv, ThreadInv, Op
    <3> QED BY <3>1 DEF WO!Next
  <2>4. CASE TestCompleted(t)
    <3>1. CASE ~completed
      BY <2>4, <3>1 DEF TestCompleted
    <3>2. CASE completed
      <4>1. op[t] \in {"set", "get_or_init"} /\ ~taken[t] /\ data \in Value
        BY <2>4, <3>2 DEF TestCompleted, DataInv, ThreadInv
      <4>2. CASE op[t] = "set"
        <5>1. WO!Set(t)
          BY <2>4, <3>2, <4>1, <4>2 DEF TestCompleted, WO!Set
        <5> QED BY <2>4, <3>2, <5>1 DEF TestCompleted, WO!Answer, WO!Next, Op
      <4>3. CASE op[t] = "get_or_init"
        <5>1. WO!GetOrInit(t)
          BY <2>4, <3>2, <4>1, <4>3 DEF TestCompleted, WO!GetOrInit
        <5> QED BY <2>4, <3>2, <5>1 DEF TestCompleted, WO!Answer, WO!Next, Op
      <4> QED BY <4>1, <4>2, <4>3
    <3> QED BY <3>1, <3>2
  <2>5. CASE WriteData(t)
    BY <2>5 DEF WriteData, ThreadInv
  <2>6. CASE SetCompleted(t)
    <3>1. /\ op[t] \in {"set", "get_or_init"} /\ taken[t] /\ ~completed
          /\ data = arg[t] /\ data \in Value
      BY <2>6 DEF SetCompleted, ThreadInv
    <3>2. \A u \in Thread : u # t => pc[u] \notin {"call_once.unlock", "get_or_init"} /\ ~seen[u]
      BY <3>1 DEF ThreadInv
    <3>3. CASE op[t] = "set"
      <4>1. WO!Set(t)
        BY <2>6, <3>1, <3>2, <3>3 DEF SetCompleted, WO!Set
      <4> QED BY <2>6, <4>1 DEF SetCompleted, WO!Answer, WO!Next, Op
    <3>4. CASE op[t] = "get_or_init"
      <4>1. WO!GetOrInit(t)
        BY <2>6, <3>1, <3>2, <3>4 DEF SetCompleted, WO!GetOrInit
      <4> QED BY <2>6, <4>1 DEF SetCompleted, WO!Answer, WO!Next, Op
    <3> QED BY <3>1, <3>3, <3>4
  <2>7. CASE GetReturns(t)
    <3>1. WO!Return(t)
      BY <2>7 DEF GetReturns, Return, WO!Return, DataInv, ThreadInv
    <3> QED BY <3>1 DEF WO!Next
  <2>8. CASE GetOrInitReturns(t)
    <3>1. WO!Return(t)
      BY <2>8 DEF GetOrInitReturns, Return, WO!Return, DataInv, ThreadInv
    <3> QED BY <3>1 DEF WO!Next
  <2>9. CASE SetReturns(t)
    <3>1. WO!Return(t)
      BY <2>9 DEF SetReturns, Return, WO!Return, DataInv, ThreadInv
    <3> QED BY <3>1 DEF WO!Next
  <2> QED BY <1>2, <2>1, <2>2, <2>3, <2>4, <2>5, <2>6, <2>7, <2>8, <2>9 DEF Step
<1>3. ASSUME NEW t \in Thread, Begin(t) PROVE [WO!Next]_WO!vars
  <2>1. PICK o \in Op, v \in Value \cup {None}, to \in LockPoint : Invoke(t, o, v, to)
    BY <1>3 DEF Begin, Get, Set, GetOrInit, Op, LockPoint
  <2>2. [op |-> o, arg |-> v] \in WO!Call
    BY DEF WO!Call, Op
  <2>3. WO!Invoke(t, [op |-> o, arg |-> v])
    BY <2>1 DEF Invoke, WO!Invoke, LockPoint
  <2> QED BY <2>2, <2>3 DEF WO!Next
<1> QED BY <1>1, <1>2, <1>3 DEF Next

\* OnceLock implements WriteOnce: its calls are linearisable.
THEOREM Linearisable == Spec => ImplementsWriteOnce
  BY InitRefines, StepRefines, Invariant, PTL DEF Spec, ImplementsWriteOnce, WO!Spec
===============================================================================
