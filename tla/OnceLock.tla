-------------------------------- MODULE OnceLock ------------------------------
(***************************************************************************)
(* The one-time initialisation cell behind every kernel singleton: a Lock  *)
(* (spin lock) inside a Once inside an OnceLock.  Threads call get, set    *)
(* and get_or_init in any order; each of them can be preempted between any *)
(* two accesses to shared state, and the value is read after the lock has  *)
(* been released.                                                          *)
(***************************************************************************)
CONSTANTS
  Thread,
  Value,
  None,      \* Option::None
  Uninit,    \* the bytes of a MaybeUninit that was never written
  Idle       \* no call in progress, no result yet

ASSUME OnceLockAssumption ==
  /\ None \notin Value /\ Uninit \notin Value /\ Idle \notin Value
  /\ None # Uninit /\ None # Idle /\ Uninit # Idle
  /\ {"ok", "err"} \cap (Value \cup {None, Idle, Uninit}) = {}
  /\ \A o \in {"get", "set", "get_or_init"}, v \in Value \cup {None} :
       [op |-> o, arg |-> v] # Idle

VARIABLES
  lock,        \* Once.lock.locked
  completed,   \* Once.completed
  data,        \* OnceLock.data
  pc,          \* the point each thread has reached
  op, arg,     \* the call each thread has in progress and its argument
  taken,       \* has the closure consumed the argument?
  seen,        \* what is_completed returned
  result       \* what each thread's latest call returned

vars == <<lock, completed, data, pc, op, arg, taken, seen, result>>

Op == {"get", "set", "get_or_init"}

LockPoint  == {"is_completed", "call_once"}
HeldPoint  == {"is_completed.load", "is_completed.unlock", "call_once.test",
               "call_once.f", "call_once.completed", "call_once.unlock"}
AfterPoint == {"get", "get_or_init"}
Point      == {"idle"} \cup LockPoint \cup HeldPoint \cup AfterPoint

\* OnceLock::new: an empty cell.
Init ==
  /\ lock = FALSE /\ completed = FALSE /\ data = Uninit
  /\ pc = [t \in Thread |-> "idle"]
  /\ op = [t \in Thread |-> "get"]
  /\ arg = [t \in Thread |-> None]
  /\ taken = [t \in Thread |-> FALSE]
  /\ seen = [t \in Thread |-> FALSE]
  /\ result = [t \in Thread |-> Idle]

Goto(t, p) == pc' = [pc EXCEPT ![t] = p]

Move(t, from, to) == pc[t] = from /\ Goto(t, to)

Invoke(t, o, v, to) ==
  /\ Move(t, "idle", to)
  /\ op' = [op EXCEPT ![t] = o]
  /\ arg' = [arg EXCEPT ![t] = v]
  /\ UNCHANGED <<lock, completed, data, taken, seen, result>>

\* Mutant of Get: an empty cell is initialised instead of reported.
GetInitialises(t) == Invoke(t, "get", None, "call_once")

Get(t)          == Invoke(t, "get", None, "is_completed")
Set(t, v)       == Invoke(t, "set", v, "call_once")
GetOrInit(t, v) == Invoke(t, "get_or_init", v, "call_once")

\* Lock::lock: the compare_exchange that succeeds; a failing one changes nothing.
Lock(t, from, to) ==
  /\ Move(t, from, to)
  /\ lock = FALSE
  /\ lock' = TRUE
  /\ UNCHANGED <<completed, data, op, arg, taken, seen, result>>

\* Lock::unlock.
Unlock(t, from, to) ==
  /\ Move(t, from, to)
  /\ lock' = FALSE
  /\ UNCHANGED <<completed, data, op, arg, taken, seen, result>>

\* The closure of Once::is_completed.
LoadCompleted(t) ==
  /\ Move(t, "is_completed.load", "is_completed.unlock")
  /\ seen' = [seen EXCEPT ![t] = completed]
  /\ UNCHANGED <<lock, completed, data, op, arg, taken, result>>

\* Mutant of TestCompleted: the flag is not consulted.
TestNothing(t) ==
  /\ Move(t, "call_once.test", "call_once.f")
  /\ UNCHANGED <<lock, completed, data, op, arg, taken, seen, result>>

\* Mutant of TestCompleted: waits, lock in hand, for completed to be reset.
TestWaits(t) ==
  /\ Move(t, "call_once.test", IF completed THEN "call_once.test" ELSE "call_once.f")
  /\ UNCHANGED <<lock, completed, data, op, arg, taken, seen, result>>

\* The closure of Once::call_once: run f unless some call completed before, ...
TestCompleted(t) ==
  /\ Move(t, "call_once.test",
          IF completed THEN "call_once.unlock" ELSE "call_once.f")
  /\ UNCHANGED <<lock, completed, data, op, arg, taken, seen, result>>

\* Mutant of WriteData: completed is set before the value is written.
WriteDataLate(t) ==
  /\ Move(t, "call_once.f", "call_once.unlock")
  /\ taken' = [taken EXCEPT ![t] = TRUE]
  /\ completed' = TRUE
  /\ UNCHANGED <<lock, data, op, arg, seen, result>>

\* ... f takes the argument and get_or_init's closure writes it, ...
WriteData(t) ==
  /\ Move(t, "call_once.f", "call_once.completed")
  /\ taken' = [taken EXCEPT ![t] = TRUE]
  /\ data' = arg[t]
  /\ UNCHANGED <<lock, completed, op, arg, seen, result>>

\* ... and the flag is set.
SetCompleted(t) ==
  /\ Move(t, "call_once.completed", "call_once.unlock")
  /\ completed' = TRUE
  /\ UNCHANGED <<lock, data, op, arg, taken, seen, result>>

\* The call returns r and its locals are gone.
Return(t, r) ==
  /\ Goto(t, "idle")
  /\ result' = [result EXCEPT ![t] = r]
  /\ op' = [op EXCEPT ![t] = "get"]
  /\ arg' = [arg EXCEPT ![t] = None]
  /\ taken' = [taken EXCEPT ![t] = FALSE]
  /\ seen' = [seen EXCEPT ![t] = FALSE]
  /\ UNCHANGED <<lock, completed, data>>

\* The end of OnceLock::get: the value is read without the lock.
GetReturns(t) ==
  /\ pc[t] = "get"
  /\ Return(t, IF seen[t] THEN data ELSE None)

\* The end of OnceLock::get_or_init, also without the lock.
GetOrInitReturns(t) ==
  /\ pc[t] = "get_or_init" /\ op[t] = "get_or_init"
  /\ Return(t, data)

\* The end of OnceLock::set, which discards the reference get_or_init returns.
SetReturns(t) ==
  /\ pc[t] = "get_or_init" /\ op[t] = "set"
  /\ Return(t, IF taken[t] THEN "ok" ELSE "err")

\* What a thread does next once it is inside a call.
Step(t) ==
  \/ Lock(t, "is_completed", "is_completed.load")
  \/ LoadCompleted(t)
  \/ Unlock(t, "is_completed.unlock", "get")
  \/ GetReturns(t)
  \/ Lock(t, "call_once", "call_once.test")
  \/ TestCompleted(t)
  \/ WriteData(t)
  \/ SetCompleted(t)
  \/ Unlock(t, "call_once.unlock", "get_or_init")
  \/ GetOrInitReturns(t)
  \/ SetReturns(t)

Begin(t) == Get(t) \/ \E v \in Value : Set(t, v) \/ GetOrInit(t, v)

Next == \E t \in Thread : Step(t) \/ Begin(t)

Spec == Init /\ [][Next]_vars

\* A thread that is inside a call keeps being scheduled.
FairSpec == Spec /\ \A t \in Thread : WF_vars(Step(t))

-------------------------------------------------------------------------------
(***************************************************************************)
(* Properties.                                                             *)
(***************************************************************************)
\* The values the fields of OnceLock and the locals of its methods can take.
TypeOK ==
  /\ lock \in BOOLEAN /\ completed \in BOOLEAN
  /\ data \in Value \cup {Uninit}
  /\ pc \in [Thread -> Point]
  /\ op \in [Thread -> Op]
  /\ arg \in [Thread -> Value \cup {None}]
  /\ taken \in [Thread -> BOOLEAN]
  /\ seen \in [Thread -> BOOLEAN]
  /\ result \in [Thread -> Value \cup {None, Idle, Uninit, "ok", "err"}]

Holding(t) == pc[t] \in HeldPoint

(***************************************************************************)
(* The invariant that the proofs use: who may be where, given what has     *)
(* been written.                                                           *)
(***************************************************************************)
DataInv ==
  /\ completed => data \in Value
  /\ ~completed /\ data # Uninit => \E t \in Thread : pc[t] = "call_once.completed"
  /\ \A t \in Thread :
       result[t] \in {None, Idle, "ok", "err"} \/ (completed /\ result[t] = data)

ThreadInv(t) ==
  /\ pc[t] \in {"is_completed", "is_completed.load", "is_completed.unlock", "get"} =>
       op[t] = "get"
  /\ pc[t] \in {"call_once", "call_once.test", "call_once.f", "call_once.completed",
               "call_once.unlock", "get_or_init"} =>
       op[t] \in {"set", "get_or_init"} /\ arg[t] \in Value
  /\ pc[t] = "call_once.f" => ~completed /\ data = Uninit
  /\ pc[t] = "call_once.completed" => ~completed /\ data = arg[t] /\ taken[t]
  /\ pc[t] \in {"call_once.unlock", "get_or_init"} => completed
  /\ pc[t] \in {"call_once", "call_once.test", "call_once.f"} => ~taken[t]
  /\ pc[t] = "idle" => ~taken[t]
  /\ seen[t] => completed

\* Lock provides mutual exclusion: it is set exactly while one thread is inside
\* a closure of Once, however the threads are preempted.
MutualExclusion ==
  /\ lock <=> \E t \in Thread : Holding(t)
  /\ \A t, u \in Thread : Holding(t) /\ Holding(u) => t = u

\* The inductive invariant behind the properties below.
Inv == TypeOK /\ MutualExclusion /\ DataInv /\ \A t \in Thread : ThreadInv(t)

\* assume_init_ref is never applied to uninitialised memory, although get and
\* get_or_init apply it after they have released the lock.
NeverReadsUninit ==
  \A t \in Thread :
    \/ pc[t] = "get" /\ seen[t]
    \/ pc[t] = "get_or_init"
    => data \in Value

\* A call never answers with what nobody stored: every result is None, the
\* stored value, or set's verdict.
ResultsAreStored ==
  \A t \in Thread : result[t] \in {None, Idle, "ok", "err", data} \ {Uninit}

\* The cell is written at most once, and is_completed never reverts.
WrittenOnce ==
  [][ /\ data # Uninit => data' = data
      /\ completed => completed' ]_vars

\* Nobody keeps the lock: once taken, it is free again later.
LockReleased == lock ~> ~lock

(***************************************************************************)
(* OnceLock implements WriteOnce: a winning call takes effect when it sets *)
(* completed, a losing one and a get when they read it.                    *)
(***************************************************************************)
AbstractAnswer(t) ==
  CASE pc[t] \in {"is_completed.unlock", "get"} -> IF seen[t] THEN data ELSE None
    [] pc[t] \in {"call_once.unlock", "get_or_init"} ->
         IF op[t] = "get_or_init" THEN data
         ELSE IF taken[t] THEN "ok" ELSE "err"
    [] OTHER -> Idle

WO == INSTANCE WriteOnce WITH
  Empty   <- None,
  cell    <- IF completed THEN data ELSE None,
  pending <- [t \in Thread |-> IF pc[t] = "idle" THEN Idle
                               ELSE [op |-> op[t], arg |-> arg[t]]],
  answer  <- [t \in Thread |-> AbstractAnswer(t)],
  last    <- result

\* OnceLock is linearisable: it implements the atomic write-once cell.
ImplementsWriteOnce == WO!Spec
===============================================================================
