------------------------------- MODULE WriteOnce ------------------------------
(***************************************************************************)
(* What OnceLock promises ("A synchronization primitive which can be       *)
(* written to only once", kernel/src/sync/once_lock.rs:7): a cell that is  *)
(* empty until the first set or get_or_init, and holds that value for      *)
(* ever.  Every call is answered at one instant between the moment it is   *)
(* invoked and the moment it returns.                                      *)
(***************************************************************************)
CONSTANTS Thread, Value, Empty, Idle

VARIABLES
  cell,      \* Empty, or the value
  pending,   \* the call each thread has in progress, or Idle
  answer,    \* the answer each pending call has got, or Idle
  last       \* what each thread's latest call returned, or Idle

vars == <<cell, pending, answer, last>>

Call == [op : {"get", "set", "get_or_init"}, arg : Value \cup {Empty}]

Init ==
  /\ cell = Empty
  /\ pending = [t \in Thread |-> Idle]
  /\ answer = [t \in Thread |-> Idle]
  /\ last = [t \in Thread |-> Idle]

Invoke(t, c) ==
  /\ pending[t] = Idle
  /\ pending' = [pending EXCEPT ![t] = c]
  /\ UNCHANGED <<cell, answer, last>>

Get(t) ==
  /\ pending[t].op = "get"
  /\ answer' = [answer EXCEPT ![t] = cell]
  /\ UNCHANGED cell

Set(t) ==
  /\ pending[t].op = "set"
  /\ cell' = IF cell = Empty THEN pending[t].arg ELSE cell
  /\ answer' = [answer EXCEPT ![t] = IF cell = Empty THEN "ok" ELSE "err"]

GetOrInit(t) ==
  /\ pending[t].op = "get_or_init"
  /\ cell' = IF cell = Empty THEN pending[t].arg ELSE cell
  /\ answer' = [answer EXCEPT ![t] = cell']

\* The instant at which a call takes effect.
Answer(t) ==
  /\ pending[t] # Idle /\ answer[t] = Idle
  /\ Get(t) \/ Set(t) \/ GetOrInit(t)
  /\ UNCHANGED <<pending, last>>

Return(t) ==
  /\ answer[t] # Idle
  /\ last' = [last EXCEPT ![t] = answer[t]]
  /\ answer' = [answer EXCEPT ![t] = Idle]
  /\ pending' = [pending EXCEPT ![t] = Idle]
  /\ UNCHANGED cell

Next == \E t \in Thread : Answer(t) \/ Return(t) \/ \E c \in Call : Invoke(t, c)

Spec == Init /\ [][Next]_vars
===============================================================================
