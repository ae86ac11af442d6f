------------------------------ MODULE RoundRobin ------------------------------
(***************************************************************************)
(* What the scheduler promises ("A round-robin task scheduler",            *)
(* kernel/src/task/scheduler.rs:16): the runnable tasks form a ring whose  *)
(* head is the task that owns the core.  A new task joins at the tail, a   *)
(* context switch moves the head to the tail, and nobody ever leaves.      *)
(***************************************************************************)
EXTENDS Naturals, Sequences

CONSTANT Task

VARIABLE ring    \* the runnable tasks, the running one first

Members == {ring[i] : i \in 1..Len(ring)}

Init == ring = <<>>

\* The first task adopts the running core.
Become(t) ==
  /\ ring = <<>>
  /\ ring' = <<t>>

\* A task joins the ring behind everybody who is already waiting.
Add(t) ==
  /\ ring # <<>>
  /\ t \notin Members
  /\ ring' = Append(ring, t)

\* The core passes to the task that has waited longest.
Rotate ==
  /\ ring # <<>>
  /\ ring' = Append(Tail(ring), Head(ring))

Next == Rotate \/ \E t \in Task : Become(t) \/ Add(t)

Spec == Init /\ [][Next]_ring
===============================================================================
