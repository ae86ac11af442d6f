------------------------------ MODULE KernelLocks -----------------------------
(***************************************************************************)
(* Who holds which spin lock when the core is taken away.  The kernel's    *)
(* locks are spin locks; on one core a spinner makes progress only if the  *)
(* holder gets the core back, which needs a timer interrupt, which needs   *)
(* interrupts to be unmasked.                                              *)
(*                                                                         *)
(* A piece of kernel code is abstracted to the sequence of its lock        *)
(* operations and of its changes of the interrupt mask.  What Scheduler    *)
(* models in detail, the switch to the next task, is one operation here.   *)
(***************************************************************************)
EXTENDS Naturals, Sequences, SequencesExt

CONSTANTS
  Kinit,      \* the initialisation task, which becomes the CLI
  Kthreads,   \* the sequence of kernel threads that kernel_init creates
  CliWrites,  \* does the /bin/cli that kinit becomes call write?
  MinCapacity \* how many slots a VecDeque gets when it first grows (4 in alloc)

Nobody == "nobody"
Irq    == "irq"

ASSUME KernelLocksAssumption ==
  /\ Kthreads \in Seq(STRING \ {Nobody, Irq, Kinit})
  /\ IsInjective(Kthreads)
  /\ Kinit \in STRING \ {Nobody, Irq}
  /\ CliWrites \in BOOLEAN
  /\ MinCapacity \in Nat \ {0}

Task == {Kinit} \cup {Kthreads[i] : i \in DOMAIN Kthreads}

\* SCHEDULER, DEVICE, MONOTONIC and INSTALLED_TABLE stand for the Once.lock of
\* the OnceLock of that name.
LockId ==
  {"SCHEDULER", "DEVICE", "MONOTONIC", "INSTALLED_TABLE", "Scheduler", "Serial",
   "ALLOCATOR", "PageAllocator", "MemoryContext", "mounts", "directories",
   "files", "position", "InterruptRouter", "InterruptController", "Timer"}

VARIABLES
  owner,    \* who holds each lock: a task, the interrupt handler, or nobody
  ring,     \* the scheduler's tasks: the running one, then those in the queue
  capacity, \* how many tasks the queue can hold before it has to grow
  at,       \* how many operations of its code each task has done
  handler,  \* how many operations the interrupt handler has done, if it runs
  inIrq,    \* is the interrupt handler running?
  masked,   \* are interrupts masked?
  ran       \* has the running task had the core since the last switch?

vars == <<owner, ring, capacity, at, handler, inIrq, masked, ran>>

-------------------------------------------------------------------------------
(***************************************************************************)
(* The code, as sequences of operations.                                   *)
(***************************************************************************)
Acq(l) == [op |-> "lock", l |-> l]
Rel(l) == [op |-> "unlock", l |-> l]
Mask   == [op |-> "mask", l |-> "none"]
Unmask == [op |-> "unmask", l |-> "none"]
Spawn  == [op |-> "spawn", l |-> "none"]
Switch == [op |-> "switch", l |-> "none"]

\* Lock::call(body), and Mutex::lock up to the guard's drop.
Holding(l, body) == <<Acq(l)>> \o body \o <<Rel(l)>>
Section(l) == Holding(l, <<>>)

\* Mutant of Critical: the lock is taken before interrupts are masked.
CriticalLate(l, body) == <<Acq(l), Mask>> \o body \o <<Rel(l), Unmask>>

\* critical(|| lock.call(body)).
Critical(l, body) == <<Mask, Acq(l)>> \o body \o <<Rel(l), Unmask>>

\* task::current_task: the OnceLock, then current_task_id and task.
CurrentTask ==
  Section("SCHEDULER") \o Critical("Scheduler", <<>>) \o Critical("Scheduler", <<>>)

\* Mutant of Write: an early return leaves the device locked.
WriteLeaks == Section("DEVICE") \o <<Acq("Serial")>>

\* print!: the OnceLock of the device, then its lock for every byte.
Write == Section("DEVICE") \o Section("Serial")

\* println! prints a time stamp first.
Println == Section("MONOTONIC") \o Write \o Write

\* A heap allocation, and MemoryContext::alloc_page_raw.
Alloc == Section("ALLOCATOR")
AllocPage == Holding("MemoryContext", Section("PageAllocator") \o Alloc)

\* create_kthread: the first table page, the stack page, the closure; then
\* add_task, which inserts into its collections (and so allocates) under the
\* scheduler's lock.
CreateKthread ==
  Section("PageAllocator") \o AllocPage \o Alloc \o
    Critical("Scheduler", Alloc \o <<Spawn>>)

\* TaskExecutionService::execute: current_task, FileManager::open, one read of
\* the file and one page of the program.
Execute ==
  CurrentTask \o Section("mounts") \o Holding("position", Section("directories"))
    \o Holding("position", Holding("files", Alloc)) \o AllocPage

\* SysWrite::call, from the svc to the eret: interrupts stay masked throughout.
SysWrite ==
  <<Mask>> \o Section("INSTALLED_TABLE") \o Section("SCHEDULER") \o
    Section("Scheduler") \o Section("Scheduler") \o Alloc \o Write \o <<Unmask>>

\* kernel_init from create_and_become_kinit on, up to the eret of enter_el0.
KinitProlog ==
  FlattenSeq([i \in DOMAIN Kthreads |-> CreateKthread]) \o Println \o Execute

\* What a task does once, and what it then does for ever.
Prolog(t) == IF t = Kinit THEN KinitProlog ELSE <<>>
Body(t) ==
  IF t = Kinit THEN IF CliWrites THEN SysWrite ELSE <<>>
  ELSE CurrentTask \o Write

\* vector_irq, InterruptRouter::handle, Scheduler::schedule, after_schedule.
Handler ==
  Section("INSTALLED_TABLE") \o
    Holding("InterruptRouter",
            Section("InterruptController") \o Section("InterruptController")) \o
    Holding("Scheduler", <<Switch>>) \o
    Section("Timer") \o <<Unmask>>

\* The operation that comes next, or Idle for a task that only burns cycles.
Idle == [op |-> "idle", l |-> "none"]

TaskOp(t) ==
  LET n == at[t] IN
    IF n < Len(Prolog(t)) THEN Prolog(t)[n + 1]
    ELSE IF Body(t) = <<>> THEN Idle
    ELSE Body(t)[n - Len(Prolog(t)) + 1]

Advance(t) ==
  LET n == at[t] + 1 IN
    IF n = Len(Prolog(t)) + Len(Body(t)) THEN Len(Prolog(t)) ELSE n

-------------------------------------------------------------------------------
Current == Head(ring)

\* Init is the state in which become_kinit's own schedule() has left the core;
\* its push_back gave the queue its first slots.
Init ==
  /\ owner = [l \in LockId |-> Nobody]
  /\ ring = <<Kinit>> /\ capacity = MinCapacity
  /\ at = [t \in Task |-> 0]
  /\ handler = 0 /\ inIrq = FALSE /\ masked = FALSE /\ ran = FALSE

\* Mutant of Rotate: the next task is read with front() and stays in the queue.
RotateKeeps(r) == Append(r, Head(r))

\* The running task goes to the back of the queue, the front of it comes out.
Rotate(r) == Append(Tail(r), Head(r))

\* A push_back (by add_task or by schedule) finds every slot of the queue taken,
\* allocates one twice as large and moves.
QueueFull == Len(ring) - 1 = capacity

\* What operation o does when `who` performs it.
Perform(o, who) ==
  /\ owner' = CASE o.op = "lock"   -> [owner EXCEPT ![o.l] = who]
                [] o.op = "unlock" -> [owner EXCEPT ![o.l] = Nobody]
                [] OTHER           -> owner
  /\ masked' = CASE o.op = "mask"   -> TRUE
                 [] o.op = "unmask" -> FALSE
                 [] OTHER           -> masked
  /\ ring' = CASE o.op = "spawn"  -> Append(ring, Kthreads[Len(ring)])
               [] o.op = "switch" -> Rotate(ring)
               [] OTHER           -> ring
  /\ capacity' = IF o.op \in {"spawn", "switch"} /\ QueueFull
                 THEN 2 * capacity ELSE capacity

\* The lock that operation o waits for is free.  A switch waits for the heap if
\* its push_back grows the queue; masked, it has that lock for no one to see.
\* (CreateKthread has the allocation of its push_back as a section of its own.)
Free(o) ==
  /\ o.op = "lock" => owner[o.l] = Nobody
  /\ o.op = "switch" /\ QueueFull => owner["ALLOCATOR"] = Nobody

\* The running task performs its next operation.
TaskStep ==
  /\ ~inIrq
  /\ LET t == Current IN
       /\ Free(TaskOp(t)) /\ TaskOp(t) # Idle
       /\ Perform(TaskOp(t), t)
       /\ at' = [at EXCEPT ![t] = Advance(t)]
  /\ ran' = TRUE
  /\ UNCHANGED <<handler, inIrq>>

\* compare_exchange fails (or the task just burns cycles).
Spin ==
  /\ ~inIrq
  /\ ~Free(TaskOp(Current)) \/ TaskOp(Current) = Idle
  /\ ran' = TRUE
  /\ UNCHANGED <<owner, ring, capacity, at, handler, inIrq, masked>>

\* The timer interrupt, after a quantum in which the task did something.
TakeIrq ==
  /\ ~inIrq /\ ~masked /\ ran
  /\ inIrq' = TRUE /\ masked' = TRUE /\ handler' = 0
  /\ UNCHANGED <<owner, ring, capacity, at, ran>>

\* The handler performs its next operation; the last one returns from it.
HandlerStep ==
  /\ inIrq
  /\ LET o == Handler[handler + 1] IN
       /\ Free(o)
       /\ Perform(o, Irq)
       /\ ran' = (ran /\ o.op # "switch")
       /\ handler' = IF handler + 1 = Len(Handler) THEN 0 ELSE handler + 1
       /\ inIrq' = (handler + 1 # Len(Handler))
  /\ UNCHANGED at

Next == TaskStep \/ Spin \/ TakeIrq \/ HandlerStep

Spec == Init /\ [][Next]_vars

\* The core keeps executing, and a quantum ends.
FairSpec ==
  Spec /\ WF_vars(TaskStep) /\ WF_vars(Spin) /\ WF_vars(HandlerStep) /\ WF_vars(TakeIrq)

-------------------------------------------------------------------------------
(***************************************************************************)
(* Properties.                                                             *)
(***************************************************************************)
\* A lock has one owner, the scheduler has each task once, and the queue, which
\* schedule() and add_task push to, holds no more tasks than it has slots.
TypeOK ==
  /\ owner \in [LockId -> Task \cup {Nobody, Irq}]
  /\ ring \in Seq(Task) /\ IsInjective(ring)
  /\ capacity \in Nat /\ Len(ring) - 1 <= capacity
  /\ at \in [Task -> Nat] /\ handler \in Nat
  /\ inIrq \in BOOLEAN /\ masked \in BOOLEAN /\ ran \in BOOLEAN

\* Nobody waits for a lock with interrupts masked, so that a holder that does not
\* run can always get the core back.  The interrupt handler never waits: whatever
\* was interrupted, every lock that vector_irq, InterruptRouter, schedule and
\* set_duration take is free, and so is the heap's when schedule has to grow the
\* queue.  No more does a task in a critical section.
MaskedNeverSpins ==
  /\ inIrq => Free(Handler[handler + 1])
  /\ masked /\ ~inIrq => Free(TaskOp(Current))

\* The system keeps working: locks are taken for ever, no lock blocks all.
KeepsAcquiring == []<><<TaskStep /\ owner' # owner>>_vars
===============================================================================
