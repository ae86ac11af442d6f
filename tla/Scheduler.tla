------------------------------- MODULE Scheduler ------------------------------
(***************************************************************************)
(* Preemptive scheduling on the one core that pimento drives: the          *)
(* Scheduler, the context switch it performs, the exception vectors that   *)
(* enter and leave the kernel, the interrupt mask, and the timer.          *)
(*                                                                         *)
(* The core executes one program point at a time (pc).  Code that runs     *)
(* with interrupts masked cannot be interleaved with anything but the      *)
(* timer; code that runs unmasked can lose the core after any step.  The   *)
(* points are chosen so that every store an interrupt could observe        *)
(* half-done is a step of its own.                                         *)
(*                                                                         *)
(* A task is represented by its kernel stack (trap frames and the locals   *)
(* of the calls in progress) and by the CpuContext saved for it.           *)
(***************************************************************************)
EXTENDS Naturals, Sequences

CONSTANTS
  MaxTasks,     \* bound: how many tasks are ever created
  SlowReturn,   \* may a whole quantum elapse between set_duration and eret?
  EntryWindow,  \* may the timer interrupt hit enter_el0 between msr and eret?
  HolderLosesCore \* may it hit a thread that holds one of the SpinLock?

ASSUME SchedulerAssumption ==
  /\ MaxTasks \in Nat \ {0}
  /\ SlowReturn \in BOOLEAN
  /\ EntryWindow \in BOOLEAN
  /\ HolderLosesCore \in BOOLEAN

TaskId == 1 .. MaxTasks
None   == 0               \* Option::None in current_tasks
Kinit  == 1               \* the first ID that TaskId::next() returns

\* The spin locks that kernel threads take with interrupts enabled and masked
\* code takes too: the heap's, those on the way to the serial device (DEVICE and
\* the driver's), and that of the OnceLock SCHEDULER.
SpinLock == {"heap", "device", "SCHEDULER"}

VARIABLES
  nextId,    \* TaskId::next's COUNTER
  tasks,     \* Scheduler.tasks: the registered tasks
  queue,     \* Scheduler.queue
  current,   \* Scheduler.current_tasks[0]
  lock,      \* Scheduler.lock
  prev,      \* the local prev_task of the schedule() in progress
  timer,     \* the physical timer: "off", "armed" or "expired"
  pc, lr,    \* the core: program counter, link register of schedule()
  sp,        \* the task whose kernel stack the core is using
  ttbr0,     \* the task whose address space is installed
  el,        \* the exception level
  masked,    \* PSTATE.I: are interrupts masked?
  elr, spsr, \* ELR_EL1 and SPSR_EL1
  ctx,       \* the CpuContext of each task: saved lr and sp
  stack,     \* the trap frames on each kernel stack, innermost last
  daif,      \* the local `daif` of each task's critical()
  id,        \* the local task ID of each task's add_task or current_task
  ret,       \* where each task's current_task() returns to
  held       \* the task that holds each SpinLock

schedVars == <<nextId, tasks, queue, current, lock, prev>>
coreVars  == <<pc, lr, sp, ttbr0, el, masked, elr, spsr, timer>>
taskVars  == <<ctx, stack, daif, id, ret, held>>
vars      == <<schedVars, coreVars, taskVars>>

(***************************************************************************)
(* Program points.  "x" is the first point of x, "x.y" a later one.        *)
(***************************************************************************)
CallPoint ==
  {"add_task", "add_task.lock", "add_task.unlock", "add_task.restore",
   "current_task_id", "current_task_id.lock", "current_task_id.unlock",
   "current_task_id.restore",
   "task", "task.lock", "task.unlock", "task.restore"}
SchedulePoint ==
  {"schedule", "context_switch", "after_schedule", "set_duration",
   "enable_interrupts"}
VectorPoint == {"vector_irq", "vector_sync_el0", "load_regs", "eret"}
EntryPoint  == {"enter_el0", "enter_el0.elr", "enter_el0.eret"}
WritePoint  == {"write", "write.alloc", "write.print"}
BodyPoint   == {"thread", "holding", "loop", "user"}
Point ==
  CallPoint \cup SchedulePoint \cup VectorPoint \cup EntryPoint \cup WritePoint
    \cup BodyPoint \cup {"kernel_init", "cpu_context_entry", "zero"}

Pstate == [el : {0, 1}, masked : BOOLEAN]
Frame  == [elr : Point, spsr : Pstate]
EL0    == [el |-> 0, masked |-> FALSE]    \* SPSR_EL1_INIT_EL0

\* A CpuContext::new(): every register is zero.
ZeroContext == [lr |-> "zero", sp |-> None]

Top(s) == s[Len(s)]
Pop(s) == SubSeq(s, 1, Len(s) - 1)

Goto(p) == pc' = p

-------------------------------------------------------------------------------
(***************************************************************************)
(* Boot.  kernel_init runs on what becomes kinit's stack, at EL1 with all  *)
(* interrupts masked (SPSR_EL2_INIT).                                      *)
(***************************************************************************)
Init ==
  /\ nextId = Kinit /\ tasks = {} /\ queue = <<>> /\ current = None
  /\ lock = FALSE /\ prev = None /\ timer = "off"
  /\ pc = "kernel_init" /\ lr = "zero" /\ sp = Kinit /\ ttbr0 = None
  /\ el = 1 /\ masked = TRUE
  /\ elr = "zero" /\ spsr = [el |-> 1, masked |-> TRUE]
  /\ ctx = [t \in TaskId |-> ZeroContext]
  /\ stack = [t \in TaskId |-> <<>>]
  /\ daif = [t \in TaskId |-> FALSE]
  /\ id = [t \in TaskId |-> None]
  /\ ret = [t \in TaskId |-> "zero"]
  /\ held = [l \in SpinLock |-> None]

\* Scheduler::become_kinit: the booting core becomes the first task and then
\* schedules.  Masked throughout, so its critical section is one step.
BecomeKinit ==
  /\ pc = "kernel_init"
  /\ tasks = {} /\ current = None
  /\ tasks' = {nextId} /\ current' = nextId
  /\ ctx' = [ctx EXCEPT ![nextId] = ZeroContext]
  /\ nextId' = nextId + 1
  /\ lr' = "thread" /\ Goto("schedule")
  /\ UNCHANGED <<queue, lock, prev, timer, sp, ttbr0, el, masked, elr, spsr,
                 stack, daif, id, ret, held>>

(***************************************************************************)
(* Scheduler::schedule and after_schedule.                                 *)
(***************************************************************************)
\* Mutant of Schedule: current_tasks is not updated.
ScheduleKeepsCurrent ==
  /\ pc = "schedule"
  /\ ~lock /\ current # None
  /\ queue' = Tail(Append(queue, current))
  /\ lock' = TRUE
  /\ prev' = current
  /\ Goto("context_switch")
  /\ UNCHANGED <<nextId, tasks, current, lr, sp, ttbr0, el, masked, elr, spsr,
                 timer, taskVars>>

\* The lock is taken and stays taken across the switch; the current task goes
\* to the back of the queue and the front of the queue becomes current.  The
\* unwraps need a current task, and both tasks in the table.
Schedule ==
  /\ pc = "schedule"
  /\ ~lock /\ current # None
  /\ LET q == Append(queue, current) IN
       /\ {current, Head(q)} \subseteq tasks
       /\ current' = Head(q)
       /\ queue' = Tail(q)
  /\ lock' = TRUE
  /\ prev' = current
  /\ Goto("context_switch")
  /\ UNCHANGED <<nextId, tasks, lr, sp, ttbr0, el, masked, elr, spsr, timer,
                 taskVars>>

\* Mutants of ContextSwitch: the address space stays; the registers are saved
\* into the wrong CpuContext.
ContextSwitchKeepsTables ==
  /\ pc = "context_switch"
  /\ ctx' = [ctx EXCEPT ![prev] = [lr |-> lr, sp |-> sp]]
  /\ lr' = ctx'[current].lr
  /\ sp' = ctx'[current].sp
  /\ Goto("after_schedule")
  /\ UNCHANGED <<schedVars, ttbr0, el, masked, elr, spsr, timer, stack, daif,
                 id, ret, held>>

ContextSwitchSavesIntoNext ==
  /\ pc = "context_switch"
  /\ ttbr0' = current
  /\ ctx' = [ctx EXCEPT ![current] = [lr |-> lr, sp |-> sp]]
  /\ lr' = ctx'[current].lr
  /\ sp' = ctx'[current].sp
  /\ Goto("after_schedule")
  /\ UNCHANGED <<schedVars, el, masked, elr, spsr, timer, stack, daif, id, ret,
                 held>>

\* memory_context_switch, then cpu_context_switch: save into prev, load next.
ContextSwitch ==
  /\ pc = "context_switch"
  /\ ttbr0' = current
  /\ ctx' = [ctx EXCEPT ![prev] = [lr |-> lr, sp |-> sp]]
  /\ lr' = ctx'[current].lr
  /\ sp' = ctx'[current].sp
  /\ Goto("after_schedule")
  /\ UNCHANGED <<schedVars, el, masked, elr, spsr, timer, stack, daif, id, ret,
                 held>>

\* Mutant of AfterSchedule: interrupts are enabled before the timer is re-armed.
AfterScheduleUnmasks ==
  /\ pc = "after_schedule"
  /\ lock' = FALSE
  /\ masked' = FALSE
  /\ Goto("set_duration")
  /\ UNCHANGED <<nextId, tasks, queue, current, prev, lr, sp, ttbr0, el, elr,
                 spsr, timer, taskVars>>

\* after_schedule runs on the next task's stack: it releases the lock, ...
AfterSchedule ==
  /\ pc = "after_schedule"
  /\ lock' = FALSE
  /\ Goto("set_duration")
  /\ UNCHANGED <<nextId, tasks, queue, current, prev, lr, sp, ttbr0, el, masked,
                 elr, spsr, timer, taskVars>>

\* Mutant of SetDuration: the timer is left alone.
SetDurationDoesNothing ==
  /\ pc = "set_duration"
  /\ Goto("enable_interrupts")
  /\ UNCHANGED <<schedVars, lr, sp, ttbr0, el, masked, elr, spsr, timer, taskVars>>

\* ... re-arms the timer, which also withdraws its interrupt, ...
SetDuration ==
  /\ pc = "set_duration"
  /\ timer' = "armed"
  /\ Goto("enable_interrupts")
  /\ UNCHANGED <<schedVars, lr, sp, ttbr0, el, masked, elr, spsr, taskVars>>

\* ... unmasks interrupts and returns into the next task.
EnableInterrupts ==
  /\ pc = "enable_interrupts"
  /\ masked' = FALSE
  /\ Goto(lr)
  /\ UNCHANGED <<schedVars, lr, sp, ttbr0, el, elr, spsr, timer, taskVars>>

-------------------------------------------------------------------------------
(***************************************************************************)
(* Exceptions.                                                             *)
(***************************************************************************)
\* The points at which a pending eret owns ELR_EL1 and SPSR_EL1 in enter_el0.
EntryPending == {"enter_el0.elr", "enter_el0.eret"}

\* The way back from after_schedule to the interrupted code.  (A system call
\* also leaves through load_regs and eret, but masked.)
OnReturnPath ==
  \/ pc = "enable_interrupts"
  \/ ~masked /\ pc \in {"load_regs", "eret", "cpu_context_entry"}

\* The quantum runs out.  Unless SlowReturn, it is long enough for the core to
\* leave the interrupt handler first.
TimerExpires ==
  /\ timer = "armed"
  /\ SlowReturn \/ ~OnReturnPath
  /\ timer' = "expired"
  /\ UNCHANGED <<schedVars, pc, lr, sp, ttbr0, el, masked, elr, spsr, taskVars>>

\* Exception entry: the hardware fills ELR and SPSR and masks interrupts,
\* save_regs pushes them on the kernel stack.
TakeException(handler) ==
  /\ elr' = pc
  /\ spsr' = [el |-> el, masked |-> masked]
  /\ stack' = [stack EXCEPT ![sp] = Append(@, [elr |-> elr', spsr |-> spsr'])]
  /\ el' = 1 /\ masked' = TRUE
  /\ Goto(handler)
  /\ UNCHANGED <<schedVars, lr, sp, ttbr0, timer, ctx, daif, id, ret, held>>

\* The timer line is a level: while expired, it interrupts unmasked code.
TakeIrq ==
  /\ timer = "expired" /\ ~masked
  /\ EntryWindow \/ pc \notin EntryPending
  /\ HolderLosesCore \/ pc # "holding"
  /\ TakeException("vector_irq")

\* InterruptRouter::handle finds the timer pending and calls schedule.
HandleIrq ==
  /\ pc = "vector_irq"
  /\ timer = "expired"
  /\ lr' = "load_regs" /\ Goto("schedule")
  /\ UNCHANGED <<schedVars, sp, ttbr0, el, masked, elr, spsr, timer, taskVars>>

\* Mutant of LoadRegs: SPSR_EL1 is not restored.
LoadRegsWithoutSpsr ==
  /\ pc = "load_regs"
  /\ stack[sp] # <<>>
  /\ elr' = Top(stack[sp]).elr
  /\ Goto("eret")
  /\ UNCHANGED <<schedVars, lr, sp, ttbr0, el, masked, spsr, timer, taskVars>>

\* load_regs: ELR and SPSR come back from the innermost frame, ...
LoadRegs ==
  /\ pc = "load_regs"
  /\ stack[sp] # <<>>
  /\ elr' = Top(stack[sp]).elr
  /\ spsr' = Top(stack[sp]).spsr
  /\ Goto("eret")
  /\ UNCHANGED <<schedVars, lr, sp, ttbr0, el, masked, timer, taskVars>>

\* What eret does: whatever ELR and SPSR hold becomes the state of the core.
ReturnFromException ==
  /\ Goto(elr)
  /\ el' = spsr.el
  /\ masked' = spsr.masked

\* ... the frame is dropped and eret leaves the handler.
Eret ==
  /\ pc = "eret"
  /\ stack[sp] # <<>>
  /\ stack' = [stack EXCEPT ![sp] = Pop(@)]
  /\ ReturnFromException
  /\ UNCHANGED <<schedVars, lr, sp, ttbr0, elr, spsr, timer, ctx, daif, id, ret,
                 held>>

\* A user program executes svc.
Svc ==
  /\ pc = "user"
  /\ TakeException("vector_sync_el0")

\* Mutant of SysCallFails: the error ends the task instead of returning.
SysCallFailsForGood ==
  /\ pc = "vector_sync_el0"
  /\ masked' = FALSE
  /\ Goto("loop")
  /\ UNCHANGED <<schedVars, lr, sp, ttbr0, el, elr, spsr, timer, taskVars>>

\* SystemCallRouter::handle: an unknown number or a bad descriptor fails at once.
SysCallFails ==
  /\ pc = "vector_sync_el0"
  /\ Goto("load_regs")
  /\ UNCHANGED <<schedVars, lr, sp, ttbr0, el, masked, elr, spsr, timer, taskVars>>

\* Starts current_task(), which is to return to `to`.
CallCurrentTask(to) ==
  /\ ret' = [ret EXCEPT ![sp] = to]
  /\ Goto("current_task_id")
  /\ UNCHANGED <<schedVars, lr, sp, ttbr0, el, masked, elr, spsr, timer, ctx,
                 stack, daif, id, held>>

\* SysWrite::call on descriptor 1, which runs masked to its end.
SysWrite ==
  /\ pc = "vector_sync_el0"
  /\ Goto("write")
  /\ UNCHANGED <<schedVars, lr, sp, ttbr0, el, masked, elr, spsr, timer, taskVars>>

\* A SpinLock that masked code finds free: nobody can observe it between its
\* lock and its unlock.
FindsFree(l) == held[l] = None

\* current_task(), through SCHEDULER.get(), ...
WriteCurrentTask ==
  /\ pc = "write"
  /\ FindsFree("SCHEDULER")
  /\ CallCurrentTask("write.alloc")

\* ... the buffer from the heap and copy_from_user, which may refuse, ...
WriteAlloc ==
  /\ pc = "write.alloc"
  /\ FindsFree("heap")
  /\ Goto("write.print") \/ Goto("load_regs")
  /\ UNCHANGED <<schedVars, lr, sp, ttbr0, el, masked, elr, spsr, timer, taskVars>>

\* ... and print!.
WritePrint ==
  /\ pc = "write.print"
  /\ FindsFree("device")
  /\ Goto("load_regs")
  /\ UNCHANGED <<schedVars, lr, sp, ttbr0, el, masked, elr, spsr, timer, taskVars>>

\* Masked code whose compare_exchange fails: it spins, and nobody else can run.
SpinMasked ==
  /\ \/ pc = "write" /\ ~FindsFree("SCHEDULER")
     \/ pc \in {"add_task.lock", "write.alloc"} /\ ~FindsFree("heap")
     \/ pc = "write.print" /\ ~FindsFree("device")
  /\ UNCHANGED vars

-------------------------------------------------------------------------------
(***************************************************************************)
(* critical(|| lock.call(f)): mask, take the lock and run f, release,      *)
(* restore.                                                                *)
(***************************************************************************)
\* Mutant of DisableInterrupts: DAIF is read but not set.
DisableInterruptsReadsOnly(from, to) ==
  /\ pc = from
  /\ daif' = [daif EXCEPT ![sp] = masked]
  /\ Goto(to)
  /\ UNCHANGED <<schedVars, lr, sp, ttbr0, el, masked, elr, spsr, timer, ctx,
                 stack, id, ret, held>>

DisableInterrupts(from, to) ==
  /\ pc = from
  /\ daif' = [daif EXCEPT ![sp] = masked]
  /\ masked' = TRUE
  /\ Goto(to)
  /\ UNCHANGED <<schedVars, lr, sp, ttbr0, el, elr, spsr, timer, ctx, stack, id,
                 ret, held>>

Acquire(from, to) ==
  /\ pc = from
  /\ ~lock
  /\ lock' = TRUE
  /\ Goto(to)

Unlock(from, to) ==
  /\ pc = from
  /\ lock' = FALSE
  /\ Goto(to)
  /\ UNCHANGED <<nextId, tasks, queue, current, prev, lr, sp, ttbr0, el, masked,
                 elr, spsr, timer, taskVars>>

RestoreInterrupts(from, to) ==
  /\ pc = from
  /\ masked' = daif[sp]
  /\ Goto(to)
  /\ UNCHANGED <<schedVars, lr, sp, ttbr0, el, elr, spsr, timer, taskVars>>

(***************************************************************************)
(* What kernel threads do.                                                 *)
(***************************************************************************)
\* TaskCreationService::create_kthread: a fresh stack whose first return goes
\* to cpu_context_entry; then add_task.
CreateKthread ==
  /\ pc = "thread"
  /\ nextId <= MaxTasks
  /\ ctx' = [ctx EXCEPT ![nextId] = [lr |-> "cpu_context_entry", sp |-> nextId]]
  /\ id' = [id EXCEPT ![sp] = nextId]
  /\ nextId' = nextId + 1
  /\ Goto("add_task")
  /\ UNCHANGED <<tasks, queue, current, lock, prev, lr, sp, ttbr0, el, masked,
                 elr, spsr, timer, stack, daif, ret, held>>

\* Mutant of AddTask: the task jumps the queue.
AddTaskInFront ==
  /\ Acquire("add_task.lock", "add_task.unlock")
  /\ FindsFree("heap")
  /\ tasks' = tasks \cup {id[sp]}
  /\ queue' = <<id[sp]>> \o queue
  /\ UNCHANGED <<nextId, current, prev, lr, sp, ttbr0, el, masked, elr, spsr,
                 timer, taskVars>>

\* The closure of add_task; its two insertions allocate.
AddTask ==
  /\ Acquire("add_task.lock", "add_task.unlock")
  /\ FindsFree("heap")
  /\ tasks' = tasks \cup {id[sp]}
  /\ queue' = Append(queue, id[sp])
  /\ UNCHANGED <<nextId, current, prev, lr, sp, ttbr0, el, masked, elr, spsr,
                 timer, taskVars>>

\* The closure of current_task_id; its unwrap() needs a current task.
CurrentTaskId ==
  /\ Acquire("current_task_id.lock", "current_task_id.unlock")
  /\ current # None
  /\ id' = [id EXCEPT ![sp] = current]
  /\ UNCHANGED <<nextId, tasks, queue, current, prev, lr, sp, ttbr0, el, masked,
                 elr, spsr, timer, ctx, stack, daif, ret, held>>

\* The closure of task(); current_task's unwrap() needs the task to be there.
GetTask ==
  /\ Acquire("task.lock", "task.unlock")
  /\ id[sp] \in tasks
  /\ UNCHANGED <<nextId, tasks, queue, current, prev, lr, sp, ttbr0, el, masked,
                 elr, spsr, timer, taskVars>>

\* A kernel thread allocates, prints or asks for SCHEDULER: Lock::lock, with interrupts enabled.
TakeSpinLock(l) ==
  /\ pc = "thread"
  /\ held[l] = None
  /\ held' = [held EXCEPT ![l] = sp]
  /\ Goto("holding")
  /\ UNCHANGED <<schedVars, lr, sp, ttbr0, el, masked, elr, spsr, timer, ctx,
                 stack, daif, id, ret>>

\* Lock::unlock.
DropSpinLock(l) ==
  /\ pc = "holding"
  /\ held[l] = sp
  /\ held' = [held EXCEPT ![l] = None]
  /\ Goto("thread")
  /\ UNCHANGED <<schedVars, lr, sp, ttbr0, el, masked, elr, spsr, timer, ctx,
                 stack, daif, id, ret>>

CurrentTask == pc = "thread" /\ CallCurrentTask("thread")

\* TaskExecutionService::execute: current_task(), then the program is loaded
\* and entered.
Execute == pc = "thread" /\ CallCurrentTask("enter_el0")

\* Mutants of EnterEl0Spsr: the wrong mode bits; interrupts stay masked at EL0.
EnterEl0AtEl2 ==
  /\ pc = "enter_el0"
  /\ spsr' = [el |-> 2, masked |-> FALSE]
  /\ Goto("enter_el0.elr")
  /\ UNCHANGED <<schedVars, lr, sp, ttbr0, el, masked, elr, timer, taskVars>>

EnterEl0Masked ==
  /\ pc = "enter_el0"
  /\ spsr' = [el |-> 0, masked |-> TRUE]
  /\ Goto("enter_el0.elr")
  /\ UNCHANGED <<schedVars, lr, sp, ttbr0, el, masked, elr, timer, taskVars>>

\* enter_el0, one msr at a time, with interrupts enabled.
EnterEl0Spsr ==
  /\ pc = "enter_el0"
  /\ spsr' = EL0
  /\ Goto("enter_el0.elr")
  /\ UNCHANGED <<schedVars, lr, sp, ttbr0, el, masked, elr, timer, taskVars>>

EnterEl0Elr ==
  /\ pc = "enter_el0.elr"
  /\ elr' = "user"
  /\ Goto("enter_el0.eret")
  /\ UNCHANGED <<schedVars, lr, sp, ttbr0, el, masked, spsr, timer, taskVars>>

EnterEl0Eret ==
  /\ pc = "enter_el0.eret"
  /\ ReturnFromException
  /\ UNCHANGED <<schedVars, lr, sp, ttbr0, elr, spsr, timer, taskVars>>

\* cpu_context_entry branches to fn_trait_wrapper, which calls the function.
CpuContextEntry ==
  /\ pc = "cpu_context_entry"
  /\ Goto("thread")
  /\ UNCHANGED <<schedVars, lr, sp, ttbr0, el, masked, elr, spsr, timer, taskVars>>

\* A kthread's function returned: fn_trait_wrapper loops for ever.
FuncReturns ==
  /\ pc = "thread" /\ sp # Kinit
  /\ Goto("loop")
  /\ UNCHANGED <<schedVars, lr, sp, ttbr0, el, masked, elr, spsr, timer, taskVars>>

-------------------------------------------------------------------------------
Critical ==
  \/ DisableInterrupts("add_task", "add_task.lock")
  \/ AddTask
  \/ Unlock("add_task.unlock", "add_task.restore")
  \/ RestoreInterrupts("add_task.restore", "thread")
  \/ DisableInterrupts("current_task_id", "current_task_id.lock")
  \/ CurrentTaskId
  \/ Unlock("current_task_id.unlock", "current_task_id.restore")
  \/ RestoreInterrupts("current_task_id.restore", "task")
  \/ DisableInterrupts("task", "task.lock")
  \/ GetTask
  \/ Unlock("task.unlock", "task.restore")
  \/ RestoreInterrupts("task.restore", ret[sp])

Switch ==
  BecomeKinit \/ Schedule \/ ContextSwitch \/ AfterSchedule \/ SetDuration
    \/ EnableInterrupts

Vector ==
  HandleIrq \/ SysCallFails \/ SysWrite \/ WriteCurrentTask \/ WriteAlloc
    \/ WritePrint \/ LoadRegs \/ Eret

Entry == EnterEl0Spsr \/ EnterEl0Elr \/ EnterEl0Eret \/ CpuContextEntry

\* What the program counter forces, as opposed to what a task chooses to do.
Forced ==
  Critical \/ Switch \/ Vector \/ Entry \/ \E l \in SpinLock : DropSpinLock(l)

Chosen ==
  CreateKthread \/ CurrentTask \/ Execute \/ FuncReturns \/ Svc
    \/ \E l \in SpinLock : TakeSpinLock(l)

Next == Forced \/ Chosen \/ SpinMasked \/ TakeIrq \/ TimerExpires

Spec == Init /\ [][Next]_vars

(***************************************************************************)
(* The core never stops executing, the timer counts down, a pending        *)
(* interrupt is taken at some instruction boundary where it is unmasked,   *)
(* and a task that keeps getting the core executes an instruction of its   *)
(* own before the quantum (10 ms) ends.                                    *)
(***************************************************************************)
Fairness ==
  /\ WF_vars(Forced)
  /\ \A t \in TaskId : SF_vars(sp = t /\ (Critical \/ Entry))
  /\ WF_vars(TimerExpires)
  /\ SF_vars(TakeIrq)

FairSpec == Spec /\ Fairness

-------------------------------------------------------------------------------
(***************************************************************************)
(* Properties.                                                             *)
(***************************************************************************)
\* The values that the tables, the registers and the locals can take.
TypeOK ==
  /\ nextId \in 1 .. MaxTasks + 1
  /\ tasks \subseteq TaskId
  /\ queue \in Seq(TaskId)
  /\ current \in TaskId \cup {None} /\ prev \in TaskId \cup {None}
  /\ lock \in BOOLEAN
  /\ timer \in {"off", "armed", "expired"}
  /\ pc \in Point /\ lr \in Point /\ elr \in Point
  /\ sp \in TaskId \cup {None} /\ ttbr0 \in TaskId \cup {None}
  /\ el \in {0, 1} /\ masked \in BOOLEAN /\ spsr \in Pstate
  /\ ctx \in [TaskId -> [lr : Point, sp : TaskId \cup {None}]]
  /\ stack \in [TaskId -> Seq(Frame)]
  /\ daif \in [TaskId -> BOOLEAN]
  /\ id \in [TaskId -> TaskId \cup {None}]
  /\ ret \in [TaskId -> Point]
  /\ held \in [SpinLock -> TaskId \cup {None}]

Waiting == {queue[i] : i \in 1 .. Len(queue)}
Running == IF current = None THEN {} ELSE {current}

\* Scheduler.tasks, queue and current_tasks agree: every registered task holds
\* exactly one place, either the core or one slot of the queue, whatever point
\* of add_task, become_kinit or schedule the core has reached.
TasksScheduledOnce ==
  /\ tasks = Waiting \cup Running
  /\ current \notin Waiting
  /\ \A i, j \in 1 .. Len(queue) : queue[i] = queue[j] => i = j

\* The stack the core uses and the address space it has installed are those of
\* the task the scheduler calls current, at every point outside the window in
\* which schedule() moves from one task to the next.
StackAndTablesMatchCurrent ==
  /\ pc \notin {"kernel_init", "context_switch"} => sp = current
  /\ pc \notin {"kernel_init", "schedule", "context_switch"} => ttbr0 = current

\* The interrupt handler can never spin on Scheduler.lock: the lock is only
\* held with interrupts masked, and it is free whenever schedule() asks for it.
SchedulerLockFreeForHandler ==
  /\ ~masked => ~lock
  /\ pc = "schedule" => ~lock

\* A task waiting in the queue can be resumed: its CpuContext names its own
\* stack, and a task preempted by an interrupt has the frame to return through.
WaitingTasksResumable ==
  \A t \in Waiting : ~ (pc = "context_switch" /\ t = prev) =>
    /\ ctx[t].sp = t
    /\ \/ ctx[t].lr = "cpu_context_entry"
       \/ ctx[t].lr = "load_regs" /\ stack[t] # <<>>

\* current_task() finds the task that called it, although the task can lose
\* the core between reading its ID and looking it up.
CurrentTaskIsCaller ==
  pc = "task.lock" => id[sp] = sp /\ sp \in tasks

\* Interrupted code resumes where it was interrupted: at the eret of a vector,
\* ELR_EL1 and SPSR_EL1 hold what save_regs stored for this exception.
ResumesInterruptedCode ==
  pc = "eret" =>
    /\ stack[sp] # <<>>
    /\ [elr |-> elr, spsr |-> spsr] = Top(stack[sp])

\* User programs run at EL0, with interrupts enabled.
UserRunsAtEl0 == pc = "user" => el = 0 /\ ~masked

\* A kernel stack is one page: it never has to hold more than one trap frame.
OneFramePerStack == \A t \in TaskId : Len(stack[t]) <= 1

\* Starvation freedom: every registered task keeps getting back to its code, on
\* a core where no thread loses it inside the heap's, the device's or
\* SCHEDULER's lock (~HolderLosesCore).  Otherwise a masked write spins for ever on that lock.
EveryTaskRuns ==
  \A t \in TaskId : t \in tasks ~> (sp = t /\ pc \in BodyPoint)

\* A system call returns to the program that made it, an error or the result of
\* a write, although write waits masked for each SpinLock; under the same
\* hypothesis.
SystemCallReturns ==
  \A t \in TaskId : (sp = t /\ pc = "vector_sync_el0") ~> (sp = t /\ pc = "user")

\* The scheduler implements a round-robin ring: current task first, then queue.
Ring == IF current = None THEN <<>> ELSE <<current>> \o queue

RR == INSTANCE RoundRobin WITH Task <- TaskId, ring <- Ring

ImplementsRoundRobin == RR!Spec

-------------------------------------------------------------------------------
(***************************************************************************)
(* The inductive invariant behind the safety properties, for a system that *)
(* leaves the handler within a quantum and is not interrupted in enter_el0 *)
(* (~SlowReturn and ~EntryWindow).                                         *)
(***************************************************************************)
CurrentPoint ==
  {"current_task_id", "current_task_id.lock", "current_task_id.unlock",
   "current_task_id.restore", "task", "task.lock", "task.unlock", "task.restore"}
LockedPoint ==
  {"context_switch", "after_schedule", "add_task.unlock",
   "current_task_id.unlock", "task.unlock"}
InsidePoint ==
  {"add_task.lock", "add_task.unlock", "add_task.restore",
   "current_task_id.lock", "current_task_id.unlock", "current_task_id.restore",
   "task.lock", "task.unlock", "task.restore"}
MaskedPoint ==
  InsidePoint \cup SchedulePoint
    \cup WritePoint \cup {"kernel_init", "vector_irq", "vector_sync_el0"}
OpenPoint ==
  BodyPoint \cup EntryPoint \cup {"add_task", "cpu_context_entry"}

\* The points at which a task can be interrupted.
Interruptible ==
  BodyPoint \cup {"add_task", "current_task_id", "task", "enter_el0"}

Created == {t \in TaskId : t < nextId}

\* Which points run masked and which hold the lock; a current_task() that a
\* system call makes runs masked throughout.
MaskInv ==
  /\ pc # "zero"
  /\ pc \in MaskedPoint => masked
  /\ pc \in OpenPoint => ~masked
  /\ pc \in {"current_task_id", "task"} => (masked <=> ret[sp] = "write.alloc")
  /\ pc \in InsidePoint \cap CurrentPoint => (daif[sp] <=> ret[sp] = "write.alloc")
  /\ pc \in InsidePoint \ CurrentPoint => ~daif[sp]
  /\ pc \in CurrentPoint => ret[sp] \in {"thread", "enter_el0", "write.alloc"}
  /\ lock <=> pc \in LockedPoint
  /\ el = (IF pc = "user" THEN 0 ELSE 1)

\* The scheduler's tables agree with the core.
TableInv ==
  /\ tasks \subseteq Created
  /\ pc = "kernel_init" =>
       /\ tasks = {} /\ queue = <<>> /\ current = None
       /\ nextId = Kinit /\ sp = Kinit
  /\ pc # "kernel_init" => current \in tasks /\ sp \in tasks
  /\ pc = "context_switch" => prev = sp

\* What a trap frame of task t may hold.
FrameOk(t, f) ==
  /\ f.elr \in Interruptible
  /\ f.spsr = [el |-> IF f.elr = "user" THEN 0 ELSE 1, masked |-> FALSE]
  /\ f.elr \in {"current_task_id", "task"} => ret[t] \in {"thread", "enter_el0"}
  /\ f.elr = "task" => id[t] = t
  /\ f.elr = "holding" => HolderLosesCore

HasFrame(t) == \E f \in Frame : stack[t] = <<f>> /\ FrameOk(t, f)

\* Every task that was created and does not own the core can be resumed.
Resumable(t) ==
  /\ ctx[t].sp = t
  /\ \/ ctx[t].lr = "cpu_context_entry" /\ stack[t] = <<>>
     \/ ctx[t].lr = "load_regs" /\ HasFrame(t)

ContextInv == \A t \in Created \ {sp} : Resumable(t)

\* The task on the core has a trap frame exactly while the kernel handles an
\* exception for it; the frame of a system call goes back to user code.
SysCallPending ==
  \/ pc \in WritePoint \cup {"vector_sync_el0"}
  \/ pc \in CurrentPoint /\ ret[sp] = "write.alloc"

Trapped ==
  \/ pc \in VectorPoint
  \/ pc \in SchedulePoint /\ lr = "load_regs"
  \/ SysCallPending

FrameInv ==
  /\ IF Trapped THEN HasFrame(sp) ELSE stack[sp] = <<>>
  /\ SysCallPending => stack[sp][1].elr = "user"
  /\ pc \in SchedulePoint => lr \in {"load_regs", "cpu_context_entry", "thread"}
  /\ pc \in {"schedule", "context_switch"} => lr # "cpu_context_entry"
  /\ pc = "schedule" /\ lr = "thread" => queue = <<>>
  /\ pc = "context_switch" /\ lr = "thread" => current = prev
  /\ \A t \in TaskId \ Created : stack[t] = <<>>

\* The registers of an eret that is due, and the timer on the way out.
ReturnInv ==
  /\ pc = "eret" => stack[sp] = <<[elr |-> elr, spsr |-> spsr]>>
  /\ pc \in EntryPending => spsr = EL0
  /\ pc = "enter_el0.eret" => elr = "user"
  /\ OnReturnPath => timer = "armed"

\* A current_task() that is past its first critical section knows its caller.
CallerInv ==
  pc \in CurrentPoint \ {"current_task_id", "current_task_id.lock"} => id[sp] = sp

\* A task that is about to be added is fresh.
Adding(t) ==
  \/ t = sp /\ pc \in {"add_task", "add_task.lock"}
  \/ \E f \in Frame : stack[t] = <<f>> /\ f.elr = "add_task"

FreshInv ==
  /\ \A t \in TaskId : Adding(t) => id[t] \in Created \ tasks
  /\ \A t, u \in TaskId : Adding(t) /\ Adding(u) /\ id[t] = id[u] => t = u

TableOk ==
  StackAndTablesMatchCurrent /\ TasksScheduledOnce /\ TableInv

Inv ==
  /\ TypeOK /\ MaskInv /\ TableOk /\ ContextInv /\ FrameInv /\ ReturnInv
  /\ CallerInv /\ FreshInv
===============================================================================
