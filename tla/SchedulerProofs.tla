---------------------------- MODULE SchedulerProofs ---------------------------
(***************************************************************************)
(* The scheduler is correct for every number of tasks, on a core that      *)
(* leaves the interrupt handler within a quantum and is not interrupted    *)
(* inside enter_el0.                                                       *)
(***************************************************************************)
EXTENDS Scheduler, TLAPS

\* A sequence of one trap frame: its last element, what Pop leaves of it, and
\* what pushing a frame on an empty stack gives.
LEMMA OneFrame ==
  ASSUME NEW f \in Frame
  PROVE  /\ <<f>> # <<>> /\ Len(<<f>>) = 1 /\ <<f>>[1] = f
         /\ Top(<<f>>) = f /\ Pop(<<f>>) = <<>> /\ Append(<<>>, f) = <<f>>
<1>1. Len(<<f>>) = 1 /\ <<f>>[1] = f /\ <<f>> # <<>>
  OBVIOUS
<1>2. Append(<<>>, f) = <<f>>
  OBVIOUS
<1>3. SubSeq(<<f>>, 1, 0) = <<>>
  OBVIOUS
<1> QED BY <1>1, <1>2, <1>3 DEF Top, Pop

\* The two halves of schedule's queue operation: push at the back, pop in front.
LEMMA Rotated ==
  ASSUME NEW T, NEW q \in Seq(T), NEW c \in T
  PROVE  LET a == Append(q, c) IN
         /\ a \in Seq(T) /\ a # <<>> /\ Len(a) = Len(q) + 1
         /\ \A i \in 1 .. Len(q) : a[i] = q[i]
         /\ a[Len(q) + 1] = c
         /\ Head(a) = a[1] /\ Head(a) \in T
         /\ Tail(a) \in Seq(T) /\ Len(Tail(a)) = Len(q)
         /\ \A i \in 1 .. Len(q) : Tail(a)[i] = a[i + 1]
<1> DEFINE a == Append(q, c)
<1>1. a \in Seq(T) /\ Len(a) = Len(q) + 1 /\ Len(q) \in Nat
  OBVIOUS
<1>2. a # <<>>
  BY <1>1
<1>3. (\A i \in 1 .. Len(q) : a[i] = q[i]) /\ a[Len(q) + 1] = c
  OBVIOUS
<1>4. Head(a) = a[1] /\ a[1] \in T
  BY <1>1
<1> HIDE DEF a
<1>5. Tail(a) \in Seq(T) /\ Len(Tail(a)) = Len(a) - 1
      /\ \A i \in 1 .. Len(a) - 1 : Tail(a)[i] = a[i + 1]
  BY <1>1, <1>2
<1>6. Len(a) - 1 = Len(q)
  BY <1>1
<1>7. /\ a \in Seq(T) /\ a # <<>> /\ Len(a) = Len(q) + 1
      /\ \A i \in 1 .. Len(q) : a[i] = q[i]
      /\ a[Len(q) + 1] = c
      /\ Head(a) = a[1] /\ Head(a) \in T
      /\ Tail(a) \in Seq(T) /\ Len(Tail(a)) = Len(q)
      /\ \A i \in 1 .. Len(q) : Tail(a)[i] = a[i + 1]
  BY <1>1, <1>2, <1>3, <1>4, <1>5, <1>6
<1> QED BY <1>7 DEF a

\* The task on the core is a real one, and has a stack.
LEMMA OnCore ==
  ASSUME Inv
  PROVE  sp \in TaskId /\ nextId \in Nat /\ MaxTasks \in Nat
         /\ (pc # "kernel_init" => sp \in Created /\ current \in TaskId)
BY SchedulerAssumption DEF Inv, TypeOK, TableOk, TableInv, TaskId, Kinit, Created

\* A task that is about to be added was created and is not yet in the tables.
LEMMA Added ==
  ASSUME Inv, pc \in {"add_task", "add_task.lock"}
  PROVE  id[sp] \in Created \ tasks /\ id[sp] \in TaskId
BY OnCore DEF Inv, FreshInv, Adding, Created

\* The booting core satisfies the invariant.
LEMMA InitInv == Init => Inv
<1> SUFFICES ASSUME Init PROVE Inv
  OBVIOUS
<1> USE SchedulerAssumption DEF Init
<1>1. TypeOK
  <2>1. {"zero", "kernel_init"} \subseteq Point
    BY DEF Point
  <2>2. Kinit \in TaskId /\ Kinit \in 1 .. MaxTasks + 1
    BY DEF Kinit, TaskId
  <2>3. spsr \in Pstate
    BY DEF Pstate
  <2>4. ctx \in [TaskId -> [lr : Point, sp : TaskId \cup {None}]]
    BY <2>1 DEF ZeroContext
  <2>5. stack \in [TaskId -> Seq(Frame)] /\ queue \in Seq(TaskId)
    OBVIOUS
  <2> QED BY <2>1, <2>2, <2>3, <2>4, <2>5 DEF TypeOK
<1>2. MaskInv
  BY DEF MaskInv, MaskedPoint, WritePoint, InsidePoint, SchedulePoint, OpenPoint, BodyPoint, EntryPoint, CurrentPoint, LockedPoint
<1>3. TableOk
  BY DEF TableOk, StackAndTablesMatchCurrent, TasksScheduledOnce, TableInv, Waiting, Running, None, Kinit
<1>4. ContextInv
  BY DEF ContextInv, Created, Kinit, TaskId
<1>5. FrameInv
  BY DEF FrameInv, Trapped, SysCallPending, WritePoint, VectorPoint, SchedulePoint, CurrentPoint, TaskId, Kinit, Created
<1>6. ReturnInv /\ CallerInv
  BY DEF ReturnInv, EntryPending, OnReturnPath, CallerInv, CurrentPoint
<1>7. FreshInv
  <2>1. ASSUME NEW t \in TaskId PROVE ~Adding(t)
    BY OneFrame DEF Adding
  <2> QED BY <2>1 DEF FreshInv
<1> QED BY <1>1, <1>2, <1>3, <1>4, <1>5, <1>6, <1>7 DEF Inv

\* Every step keeps the types.
LEMMA TypeNext == Inv /\ [Next]_vars => TypeOK'
<1> SUFFICES ASSUME Inv, [Next]_vars PROVE TypeOK'
  OBVIOUS
<1>0. TypeOK /\ sp \in TaskId /\ nextId \in Nat /\ MaxTasks \in Nat
  BY OnCore DEF Inv
<1> USE <1>0 DEF TypeOK, Goto, vars, schedVars, coreVars, taskVars
<1>a. \A s \in {"add_task", "add_task.lock", "add_task.unlock", "add_task.restore",
        "current_task_id", "current_task_id.lock", "current_task_id.unlock",
        "current_task_id.restore", "task", "task.lock", "task.unlock", "task.restore",
        "schedule", "context_switch", "after_schedule", "set_duration",
        "enable_interrupts", "vector_irq", "vector_sync_el0", "load_regs", "eret",
        "enter_el0", "enter_el0.elr", "enter_el0.eret", "write", "write.alloc",
        "write.print", "thread", "holding", "loop", "user", "cpu_context_entry", "zero"} : s \in Point
  BY DEF Point, CallPoint, SchedulePoint, VectorPoint, EntryPoint, WritePoint, BodyPoint
<1> USE <1>a
<1>s. CASE \E l \in SpinLock : TakeSpinLock(l) \/ DropSpinLock(l)
  BY <1>s DEF TakeSpinLock, DropSpinLock
<1>1. CASE UNCHANGED vars
  BY <1>1
<1>2. CASE Critical
  <2>1. ASSUME NEW from, NEW to \in Point,
               DisableInterrupts(from, to) \/ Unlock(from, to) \/ RestoreInterrupts(from, to)
        PROVE  TypeOK'
    BY <2>1 DEF DisableInterrupts, Unlock, RestoreInterrupts
  <2>2. CASE AddTask
    <3>1. id[sp] \in TaskId
      BY <2>2, Added DEF AddTask, Acquire
    <3> QED BY <2>2, <3>1 DEF AddTask, Acquire
  <2>3. CASE CurrentTaskId
    BY <2>3 DEF CurrentTaskId, Acquire
  <2>4. CASE GetTask
    BY <2>4 DEF GetTask, Acquire
  <2> QED BY <1>2, <2>1, <2>2, <2>3, <2>4 DEF Critical
<1>3. CASE Switch
  <2>1. CASE BecomeKinit
    BY <2>1, SchedulerAssumption DEF BecomeKinit, ZeroContext, Inv, TableOk, TableInv, Kinit, TaskId
  <2>2. CASE Schedule
    <3>1. current \in TaskId /\ queue \in Seq(TaskId)
      BY <2>2, OnCore DEF Schedule
    <3>2. Head(Append(queue, current)) \in TaskId /\ Tail(Append(queue, current)) \in Seq(TaskId)
      BY <3>1, Rotated
    <3> QED BY <2>2, <3>2 DEF Schedule
  <2>3. CASE ContextSwitch
    <3>1. prev \in TaskId /\ current \in TaskId
      BY <2>3, OnCore DEF ContextSwitch, Inv, TableOk, TableInv
    <3> QED BY <2>3, <3>1 DEF ContextSwitch
  <2>4. CASE AfterSchedule \/ SetDuration \/ EnableInterrupts
    BY <2>4 DEF AfterSchedule, SetDuration, EnableInterrupts
  <2> QED BY <1>3, <2>1, <2>2, <2>3, <2>4 DEF Switch
<1>4. CASE Vector
  <2>1. CASE HandleIrq \/ SysCallFails \/ SysWrite \/ WriteCurrentTask \/ WriteAlloc \/ WritePrint
    BY <2>1 DEF HandleIrq, SysCallFails, SysWrite, WriteCurrentTask, CallCurrentTask, WriteAlloc, WritePrint
  <2>2. CASE LoadRegs \/ Eret
    <3>1. PICK f \in Frame : stack[sp] = <<f>>
      BY <2>2, OnCore DEF LoadRegs, Eret, Inv, FrameInv, Trapped, VectorPoint, HasFrame
    <3>2. Top(stack[sp]) = f /\ Pop(stack[sp]) = <<>>
      BY <3>1, OneFrame
    <3>3. f.elr \in Point /\ f.spsr \in Pstate
      BY DEF Frame
    <3>4. spsr.el \in {0, 1} /\ spsr.masked \in BOOLEAN
      BY DEF Pstate
    <3>5. CASE LoadRegs
      BY <3>5, <3>2, <3>3 DEF LoadRegs
    <3>6. CASE Eret
      BY <3>6, <3>2, <3>4 DEF Eret, ReturnFromException
    <3> QED BY <2>2, <3>5, <3>6
  <2> QED BY <1>4, <2>1, <2>2 DEF Vector
<1>5. CASE Entry
  <2>1. CASE EnterEl0Spsr \/ EnterEl0Elr \/ CpuContextEntry
    <3>1. EL0 \in Pstate
      BY DEF EL0, Pstate
    <3> QED BY <2>1, <3>1 DEF EnterEl0Spsr, EnterEl0Elr, CpuContextEntry
  <2>2. CASE EnterEl0Eret
    <3>1. spsr.el \in {0, 1} /\ spsr.masked \in BOOLEAN
      BY DEF Pstate
    <3> QED BY <2>2, <3>1 DEF EnterEl0Eret, ReturnFromException
  <2> QED BY <1>5, <2>1, <2>2 DEF Entry
<1>6. CASE Chosen \/ TakeIrq
  <2>1. CASE CreateKthread
    <3>1. nextId \in TaskId /\ nextId + 1 \in 1 .. MaxTasks + 1
      BY <2>1 DEF CreateKthread, TaskId
    <3> QED BY <2>1, <3>1 DEF CreateKthread
  <2>2. CASE CurrentTask \/ Execute \/ FuncReturns
    BY <2>2 DEF CurrentTask, Execute, FuncReturns, CallCurrentTask
  <2>3. ASSUME NEW p \in Point, TakeException(p) PROVE TypeOK'
    <3>1. [elr |-> pc, spsr |-> [el |-> el, masked |-> masked]] \in Frame
      BY DEF Frame, Pstate
    <3>2. spsr' \in Pstate
      BY <2>3 DEF TakeException, Pstate
    <3>3. stack' \in [TaskId -> Seq(Frame)]
      BY <2>3, <3>1 DEF TakeException
    <3> QED BY <2>3, <3>2, <3>3 DEF TakeException
  <2> QED BY <1>6, <1>s, <2>1, <2>2, <2>3 DEF Chosen, TakeIrq, Svc
<1>7. CASE TimerExpires
  BY <1>7 DEF TimerExpires
<1> QED BY <1>s, <1>1, <1>2, <1>3, <1>4, <1>5, <1>6, <1>7 DEF Next, Forced, SpinMasked

\* The frame of the exception that the core is handling.
LEMMA Handled ==
  ASSUME Inv, Trapped
  PROVE  \E f \in Frame :
           /\ stack[sp] = <<f>> /\ FrameOk(sp, f)
           /\ Top(stack[sp]) = f /\ Pop(stack[sp]) = <<>>
           /\ SysCallPending => f.elr = "user"
           /\ pc = "eret" => f = [elr |-> elr, spsr |-> spsr]
<1>1. PICK f \in Frame : stack[sp] = <<f>> /\ FrameOk(sp, f)
  BY DEF Inv, FrameInv, HasFrame
<1>2. Top(stack[sp]) = f /\ Pop(stack[sp]) = <<>> /\ stack[sp][1] = f
  BY <1>1, OneFrame
<1>3. SysCallPending => f.elr = "user"
  BY <1>2 DEF Inv, FrameInv
<1>4. pc = "eret" => f = [elr |-> elr, spsr |-> spsr]
  <2>1. [elr |-> elr, spsr |-> spsr] \in Frame
    BY DEF Inv, TypeOK, Frame
  <2>2. pc = "eret" => stack[sp] = <<[elr |-> elr, spsr |-> spsr]>>
    BY DEF Inv, ReturnInv
  <2> HIDE DEF Inv
  <2> QED BY <1>2, <2>1, <2>2, OneFrame
<1> QED BY <1>1, <1>2, <1>3, <1>4

\* What the eret of a vector returns to.
LEMMA Returns ==
  ASSUME Inv, pc = "eret"
  PROVE  /\ elr \in Interruptible
         /\ spsr.masked = FALSE
         /\ spsr.el = IF elr = "user" THEN 0 ELSE 1
         /\ elr \in {"current_task_id", "task"} => ret[sp] \in {"thread", "enter_el0"}
         /\ elr = "task" => id[sp] = sp
         /\ elr = "holding" => HolderLosesCore
<1>1. PICK f \in Frame : FrameOk(sp, f) /\ f = [elr |-> elr, spsr |-> spsr]
  BY Handled DEF Trapped, VectorPoint
<1>2. f.elr = elr /\ f.spsr = spsr
  BY <1>1
<1> QED BY <1>1, <1>2 DEF FrameOk

\* Every step keeps the mask and the lock as the program point prescribes: the
\* way out of a handler restores what its frame, or its critical(), saved.
LEMMA MaskNext ==
  ASSUME Inv, [Next]_vars
  PROVE  MaskInv'
<1>0. MaskInv /\ sp \in TaskId /\ lock \in BOOLEAN /\ masked \in BOOLEAN
      /\ daif \in [TaskId -> BOOLEAN] /\ ret \in [TaskId -> Point]
  BY OnCore DEF Inv, TypeOK
<1> USE <1>0 DEF MaskInv, Goto, vars, schedVars, coreVars, taskVars,
      MaskedPoint, WritePoint, InsidePoint, SchedulePoint, OpenPoint, BodyPoint, EntryPoint,
      CurrentPoint, LockedPoint
<1>s. CASE \E l \in SpinLock : TakeSpinLock(l) \/ DropSpinLock(l)
  BY <1>s DEF TakeSpinLock, DropSpinLock
<1>1. CASE UNCHANGED vars
  BY <1>1
<1>2. CASE Critical
  <2>1. CASE DisableInterrupts("add_task", "add_task.lock")
             \/ DisableInterrupts("current_task_id", "current_task_id.lock")
             \/ DisableInterrupts("task", "task.lock")
    BY <2>1 DEF DisableInterrupts
  <2>2. CASE AddTask \/ CurrentTaskId \/ GetTask
    BY <2>2 DEF AddTask, CurrentTaskId, GetTask, Acquire
  <2>3. CASE Unlock("add_task.unlock", "add_task.restore")
             \/ Unlock("current_task_id.unlock", "current_task_id.restore")
             \/ Unlock("task.unlock", "task.restore")
    BY <2>3 DEF Unlock
  <2>4. CASE RestoreInterrupts("add_task.restore", "thread")
             \/ RestoreInterrupts("current_task_id.restore", "task")
             \/ RestoreInterrupts("task.restore", ret[sp])
    BY <2>4 DEF RestoreInterrupts
  <2> QED BY <1>2, <2>1, <2>2, <2>3, <2>4 DEF Critical
<1>3. CASE Switch
  <2>1. CASE BecomeKinit \/ Schedule \/ ContextSwitch
    BY <2>1 DEF BecomeKinit, Schedule, ContextSwitch
  <2>2. CASE AfterSchedule \/ SetDuration
    BY <2>2 DEF AfterSchedule, SetDuration
  <2>3. CASE EnableInterrupts
    <3>1. lr \in {"load_regs", "cpu_context_entry", "thread"}
      BY <2>3 DEF EnableInterrupts, Inv, FrameInv
    <3> QED BY <2>3, <3>1 DEF EnableInterrupts
  <2> QED BY <1>3, <2>1, <2>2, <2>3 DEF Switch
<1>4. CASE Vector
  <2>1. CASE HandleIrq \/ SysCallFails \/ LoadRegs \/ WriteAlloc \/ WritePrint
    BY <2>1 DEF HandleIrq, SysCallFails, LoadRegs, WriteAlloc, WritePrint
  <2>2. CASE SysWrite \/ WriteCurrentTask
    BY <2>2 DEF SysWrite, WriteCurrentTask, CallCurrentTask
  <2>3. CASE Eret
    <3>1. /\ elr \in Interruptible
          /\ spsr.masked = FALSE
          /\ spsr.el = IF elr = "user" THEN 0 ELSE 1
          /\ elr \in {"current_task_id", "task"} => ret[sp] \in {"thread", "enter_el0"}
      BY <2>3, Returns DEF Eret
    <3> QED BY <2>3, <3>1 DEF Eret, ReturnFromException, Interruptible
  <2> QED BY <1>4, <2>1, <2>2, <2>3 DEF Vector
<1>5. CASE Entry
  <2>1. CASE EnterEl0Spsr \/ EnterEl0Elr \/ CpuContextEntry
    BY <2>1 DEF EnterEl0Spsr, EnterEl0Elr, CpuContextEntry
  <2>2. CASE EnterEl0Eret
    <3>1. elr = "user" /\ spsr.el = 0 /\ spsr.masked = FALSE
      BY <2>2 DEF EnterEl0Eret, Inv, ReturnInv, EntryPending, EL0
    <3> QED BY <2>2, <3>1 DEF EnterEl0Eret, ReturnFromException
  <2> QED BY <1>5, <2>1, <2>2 DEF Entry
<1>6. CASE Chosen \/ TakeIrq
  <2>1. CASE CreateKthread \/ FuncReturns
    BY <2>1 DEF CreateKthread, FuncReturns
  <2>2. CASE CurrentTask \/ Execute
    BY <2>2 DEF CurrentTask, Execute, CallCurrentTask
  <2>3. CASE Svc \/ TakeIrq
    BY <2>3 DEF Svc, TakeIrq, TakeException
  <2> QED BY <1>6, <1>s, <2>1, <2>2, <2>3 DEF Chosen
<1>7. CASE TimerExpires
  BY <1>7 DEF TimerExpires
<1> QED BY <1>s, <1>1, <1>2, <1>3, <1>4, <1>5, <1>6, <1>7 DEF Next, Forced, SpinMasked

\* Every step keeps tasks, queue and current_tasks consistent with each other and
\* with the core; the work is in AddTask, Schedule and ContextSwitch.
LEMMA TableNext ==
  ASSUME Inv, [Next]_vars
  PROVE  TableOk'
<1>0. /\ StackAndTablesMatchCurrent /\ TasksScheduledOnce /\ TableInv
      /\ queue \in Seq(TaskId) /\ tasks \subseteq TaskId
      /\ sp \in TaskId /\ nextId \in Nat /\ MaxTasks \in Nat
  BY OnCore DEF Inv, TableOk, TypeOK
<1> DEFINE Special == {"kernel_init", "schedule", "context_switch"}
<1> USE DEF Goto, vars, schedVars, coreVars, taskVars
<1>q. ASSUME UNCHANGED <<tasks, queue, current, nextId, sp, ttbr0>>,
             pc \notin Special, pc' \notin {"kernel_init", "context_switch"}
      PROVE  TableOk'
  BY <1>0, <1>q DEF TableOk, StackAndTablesMatchCurrent, TasksScheduledOnce, TableInv,
       Waiting, Running, Created
<1>s. CASE \E l \in SpinLock : TakeSpinLock(l) \/ DropSpinLock(l)
  BY <1>s, <1>q DEF TakeSpinLock, DropSpinLock
<1>1. CASE UNCHANGED vars \/ TimerExpires
  <2>1. UNCHANGED <<tasks, queue, current, nextId, sp, ttbr0, pc, prev>>
    BY <1>1 DEF TimerExpires
  <2> QED BY <1>0, <2>1 DEF TableOk, StackAndTablesMatchCurrent, TasksScheduledOnce, TableInv,
       Waiting, Running, Created
<1>2. CASE Critical
  <2>1. CASE DisableInterrupts("add_task", "add_task.lock")
             \/ DisableInterrupts("current_task_id", "current_task_id.lock")
             \/ DisableInterrupts("task", "task.lock")
    BY <2>1, <1>q DEF DisableInterrupts
  <2>2. CASE CurrentTaskId \/ GetTask
    BY <2>2, <1>q DEF CurrentTaskId, GetTask, Acquire
  <2>3. CASE Unlock("add_task.unlock", "add_task.restore")
             \/ Unlock("current_task_id.unlock", "current_task_id.restore")
             \/ Unlock("task.unlock", "task.restore")
    BY <2>3, <1>q DEF Unlock
  <2>4. CASE RestoreInterrupts("add_task.restore", "thread")
             \/ RestoreInterrupts("current_task_id.restore", "task")
    BY <2>4, <1>q DEF RestoreInterrupts
  <2>5. CASE RestoreInterrupts("task.restore", ret[sp])
    <3>1. ret[sp] \in {"thread", "enter_el0", "write.alloc"}
      BY <2>5 DEF RestoreInterrupts, Inv, MaskInv, CurrentPoint
    <3> QED BY <2>5, <3>1, <1>q DEF RestoreInterrupts
  <2>6. CASE AddTask
    <3> DEFINE n == id[sp]
    <3>1. n \in Created \ tasks /\ n \in TaskId
      BY <2>6, Added DEF AddTask, Acquire
    <3>2. queue' = Append(queue, n) /\ tasks' = tasks \cup {n}
          /\ UNCHANGED <<current, sp, ttbr0, nextId>>
          /\ pc = "add_task.lock" /\ pc' = "add_task.unlock"
      BY <2>6 DEF AddTask, Acquire
    <3> HIDE DEF n
    <3>3. /\ Len(queue') = Len(queue) + 1
          /\ \A i \in 1 .. Len(queue) : queue'[i] = queue[i]
          /\ queue'[Len(queue) + 1] = n
          /\ Len(queue) \in Nat
      BY <1>0, <3>1, <3>2, Rotated
    <3>4. Waiting' = Waiting \cup {n}
      BY <3>3 DEF Waiting
    <3>5. Running' = Running /\ current \in tasks /\ current # n
      BY <1>0, <3>1, <3>2 DEF Running, TableInv
    <3>6. n \notin Waiting
      BY <1>0, <3>1 DEF TasksScheduledOnce
    <3>7. \A i, j \in 1 .. Len(queue') : queue'[i] = queue'[j] => i = j
      <4> SUFFICES ASSUME NEW i \in 1 .. Len(queue'), NEW j \in 1 .. Len(queue'), queue'[i] = queue'[j]
                   PROVE  i = j
        OBVIOUS
      <4>1. \A k \in 1 .. Len(queue) : queue'[k] # n
        BY <3>3, <3>6 DEF Waiting
      <4> QED BY <1>0, <3>3, <4>1 DEF TasksScheduledOnce
    <3>8. TasksScheduledOnce'
      BY <1>0, <3>2, <3>4, <3>5, <3>7 DEF TasksScheduledOnce
    <3>9. TableInv' /\ StackAndTablesMatchCurrent'
      BY <1>0, <3>1, <3>2 DEF TableInv, StackAndTablesMatchCurrent, Created
    <3> QED BY <3>8, <3>9 DEF TableOk
  <2> QED BY <1>2, <2>1, <2>2, <2>3, <2>4, <2>5, <2>6 DEF Critical
<1>3. CASE Switch
  <2>1. CASE BecomeKinit
    <3>1. /\ nextId = 1 /\ sp = 1 /\ queue = <<>> /\ queue' = <<>> /\ tasks' = {1} /\ current' = 1
          /\ sp' = 1 /\ nextId' = 2 /\ pc' = "schedule" /\ Len(queue') = 0
      BY <2>1, <1>0 DEF BecomeKinit, TableInv, Kinit
    <3>2. Waiting' = {} /\ Running' = {1}
      BY <3>1 DEF Waiting, Running, None
    <3>3. TasksScheduledOnce'
      BY <3>1, <3>2 DEF TasksScheduledOnce
    <3>4. TableInv'
      BY <3>1, <1>0, SchedulerAssumption DEF TableInv, Created, TaskId
    <3>5. StackAndTablesMatchCurrent'
      BY <3>1 DEF StackAndTablesMatchCurrent
    <3> QED BY <3>3, <3>4, <3>5 DEF TableOk
  <2>2. CASE Schedule
    <3> DEFINE a == Append(queue, current)
    <3>1. /\ current' = Head(a) /\ queue' = Tail(a) /\ prev' = current
          /\ pc = "schedule" /\ pc' = "context_switch"
          /\ UNCHANGED <<sp, ttbr0, nextId, tasks>>
          /\ current \in TaskId /\ current # None
      BY <2>2, OnCore DEF Schedule
    <3>2. /\ Len(a) = Len(queue) + 1 /\ a \in Seq(TaskId) /\ Len(queue) \in Nat
          /\ \A i \in 1 .. Len(queue) : a[i] = queue[i]
          /\ a[Len(queue) + 1] = current
      BY <1>0, <3>1, Rotated
    <3>3. /\ current' = a[1] /\ a[1] \in TaskId /\ Len(queue') = Len(queue)
          /\ \A i \in 1 .. Len(queue) : queue'[i] = a[i + 1]
      BY <1>0, <3>1, Rotated
    <3> HIDE DEF a
    <3>4. \A i, j \in 1 .. Len(queue) + 1 : a[i] = a[j] => i = j
      <4> SUFFICES ASSUME NEW i \in 1 .. Len(queue) + 1, NEW j \in 1 .. Len(queue) + 1, a[i] = a[j]
                   PROVE  i = j
        OBVIOUS
      <4>1. \A k \in 1 .. Len(queue) : a[k] # current
        BY <1>0, <3>2 DEF TasksScheduledOnce, Waiting
      <4> QED BY <1>0, <3>2, <4>1 DEF TasksScheduledOnce
    <3>5. {a[i] : i \in 1 .. Len(queue) + 1} = tasks
      <4>1. {a[i] : i \in 1 .. Len(queue) + 1} = Waiting \cup {current}
        BY <3>2 DEF Waiting
      <4> QED BY <4>1, <3>1, <1>0 DEF TasksScheduledOnce, Running
    <3>6. current' \notin Waiting'
      <4> SUFFICES ASSUME NEW i \in 1 .. Len(queue), a[i + 1] = a[1] PROVE FALSE
        BY <3>3 DEF Waiting
      <4>1. i + 1 \in 1 .. Len(queue) + 1 /\ 1 \in 1 .. Len(queue) + 1 /\ i + 1 # 1
        BY <3>2
      <4> QED BY <4>1, <3>4
    <3>7. \A i, j \in 1 .. Len(queue') : queue'[i] = queue'[j] => i = j
      <4> SUFFICES ASSUME NEW i \in 1 .. Len(queue), NEW j \in 1 .. Len(queue), a[i + 1] = a[j + 1]
                   PROVE  i = j
        BY <3>3
      <4>1. i + 1 \in 1 .. Len(queue) + 1 /\ j + 1 \in 1 .. Len(queue) + 1
        BY <3>2
      <4>2. i + 1 = j + 1
        BY <4>1, <3>4
      <4> QED BY <4>2, <3>2
    <3>8. tasks' = Waiting' \cup Running'
      <4>1. Running' = {a[1]}
        BY <3>3 DEF Running, None, TaskId
      <4>2. Waiting' = {a[i + 1] : i \in 1 .. Len(queue)}
        BY <3>3 DEF Waiting
      <4>3. {a[i + 1] : i \in 1 .. Len(queue)} \cup {a[1]} = {a[i] : i \in 1 .. Len(queue) + 1}
        <5>1. ASSUME NEW i \in 1 .. Len(queue) + 1
              PROVE  i = 1 \/ (i - 1 \in 1 .. Len(queue) /\ (i - 1) + 1 = i)
          BY <3>2
        <5>2. ASSUME NEW i \in 1 .. Len(queue) PROVE i + 1 \in 1 .. Len(queue) + 1
          BY <3>2
        <5>3. 1 \in 1 .. Len(queue) + 1
          BY <3>2
        <5> QED BY <5>1, <5>2, <5>3
      <4> QED BY <3>1, <3>5, <4>1, <4>2, <4>3
    <3>9. TasksScheduledOnce'
      BY <3>6, <3>7, <3>8 DEF TasksScheduledOnce
    <3>10. TableInv' /\ StackAndTablesMatchCurrent'
      <4>1. current' \in tasks'
        BY <3>8, <3>3 DEF Running, None, TaskId
      <4> QED BY <1>0, <3>1, <4>1 DEF TableInv, StackAndTablesMatchCurrent, Created
    <3> QED BY <3>9, <3>10 DEF TableOk
  <2>3. CASE ContextSwitch
    <3>1. /\ UNCHANGED <<tasks, queue, current, nextId>> /\ ttbr0' = current
          /\ pc = "context_switch" /\ pc' = "after_schedule" /\ prev = sp
          /\ sp' = ctx'[current].sp /\ ctx' = [ctx EXCEPT ![prev] = [lr |-> lr, sp |-> sp]]
      BY <2>3, <1>0 DEF ContextSwitch, TableInv
    <3>2. current \in tasks /\ sp \in tasks /\ current \in Created
          /\ ctx \in [TaskId -> [lr : Point, sp : TaskId \cup {None}]]
      BY <1>0, <3>1 DEF TableInv, Inv, TypeOK
    <3>3. current # sp => ctx[current].sp = current
      BY <3>2 DEF Inv, ContextInv, Resumable
    <3>4. sp' = current
      BY <1>0, <3>1, <3>2, <3>3
    <3> QED BY <1>0, <3>1, <3>2, <3>4 DEF TableOk, StackAndTablesMatchCurrent,
              TasksScheduledOnce, TableInv, Waiting, Running, Created
  <2>4. CASE AfterSchedule \/ SetDuration
    BY <2>4, <1>q DEF AfterSchedule, SetDuration
  <2>5. CASE EnableInterrupts
    <3>1. lr \in {"load_regs", "cpu_context_entry", "thread"}
      BY <2>5 DEF EnableInterrupts, Inv, FrameInv, SchedulePoint
    <3> QED BY <2>5, <3>1, <1>q DEF EnableInterrupts
  <2> QED BY <1>3, <2>1, <2>2, <2>3, <2>4, <2>5 DEF Switch
<1>4. CASE Vector
  <2>1. CASE HandleIrq \/ SysCallFails \/ LoadRegs \/ SysWrite \/ WriteCurrentTask \/ WriteAlloc \/ WritePrint
    BY <2>1, <1>q DEF HandleIrq, SysCallFails, LoadRegs, SysWrite, WriteCurrentTask, CallCurrentTask, WriteAlloc,
         WritePrint
  <2>2. CASE Eret
    <3>1. elr \in Interruptible
      BY <2>2, Returns DEF Eret
    <3> QED BY <2>2, <3>1, <1>q DEF Eret, ReturnFromException, Interruptible, BodyPoint
  <2> QED BY <1>4, <2>1, <2>2 DEF Vector
<1>5. CASE Entry
  <2>1. CASE EnterEl0Spsr \/ EnterEl0Elr \/ CpuContextEntry
    BY <2>1, <1>q DEF EnterEl0Spsr, EnterEl0Elr, CpuContextEntry
  <2>2. CASE EnterEl0Eret
    <3>1. elr = "user"
      BY <2>2 DEF EnterEl0Eret, Inv, ReturnInv
    <3> QED BY <2>2, <3>1, <1>q DEF EnterEl0Eret, ReturnFromException
  <2> QED BY <1>5, <2>1, <2>2 DEF Entry
<1>6. CASE Chosen \/ TakeIrq
  <2>1. CASE CreateKthread
    <3>1. /\ UNCHANGED <<tasks, queue, current, sp, ttbr0>> /\ nextId' = nextId + 1
          /\ pc = "thread" /\ pc' = "add_task"
      BY <2>1 DEF CreateKthread
    <3> QED BY <1>0, <3>1 DEF TableOk, StackAndTablesMatchCurrent,
              TasksScheduledOnce, TableInv, Waiting, Running, Created, TaskId
  <2>2. CASE CurrentTask \/ Execute \/ FuncReturns
    BY <2>2, <1>q DEF CurrentTask, Execute, CallCurrentTask, FuncReturns
  <2>3. CASE Svc
    BY <2>3, <1>q DEF Svc, TakeException
  <2>4. CASE TakeIrq
    <3>1. pc \notin Special
      BY <2>4 DEF TakeIrq, Inv, MaskInv, MaskedPoint, SchedulePoint
    <3> QED BY <2>4, <3>1, <1>q DEF TakeIrq, TakeException
  <2> QED BY <1>6, <1>s, <2>1, <2>2, <2>3, <2>4 DEF Chosen
<1> QED BY <1>s, <1>1, <1>2, <1>3, <1>4, <1>5, <1>6 DEF Next, Forced, SpinMasked

\* Whether a task can be resumed depends on nothing but its own context, stack
\* and locals.
LEMMA StaysResumable ==
  ASSUME NEW t \in TaskId, Resumable(t), ctx'[t] = ctx[t], stack'[t] = stack[t],
         ret'[t] = ret[t], id'[t] = id[t]
  PROVE  Resumable(t)'
BY DEF Resumable, HasFrame, FrameOk

\* Every step leaves the tasks that do not own the core resumable: the one that
\* ContextSwitch takes the core from, and the one that CreateKthread makes.
LEMMA ContextNext ==
  ASSUME Inv, [Next]_vars
  PROVE  ContextInv'
<1>0. /\ ContextInv /\ sp \in TaskId /\ nextId \in Nat /\ MaxTasks \in Nat
      /\ ctx \in [TaskId -> [lr : Point, sp : TaskId \cup {None}]]
      /\ stack \in [TaskId -> Seq(Frame)]
      /\ id \in [TaskId -> TaskId \cup {None}]
      /\ ret \in [TaskId -> Point]
  BY OnCore DEF Inv, TypeOK
<1> USE DEF Goto, vars, schedVars, coreVars, taskVars
<1>q. ASSUME UNCHANGED <<nextId, sp, ctx>>,
             \A t \in TaskId \ {sp} : stack'[t] = stack[t] /\ ret'[t] = ret[t] /\ id'[t] = id[t]
      PROVE  ContextInv'
  BY <1>0, <1>q, StaysResumable DEF ContextInv, Created
<1>s. CASE \E l \in SpinLock : TakeSpinLock(l) \/ DropSpinLock(l)
  BY <1>s, <1>q DEF TakeSpinLock, DropSpinLock
<1>1. CASE UNCHANGED vars \/ TimerExpires
  BY <1>1, <1>q DEF TimerExpires
<1>2. CASE Critical
  BY <1>0, <1>2, <1>q DEF Critical, DisableInterrupts, AddTask, CurrentTaskId, GetTask, Acquire,
       Unlock, RestoreInterrupts
<1>3. CASE Switch
  <2>1. CASE BecomeKinit
    <3>1. nextId = 1 /\ nextId' = 2 /\ sp' = 1
      BY <2>1 DEF BecomeKinit, Inv, TableOk, TableInv, Kinit
    <3>2. Created' = {1}
      BY <3>1, SchedulerAssumption DEF Created, TaskId
    <3> QED BY <3>1, <3>2 DEF ContextInv
  <2>2. CASE ContextSwitch
    <3>1. /\ pc = "context_switch" /\ prev = sp
          /\ ctx' = [ctx EXCEPT ![sp] = [lr |-> lr, sp |-> sp]]
          /\ UNCHANGED <<stack, ret, id, nextId>>
      BY <2>2 DEF ContextSwitch, Inv, TableOk, TableInv
    <3>2. sp' = current
      BY <2>2, TableNext DEF ContextSwitch, TableOk, StackAndTablesMatchCurrent
    <3>3. (lr = "load_regs" /\ HasFrame(sp)) \/ current = sp
      BY <3>1 DEF Inv, FrameInv, Trapped, SchedulePoint
    <3> SUFFICES ASSUME NEW t \in Created, t # current PROVE Resumable(t)'
      BY <3>1, <3>2 DEF ContextInv, Created
    <3>4. CASE t = sp
      <4>1. ctx'[t].sp = t /\ ctx'[t].lr = "load_regs"
        BY <1>0, <3>1, <3>3, <3>4
      <4>2. HasFrame(t)'
        BY <3>1, <3>3, <3>4 DEF HasFrame, FrameOk
      <4> QED BY <4>1, <4>2 DEF Resumable
    <3>5. CASE t # sp
      BY <1>0, <3>1, <3>5, StaysResumable DEF ContextInv, Created
    <3> QED BY <3>4, <3>5
  <2>3. CASE Schedule \/ AfterSchedule \/ SetDuration \/ EnableInterrupts
    BY <2>3, <1>q DEF Schedule, AfterSchedule, SetDuration, EnableInterrupts
  <2> QED BY <1>3, <2>1, <2>2, <2>3 DEF Switch
<1>4. CASE Vector \/ Entry
  BY <1>0, <1>4, <1>q DEF Vector, HandleIrq, SysCallFails, SysWrite, WriteCurrentTask, CallCurrentTask, LoadRegs,
       WriteAlloc, WritePrint, Eret, ReturnFromException, Entry, EnterEl0Spsr, EnterEl0Elr, EnterEl0Eret, CpuContextEntry
<1>5. CASE CreateKthread
  <2>0. PICK n \in TaskId : n = nextId
    BY <1>0, <1>5 DEF CreateKthread, TaskId, Inv, TypeOK
  <2>1. /\ nextId' = n + 1 /\ sp' = sp /\ pc = "thread"
        /\ ctx' = [ctx EXCEPT ![n] = [lr |-> "cpu_context_entry", sp |-> n]]
        /\ UNCHANGED <<stack, ret>>
        /\ \A t \in TaskId \ {sp} : id'[t] = id[t]
    BY <1>0, <1>5, <2>0 DEF CreateKthread
  <2>2. stack[n] = <<>>
    BY <1>0, <2>0 DEF Inv, FrameInv, Created
  <2>3. Resumable(n)'
    BY <1>0, <2>1, <2>2 DEF Resumable
  <2>4. ASSUME NEW t \in Created, t # sp PROVE Resumable(t)'
    <3>1. t \in TaskId /\ t # n /\ Resumable(t)
      BY <1>0, <2>0, <2>4 DEF ContextInv, Created, TaskId
    <3> QED BY <1>0, <2>1, <2>4, <3>1, StaysResumable
  <2>5. Created' \subseteq Created \cup {n}
    BY <1>0, <2>0, <2>1 DEF Created, TaskId
  <2> QED BY <2>1, <2>3, <2>4, <2>5 DEF ContextInv
<1>6. CASE CurrentTask \/ Execute \/ FuncReturns \/ Svc \/ TakeIrq
  BY <1>0, <1>6, <1>q DEF CurrentTask, Execute, CallCurrentTask, FuncReturns, Svc, TakeIrq,
       TakeException
<1> QED BY <1>s, <1>1, <1>2, <1>3, <1>4, <1>5, <1>6 DEF Next, Forced, SpinMasked, Chosen

\* An exception always finds the kernel stack empty, and what it pushes is a
\* frame that the task can return through.
LEMMA Interrupted ==
  ASSUME ~EntryWindow, Inv, Svc \/ TakeIrq
  PROVE  LET f == [elr |-> pc, spsr |-> [el |-> el, masked |-> masked]] IN
         /\ f \in Frame /\ FrameOk(sp, f)
         /\ stack[sp] = <<>> /\ stack' = [stack EXCEPT ![sp] = <<f>>]
<1> DEFINE f == [elr |-> pc, spsr |-> [el |-> el, masked |-> masked]]
<1>0. TypeOK /\ MaskInv /\ ReturnInv /\ CallerInv
  BY DEF Inv
<1>1. f \in Frame
  BY <1>0 DEF TypeOK, Frame, Pstate
<1>2. masked = FALSE /\ pc \in Interruptible
  <2>1. CASE Svc
    BY <2>1, <1>0 DEF Svc, MaskInv, OpenPoint, BodyPoint, Interruptible, TypeOK
  <2>2. CASE TakeIrq
    <3>1. /\ ~masked /\ masked = FALSE /\ timer # "armed" /\ pc \notin EntryPending
          /\ pc \notin {"load_regs", "eret", "cpu_context_entry"}
      BY <2>2, <1>0 DEF TakeIrq, TypeOK, ReturnInv, OnReturnPath
    <3>2. pc \notin MaskedPoint /\ pc # "zero" /\ pc \in Point
      BY <3>1, <1>0 DEF MaskInv, TypeOK
    <3> QED BY <3>1, <3>2 DEF EntryPending, MaskedPoint, WritePoint, InsidePoint, SchedulePoint, Point,
              CallPoint, VectorPoint, EntryPoint, BodyPoint, Interruptible
  <2> QED BY <2>1, <2>2
<1>3. el = IF pc = "user" THEN 0 ELSE 1
  BY <1>0 DEF MaskInv
<1>4. pc \in {"current_task_id", "task"} => ret[sp] \in {"thread", "enter_el0"}
  BY <1>0, <1>2 DEF MaskInv, CurrentPoint
<1>5. pc = "task" => id[sp] = sp
  BY <1>0 DEF CallerInv, CurrentPoint
<1>h. pc = "holding" => HolderLosesCore
  BY DEF Svc, TakeIrq
<1>6. FrameOk(sp, f)
  BY <1>2, <1>3, <1>4, <1>5, <1>h DEF FrameOk
<1>7. stack[sp] = <<>>
  <2>1. ~Trapped
    BY <1>2, <1>4 DEF Trapped, SysCallPending, WritePoint, VectorPoint, SchedulePoint, CurrentPoint,
         Interruptible, BodyPoint
  <2> QED BY <2>1 DEF Inv, FrameInv
<1>8. stack' = [stack EXCEPT ![sp] = <<f>>]
  <2>1. stack' = [stack EXCEPT ![sp] = Append(stack[sp], f)]
    BY DEF Svc, TakeIrq, TakeException
  <2> HIDE DEF f
  <2> QED BY <1>1, <1>7, <2>1, OneFrame
<1> QED BY <1>1, <1>6, <1>7, <1>8

\* Every step keeps the trap frame of the task on the core in step with whether
\* the kernel is handling an exception for it.
LEMMA FrameNext ==
  ASSUME ~EntryWindow, Inv, [Next]_vars
  PROVE  FrameInv'
<1>0. /\ FrameInv /\ MaskInv /\ sp \in TaskId /\ nextId \in Nat /\ MaxTasks \in Nat
      /\ stack \in [TaskId -> Seq(Frame)]
      /\ id \in [TaskId -> TaskId \cup {None}]
      /\ ret \in [TaskId -> Point]
  BY OnCore DEF Inv, TypeOK
<1> USE DEF Goto, vars, schedVars, coreVars, taskVars
\* Steps that stay on the stack, and leave it alone.
<1>q. ASSUME UNCHANGED <<stack, sp, nextId>>,
             Trapped' <=> Trapped,
             \A f \in Frame : stack[sp] = <<f>> /\ FrameOk(sp, f) => FrameOk(sp, f)',
             SysCallPending' => SysCallPending,
             pc' \notin SchedulePoint
      PROVE  FrameInv'
  <2>1. IF Trapped' THEN HasFrame(sp)' ELSE (stack[sp] = <<>>)'
    BY <1>0, <1>q DEF FrameInv, HasFrame
  <2> QED BY <1>0, <1>q, <2>1 DEF FrameInv, SchedulePoint, Created
<1>r. ASSUME UNCHANGED <<id, ret, sp>>
      PROVE \A f \in Frame : stack[sp] = <<f>> /\ FrameOk(sp, f) => FrameOk(sp, f)'
  BY <1>r DEF FrameOk
<1>s. CASE \E l \in SpinLock : TakeSpinLock(l) \/ DropSpinLock(l)
  BY <1>s, <1>q, <1>r DEF TakeSpinLock, DropSpinLock, Trapped, SysCallPending, WritePoint,
       VectorPoint, SchedulePoint, CurrentPoint
<1>1. CASE UNCHANGED vars \/ TimerExpires
  <2>1. UNCHANGED <<stack, sp, nextId, id, ret, pc, lr, queue, current, prev>>
    BY <1>1 DEF TimerExpires
  <2> QED BY <1>0, <2>1 DEF FrameInv, Trapped, SysCallPending, HasFrame, FrameOk, Created
<1>2. CASE Critical
  <2> USE DEF Trapped, SysCallPending, WritePoint, VectorPoint, SchedulePoint, CurrentPoint
  <2>1. CASE DisableInterrupts("add_task", "add_task.lock")
             \/ DisableInterrupts("current_task_id", "current_task_id.lock")
             \/ DisableInterrupts("task", "task.lock")
    BY <2>1, <1>q, <1>r DEF DisableInterrupts
  <2>2. CASE AddTask \/ GetTask
    BY <2>2, <1>q, <1>r DEF AddTask, GetTask, Acquire
  <2>3. CASE Unlock("add_task.unlock", "add_task.restore")
             \/ Unlock("current_task_id.unlock", "current_task_id.restore")
             \/ Unlock("task.unlock", "task.restore")
    BY <2>3, <1>q, <1>r DEF Unlock
  <2>4. CASE RestoreInterrupts("add_task.restore", "thread")
             \/ RestoreInterrupts("current_task_id.restore", "task")
    BY <2>4, <1>q, <1>r DEF RestoreInterrupts
  <2>5. CASE RestoreInterrupts("task.restore", ret[sp])
    <3>1. ret[sp] \in {"thread", "enter_el0", "write.alloc"}
      BY <1>0, <2>5 DEF RestoreInterrupts, MaskInv
    <3> QED BY <2>5, <3>1, <1>q, <1>r DEF RestoreInterrupts
  <2>6. CASE CurrentTaskId
    <3>1. id' = [id EXCEPT ![sp] = sp] /\ UNCHANGED <<stack, sp, nextId, ret>>
          /\ pc = "current_task_id.lock" /\ pc' = "current_task_id.unlock"
      BY <2>6 DEF CurrentTaskId, Acquire, Inv, TableOk, StackAndTablesMatchCurrent
    <3>2. \A f \in Frame : stack[sp] = <<f>> /\ FrameOk(sp, f) => FrameOk(sp, f)'
      BY <1>0, <3>1 DEF FrameOk
    <3> QED BY <3>1, <3>2, <1>q
  <2> QED BY <1>2, <2>1, <2>2, <2>3, <2>4, <2>5, <2>6 DEF Critical
<1>3. CASE Switch
  <2>1. CASE BecomeKinit
    <3>1. /\ UNCHANGED <<stack, sp, queue>> /\ nextId' = nextId + 1 /\ lr' = "thread"
          /\ pc = "kernel_init" /\ pc' = "schedule" /\ queue = <<>>
      BY <2>1 DEF BecomeKinit, Inv, TableOk, TableInv
    <3>2. ~Trapped /\ ~Trapped' /\ ~SysCallPending'
      BY <3>1 DEF Trapped, SysCallPending, WritePoint, VectorPoint, SchedulePoint, CurrentPoint
    <3> QED BY <1>0, <3>1, <3>2 DEF FrameInv, Created, TaskId
  <2>2. CASE Schedule
    <3>1. /\ UNCHANGED <<stack, sp, nextId, lr, id, ret>> /\ prev' = current
          /\ current' = Head(Append(queue, current))
          /\ pc = "schedule" /\ pc' = "context_switch"
      BY <2>2 DEF Schedule
    <3>2. queue = <<>> => current' = current
      BY <3>1
    <3>3. (Trapped' <=> Trapped) /\ ~SysCallPending'
      BY <3>1 DEF Trapped, SysCallPending, WritePoint, VectorPoint, SchedulePoint, CurrentPoint
    <3>4. IF Trapped' THEN HasFrame(sp)' ELSE (stack[sp] = <<>>)'
      BY <1>0, <3>1, <3>3 DEF FrameInv, HasFrame, FrameOk
    <3> QED BY <1>0, <3>1, <3>2, <3>3, <3>4 DEF FrameInv, Created, SchedulePoint
  <2>3. CASE ContextSwitch
    <3>1. /\ UNCHANGED <<stack, nextId, id, ret>>
          /\ pc = "context_switch" /\ pc' = "after_schedule" /\ prev = sp
          /\ ctx' = [ctx EXCEPT ![sp] = [lr |-> lr, sp |-> sp]]
          /\ lr' = ctx'[current].lr
          /\ ctx \in [TaskId -> [lr : Point, sp : TaskId \cup {None}]]
      BY <2>3 DEF ContextSwitch, Inv, TypeOK, TableOk, TableInv
    <3>2. sp' = current /\ current \in Created /\ current \in TaskId
      BY <2>3, TableNext, OnCore DEF ContextSwitch, Inv, TableOk, TableInv, StackAndTablesMatchCurrent
    <3>3. ~SysCallPending' /\ (Trapped' <=> lr' = "load_regs")
      BY <3>1 DEF Trapped, SysCallPending, WritePoint, VectorPoint, SchedulePoint, CurrentPoint
    <3>4. \/ lr' = "load_regs" /\ HasFrame(current)
          \/ lr' \in {"cpu_context_entry", "thread"} /\ stack[current] = <<>>
      <4>1. CASE current = sp
        <5>1. lr' = lr
          BY <1>0, <3>1, <4>1
        <5> QED BY <1>0, <3>1, <4>1, <5>1 DEF FrameInv, Trapped, SysCallPending, WritePoint, SchedulePoint,
                  VectorPoint, CurrentPoint
      <4>2. CASE current # sp
        <5>1. Resumable(current)
          BY <3>2, <4>2 DEF Inv, ContextInv
        <5> QED BY <1>0, <3>1, <3>2, <4>2, <5>1 DEF Resumable
      <4> QED BY <4>1, <4>2
    <3>5. HasFrame(current) => HasFrame(sp)'
      BY <3>1, <3>2 DEF HasFrame, FrameOk
    <3> QED BY <1>0, <3>1, <3>2, <3>3, <3>4, <3>5 DEF FrameInv, Created
  <2>4. CASE AfterSchedule \/ SetDuration
    <3>1. /\ UNCHANGED <<stack, sp, nextId, lr, id, ret>>
          /\ pc \in {"after_schedule", "set_duration"}
          /\ pc' \in {"set_duration", "enable_interrupts"}
      BY <2>4 DEF AfterSchedule, SetDuration
    <3>2. (Trapped' <=> Trapped) /\ ~SysCallPending'
      BY <3>1 DEF Trapped, SysCallPending, WritePoint, VectorPoint, SchedulePoint, CurrentPoint
    <3>3. IF Trapped' THEN HasFrame(sp)' ELSE (stack[sp] = <<>>)'
      BY <1>0, <3>1, <3>2 DEF FrameInv, HasFrame, FrameOk
    <3> QED BY <1>0, <3>1, <3>2, <3>3 DEF FrameInv, Created, SchedulePoint
  <2>5. CASE EnableInterrupts
    <3>1. lr \in {"load_regs", "cpu_context_entry", "thread"} /\ pc = "enable_interrupts" /\ pc' = lr
      BY <1>0, <2>5 DEF EnableInterrupts, FrameInv, SchedulePoint
    <3> QED BY <2>5, <3>1, <1>q, <1>r DEF EnableInterrupts, Trapped, SysCallPending, WritePoint, VectorPoint,
              SchedulePoint, CurrentPoint
  <2> QED BY <1>3, <2>1, <2>2, <2>3, <2>4, <2>5 DEF Switch
<1>4. CASE Vector
  <2>1. CASE HandleIrq
    <3>1. /\ UNCHANGED <<stack, sp, nextId, id, ret>> /\ lr' = "load_regs"
          /\ pc = "vector_irq" /\ pc' = "schedule"
      BY <2>1 DEF HandleIrq
    <3>2. Trapped /\ Trapped' /\ ~SysCallPending'
      BY <3>1 DEF Trapped, SysCallPending, WritePoint, VectorPoint, SchedulePoint, CurrentPoint
    <3>3. HasFrame(sp)'
      BY <1>0, <3>1, <3>2 DEF FrameInv, HasFrame, FrameOk
    <3> QED BY <1>0, <3>1, <3>2, <3>3 DEF FrameInv, Created, SchedulePoint
  <2>2. CASE SysCallFails \/ LoadRegs \/ SysWrite \/ WriteAlloc \/ WritePrint
    BY <2>2, <1>q, <1>r DEF SysCallFails, SysWrite, LoadRegs, WriteAlloc, WritePrint, Trapped, SysCallPending, WritePoint, VectorPoint,
         SchedulePoint, CurrentPoint
  <2>3. CASE WriteCurrentTask
    <3>1. /\ UNCHANGED <<stack, sp, nextId, id>> /\ ret' = [ret EXCEPT ![sp] = "write.alloc"]
          /\ pc = "write" /\ pc' = "current_task_id"
      BY <2>3 DEF SysWrite, WriteCurrentTask, CallCurrentTask
    <3>2. Trapped /\ Trapped' /\ SysCallPending /\ SysCallPending'
      BY <1>0, <3>1 DEF Trapped, SysCallPending, WritePoint, CurrentPoint
    <3>3. PICK f \in Frame : stack[sp] = <<f>> /\ FrameOk(sp, f) /\ f.elr = "user"
      BY <3>2, Handled
    <3>4. FrameOk(sp, f)'
      BY <1>0, <3>1, <3>3 DEF FrameOk
    <3>5. HasFrame(sp)'
      BY <3>1, <3>3, <3>4 DEF HasFrame
    <3> QED BY <1>0, <3>1, <3>2, <3>5 DEF FrameInv, Created, SchedulePoint
  <2>4. CASE Eret
    <3>1. Pop(stack[sp]) = <<>> /\ pc = "eret"
      BY <2>4, Handled DEF Eret, Trapped, VectorPoint
    <3>2. /\ UNCHANGED <<sp, nextId, lr, ret>> /\ stack' = [stack EXCEPT ![sp] = <<>>]
          /\ pc' = elr
      BY <2>4, <3>1 DEF Eret, ReturnFromException
    <3>3. elr \in Interruptible
          /\ (elr \in {"current_task_id", "task"} => ret[sp] \in {"thread", "enter_el0"})
      BY <3>1, Returns
    <3>4. ~Trapped' /\ pc' \notin SchedulePoint
      BY <3>2, <3>3 DEF Trapped, SysCallPending, WritePoint, VectorPoint, SchedulePoint, CurrentPoint,
           Interruptible, BodyPoint
    <3> QED BY <1>0, <3>2, <3>4 DEF FrameInv, Trapped, Created, SchedulePoint
  <2> QED BY <1>4, <2>1, <2>2, <2>3, <2>4 DEF Vector
<1>5. CASE Entry
  <2> USE DEF Trapped, SysCallPending, WritePoint, VectorPoint, SchedulePoint, CurrentPoint
  <2>1. CASE EnterEl0Spsr \/ EnterEl0Elr \/ CpuContextEntry
    BY <2>1, <1>q, <1>r DEF EnterEl0Spsr, EnterEl0Elr, CpuContextEntry
  <2>2. CASE EnterEl0Eret
    <3>1. elr = "user"
      BY <2>2 DEF EnterEl0Eret, Inv, ReturnInv
    <3> QED BY <2>2, <3>1, <1>q, <1>r DEF EnterEl0Eret, ReturnFromException
  <2> QED BY <1>5, <2>1, <2>2 DEF Entry
<1>6. CASE CreateKthread
  <2>1. /\ UNCHANGED <<stack, sp>> /\ nextId' = nextId + 1
        /\ pc = "thread" /\ pc' = "add_task"
    BY <1>6 DEF CreateKthread
  <2>2. ~Trapped /\ ~Trapped'
    BY <2>1 DEF Trapped, SysCallPending, WritePoint, VectorPoint, SchedulePoint, CurrentPoint
  <2> QED BY <1>0, <2>1, <2>2 DEF FrameInv, Trapped, SchedulePoint, Created, TaskId
<1>7. CASE CurrentTask \/ Execute
  <2>1. /\ UNCHANGED <<stack, sp, nextId>> /\ ret'[sp] \in {"thread", "enter_el0"}
        /\ pc = "thread" /\ pc' = "current_task_id"
    BY <1>0, <1>7 DEF CurrentTask, Execute, CallCurrentTask
  <2>2. ~Trapped /\ ~Trapped'
    BY <2>1 DEF Trapped, SysCallPending, WritePoint, VectorPoint, SchedulePoint, CurrentPoint
  <2> QED BY <1>0, <2>1, <2>2 DEF FrameInv, Trapped, SchedulePoint, Created
<1>8. CASE FuncReturns
  BY <1>8, <1>q, <1>r DEF FuncReturns, Trapped, SysCallPending, WritePoint, VectorPoint,
       SchedulePoint, CurrentPoint
<1>9. CASE Svc \/ TakeIrq
  <2>1. PICK f \in Frame : /\ f.elr = pc /\ FrameOk(sp, f)
                           /\ stack' = [stack EXCEPT ![sp] = <<f>>]
    BY <1>9, Interrupted
  <2>2. /\ UNCHANGED <<sp, nextId, id, ret>>
        /\ pc' \in {"vector_sync_el0", "vector_irq"}
        /\ pc' = "vector_sync_el0" => pc = "user"
    BY <1>9 DEF Svc, TakeIrq, TakeException
  <2>3. Trapped' /\ pc' \notin SchedulePoint /\ (SysCallPending' => pc = "user")
    BY <2>2 DEF Trapped, SysCallPending, WritePoint, VectorPoint, SchedulePoint, CurrentPoint
  <2>4. stack'[sp'] = <<f>> /\ FrameOk(sp, f)' /\ stack'[sp'][1].elr = pc
    BY <1>0, <2>1, <2>2, OneFrame DEF FrameOk
  <2>5. \A t \in TaskId \ Created : stack'[t] = <<>>
    <3>1. sp \in Created
      BY <1>9, OnCore DEF Svc, TakeIrq, MaskInv, Inv, MaskedPoint
    <3> QED BY <1>0, <2>1, <3>1 DEF FrameInv
  <2> QED BY <2>2, <2>3, <2>4, <2>5 DEF FrameInv, HasFrame, SchedulePoint, Created
<1> QED BY <1>s, <1>1, <1>2, <1>3, <1>4, <1>5, <1>6, <1>7, <1>8, <1>9 DEF Next, Forced, SpinMasked, Chosen

\* Every step keeps ELR_EL1 and SPSR_EL1 right for the eret that is due, and the
\* timer armed on the way out of the handler.
LEMMA ReturnNext ==
  ASSUME ~SlowReturn, Inv, [Next]_vars
  PROVE  ReturnInv'
<1>0. ReturnInv /\ MaskInv /\ FrameInv /\ sp \in TaskId /\ masked \in BOOLEAN
      /\ daif \in [TaskId -> BOOLEAN]
  BY OnCore DEF Inv, TypeOK
<1> USE DEF Goto, vars, schedVars, coreVars, taskVars
<1>q. ASSUME pc' \notin {"eret", "enter_el0.elr", "enter_el0.eret", "enable_interrupts",
                         "load_regs", "cpu_context_entry"}
      PROVE  ReturnInv'
  BY <1>q DEF ReturnInv, OnReturnPath, EntryPending
<1>l. ASSUME pc' \in {"load_regs", "cpu_context_entry"}, masked' = TRUE \/ timer' = "armed"
      PROVE  ReturnInv'
  BY <1>l DEF ReturnInv, OnReturnPath, EntryPending
<1>s. CASE \E l \in SpinLock : TakeSpinLock(l) \/ DropSpinLock(l)
  BY <1>s, <1>q DEF TakeSpinLock, DropSpinLock
<1>1. CASE UNCHANGED vars \/ TimerExpires
  <2>1. UNCHANGED <<stack, sp, pc, elr, spsr, masked>>
        /\ (OnReturnPath => timer' = timer)
    BY <1>1 DEF TimerExpires
  <2> QED BY <1>0, <2>1 DEF ReturnInv, OnReturnPath, EntryPending
<1>2. CASE Critical
  <2>1. CASE RestoreInterrupts("task.restore", ret[sp])
    <3>1. ret[sp] \in {"thread", "enter_el0", "write.alloc"}
          /\ (ret[sp] = "write.alloc" => daif[sp] = TRUE)
      BY <1>0, <2>1 DEF RestoreInterrupts, MaskInv, InsidePoint, CurrentPoint
    <3> QED BY <2>1, <3>1, <1>q, <1>l DEF RestoreInterrupts
  <2> QED BY <1>2, <2>1, <1>q DEF Critical, DisableInterrupts, AddTask, CurrentTaskId, GetTask,
            Acquire, Unlock, RestoreInterrupts
<1>3. CASE Switch
  <2>1. CASE SetDuration
    BY <2>1 DEF SetDuration, ReturnInv, OnReturnPath, EntryPending
  <2>2. CASE EnableInterrupts
    <3>1. lr \in {"load_regs", "cpu_context_entry", "thread"} /\ timer = "armed"
      BY <1>0, <2>2 DEF EnableInterrupts, FrameInv, SchedulePoint, ReturnInv, OnReturnPath
    <3> QED BY <2>2, <3>1, <1>q, <1>l DEF EnableInterrupts
  <2> QED BY <1>3, <2>1, <2>2, <1>q DEF Switch, BecomeKinit, Schedule, ContextSwitch, AfterSchedule
<1>4. CASE Vector
  <2>1. CASE HandleIrq \/ SysWrite \/ WriteCurrentTask
    BY <2>1, <1>q DEF HandleIrq, SysWrite, WriteCurrentTask, CallCurrentTask
  <2>2. CASE SysCallFails \/ WriteAlloc \/ WritePrint
    <3>1. masked = TRUE
      BY <1>0, <2>2 DEF SysCallFails, WriteAlloc, WritePrint, MaskInv, MaskedPoint, WritePoint
    <3> QED BY <2>2, <3>1, <1>l, <1>q DEF SysCallFails, WriteAlloc, WritePrint
  <2>3. CASE LoadRegs
    <3>1. PICK f \in Frame : stack[sp] = <<f>> /\ Top(stack[sp]) = f
      BY <2>3, Handled DEF LoadRegs, Trapped, VectorPoint
    <3>2. f = [elr |-> f.elr, spsr |-> f.spsr]
      BY DEF Frame
    <3>3. /\ pc' = "eret" /\ elr' = f.elr /\ spsr' = f.spsr /\ pc = "load_regs"
          /\ UNCHANGED <<stack, sp, masked, timer>>
      BY <2>3, <3>1 DEF LoadRegs
    <3>4. stack'[sp'] = <<[elr |-> elr', spsr |-> spsr']>>
      BY <3>1, <3>2, <3>3
    <3>5. OnReturnPath' => timer' = "armed"
      BY <1>0, <3>3 DEF ReturnInv, OnReturnPath
    <3> QED BY <3>3, <3>4, <3>5 DEF ReturnInv, EntryPending
  <2>4. CASE Eret
    <3>1. elr \in Interruptible
      BY <2>4, Returns DEF Eret
    <3> QED BY <2>4, <3>1, <1>q DEF Eret, ReturnFromException, Interruptible, BodyPoint
  <2> QED BY <1>4, <2>1, <2>2, <2>3, <2>4 DEF Vector
<1>5. CASE Entry
  <2>1. CASE EnterEl0Spsr \/ EnterEl0Elr
    BY <1>0, <2>1 DEF EnterEl0Spsr, EnterEl0Elr, ReturnInv, OnReturnPath, EntryPending
  <2>2. CASE EnterEl0Eret
    <3>1. elr = "user"
      BY <1>0, <2>2 DEF EnterEl0Eret, ReturnInv
    <3> QED BY <2>2, <3>1, <1>q DEF EnterEl0Eret, ReturnFromException
  <2>3. CASE CpuContextEntry
    BY <2>3, <1>q DEF CpuContextEntry
  <2> QED BY <1>5, <2>1, <2>2, <2>3 DEF Entry
<1>6. CASE Chosen \/ TakeIrq
  BY <1>6, <1>s, <1>q DEF Chosen, CreateKthread, CurrentTask, Execute, CallCurrentTask, FuncReturns,
       Svc, TakeIrq, TakeException
<1> QED BY <1>s, <1>1, <1>2, <1>3, <1>4, <1>5, <1>6 DEF Next, Forced, SpinMasked

\* Every step keeps the ID that current_task() read the ID of its caller.
LEMMA CallerNext ==
  ASSUME Inv, [Next]_vars
  PROVE  CallerInv'
<1>0. CallerInv /\ sp \in TaskId /\ id \in [TaskId -> TaskId \cup {None}]
  BY OnCore DEF Inv, TypeOK
<1> USE DEF Goto, vars, schedVars, coreVars, taskVars, CallerInv, CurrentPoint
<1>s. CASE \E l \in SpinLock : TakeSpinLock(l) \/ DropSpinLock(l)
  BY <1>s DEF TakeSpinLock, DropSpinLock
<1>1. CASE UNCHANGED vars \/ TimerExpires
  BY <1>0, <1>1 DEF TimerExpires
<1>2. CASE Critical
  <2>1. CASE CurrentTaskId
    <3>1. current = sp
      BY <2>1 DEF CurrentTaskId, Acquire, Inv, TableOk, StackAndTablesMatchCurrent
    <3> QED BY <1>0, <2>1, <3>1 DEF CurrentTaskId, Acquire
  <2>2. CASE RestoreInterrupts("task.restore", ret[sp])
    <3>1. ret[sp] \in {"thread", "enter_el0", "write.alloc"}
      BY <2>2 DEF RestoreInterrupts, Inv, MaskInv
    <3> QED BY <2>2, <3>1 DEF RestoreInterrupts
  <2> QED BY <1>0, <1>2, <2>1, <2>2 DEF Critical, DisableInterrupts, AddTask, GetTask,
            Acquire, Unlock, RestoreInterrupts
<1>3. CASE Switch
  <2>1. CASE EnableInterrupts
    <3>1. lr \in {"load_regs", "cpu_context_entry", "thread"}
      BY <2>1 DEF EnableInterrupts, Inv, FrameInv, SchedulePoint
    <3> QED BY <2>1, <3>1 DEF EnableInterrupts
  <2> QED BY <1>3, <2>1 DEF Switch, BecomeKinit, Schedule, ContextSwitch, AfterSchedule, SetDuration
<1>4. CASE Vector
  <2>1. CASE Eret
    <3>1. elr \in Interruptible /\ (elr = "task" => id[sp] = sp)
      BY <2>1, Returns DEF Eret
    <3> QED BY <2>1, <3>1 DEF Eret, ReturnFromException, Interruptible, BodyPoint
  <2> QED BY <1>4, <2>1 DEF Vector, HandleIrq, SysWrite, WriteCurrentTask, CallCurrentTask, SysCallFails, LoadRegs,
            WriteAlloc, WritePrint
<1>5. CASE Entry
  <2>1. CASE EnterEl0Eret
    <3>1. elr = "user"
      BY <2>1 DEF EnterEl0Eret, Inv, ReturnInv
    <3> QED BY <2>1, <3>1 DEF EnterEl0Eret, ReturnFromException
  <2> QED BY <1>5, <2>1 DEF Entry, EnterEl0Spsr, EnterEl0Elr, CpuContextEntry
<1>6. CASE Chosen \/ TakeIrq
  BY <1>6, <1>s DEF Chosen, CreateKthread, CurrentTask, Execute, CallCurrentTask, FuncReturns,
       Svc, TakeIrq, TakeException
<1> QED BY <1>s, <1>1, <1>2, <1>3, <1>4, <1>5, <1>6 DEF Next, Forced, SpinMasked

\* Every step keeps the tasks that are about to be added new and distinct.
LEMMA FreshNext ==
  ASSUME ~EntryWindow, Inv, [Next]_vars
  PROVE  FreshInv'
<1>0. /\ FreshInv /\ FrameInv /\ TableInv /\ sp \in TaskId /\ nextId \in Nat /\ MaxTasks \in Nat
      /\ stack \in [TaskId -> Seq(Frame)]
      /\ id \in [TaskId -> TaskId \cup {None}]
  BY OnCore DEF Inv, TypeOK, TableOk
<1> DEFINE AddPoint == {"add_task", "add_task.lock"}
<1> USE DEF Goto, vars, schedVars, coreVars, taskVars
<1>q. ASSUME UNCHANGED <<tasks, nextId>>,
             \A t \in TaskId : Adding(t)' => Adding(t) /\ id'[t] = id[t]
      PROVE  FreshInv'
  BY <1>0, <1>q DEF FreshInv, Created
\* Steps that leave the stacks and the locals alone, and do not enter add_task.
<1>r. ASSUME UNCHANGED <<tasks, nextId, stack, id>>,
             pc' \in AddPoint => pc \in AddPoint /\ sp' = sp
      PROVE  FreshInv'
  BY <1>q, <1>r DEF Adding
<1>s. CASE \E l \in SpinLock : TakeSpinLock(l) \/ DropSpinLock(l)
  BY <1>s, <1>r DEF TakeSpinLock, DropSpinLock
<1>1. CASE UNCHANGED vars \/ TimerExpires
  BY <1>1, <1>r DEF TimerExpires
<1>2. CASE Critical
  <2>1. CASE AddTask
    <3>1. /\ pc = "add_task.lock" /\ pc' = "add_task.unlock" /\ tasks' = tasks \cup {id[sp]}
          /\ UNCHANGED <<sp, nextId, stack, id>>
      BY <2>1 DEF AddTask, Acquire
    <3>2. stack[sp] = <<>>
      BY <1>0, <3>1 DEF FrameInv, Trapped, SysCallPending, WritePoint, VectorPoint, SchedulePoint, CurrentPoint
    <3>3. ASSUME NEW t \in TaskId, Adding(t)' PROVE Adding(t) /\ t # sp
      BY <3>1, <3>2, <3>3, OneFrame DEF Adding
    <3>4. Adding(sp)
      BY <3>1 DEF Adding
    <3>5. ASSUME NEW t \in TaskId, Adding(t)' PROVE id[t] # id[sp] /\ id[t] \in Created \ tasks
      BY <1>0, <3>3, <3>4, <3>5 DEF FreshInv
    <3> QED BY <1>0, <3>1, <3>3, <3>5 DEF FreshInv, Created
  <2>2. CASE CurrentTaskId
    <3>1. /\ pc = "current_task_id.lock" /\ pc' = "current_task_id.unlock"
          /\ UNCHANGED <<sp, nextId, stack, tasks>> /\ \A t \in TaskId \ {sp} : id'[t] = id[t]
      BY <1>0, <2>2 DEF CurrentTaskId, Acquire
    <3>2. ~Adding(sp)'
      <4>1. stack[sp] = <<>> \/ \E f \in Frame : stack[sp] = <<f>> /\ f.elr = "user"
        <5>1. CASE Trapped
          <6>1. SysCallPending
            BY <3>1, <5>1 DEF Trapped, VectorPoint, SchedulePoint
          <6> QED BY <5>1, <6>1, Handled
        <5>2. CASE ~Trapped
          BY <1>0, <5>2 DEF FrameInv
        <5> QED BY <5>1, <5>2
      <4> SUFFICES ASSUME NEW g \in Frame, stack[sp] = <<g>>, g.elr = "add_task" PROVE FALSE
        BY <3>1 DEF Adding
      <4> QED BY <4>1, OneFrame
    <3>3. ASSUME NEW t \in TaskId, Adding(t)' PROVE Adding(t) /\ id'[t] = id[t]
      BY <3>1, <3>2, <3>3 DEF Adding
    <3> QED BY <3>1, <3>3, <1>q
  <2>3. CASE RestoreInterrupts("task.restore", ret[sp])
    <3>1. ret[sp] \in {"thread", "enter_el0", "write.alloc"}
      BY <2>3 DEF RestoreInterrupts, Inv, MaskInv, CurrentPoint
    <3> QED BY <2>3, <3>1, <1>r DEF RestoreInterrupts
  <2> QED BY <1>2, <2>1, <2>2, <2>3, <1>r DEF Critical, DisableInterrupts, GetTask,
            Acquire, Unlock, RestoreInterrupts
<1>3. CASE Switch
  <2>1. CASE BecomeKinit
    <3>1. nextId = 1 /\ sp = 1 /\ stack' = stack /\ pc = "kernel_init" /\ pc' = "schedule"
      BY <1>0, <2>1 DEF BecomeKinit, TableInv, Kinit
    <3>2. \A t \in TaskId : stack[t] = <<>>
      BY <1>0, <3>1 DEF FrameInv, Created, TaskId
    <3>3. ASSUME NEW t \in TaskId PROVE ~Adding(t)'
      BY <3>1, <3>2, OneFrame DEF Adding
    <3> QED BY <3>3 DEF FreshInv
  <2>2. CASE EnableInterrupts
    <3>1. lr \in {"load_regs", "cpu_context_entry", "thread"}
      BY <1>0, <2>2 DEF EnableInterrupts, FrameInv, SchedulePoint
    <3> QED BY <2>2, <3>1, <1>r DEF EnableInterrupts
  <2> QED BY <1>3, <2>1, <2>2, <1>r DEF Switch, Schedule, ContextSwitch, AfterSchedule, SetDuration
<1>4. CASE Vector
  <2>1. CASE Eret
    <3>1. PICK f \in Frame : stack[sp] = <<f>> /\ f = [elr |-> elr, spsr |-> spsr]
                             /\ Pop(stack[sp]) = <<>>
      BY <2>1, Handled DEF Eret, Trapped, VectorPoint
    <3>2. f.elr = elr
      BY <3>1
    <3>3. /\ UNCHANGED <<sp, nextId, tasks, id>> /\ pc' = elr
          /\ stack' = [stack EXCEPT ![sp] = <<>>]
      BY <2>1, <3>1 DEF Eret, ReturnFromException
    <3>4. elr \in Interruptible
      BY <2>1, Returns DEF Eret
    <3>5. ASSUME NEW t \in TaskId, Adding(t)' PROVE Adding(t)
      <4>1. CASE t = sp
        <5>1. stack'[sp] = <<>>
          BY <1>0, <3>3
        <5>2. elr \in AddPoint
          BY <3>3, <3>5, <4>1, <5>1, OneFrame DEF Adding
        <5>3. elr = "add_task"
          BY <3>4, <5>2 DEF Interruptible, BodyPoint
        <5> QED BY <3>1, <3>2, <4>1, <5>3 DEF Adding
      <4>2. CASE t # sp
        BY <1>0, <3>3, <3>5, <4>2 DEF Adding
      <4> QED BY <4>1, <4>2
    <3> QED BY <3>3, <3>5, <1>q
  <2> QED BY <1>4, <2>1, <1>r DEF Vector, HandleIrq, SysWrite, WriteCurrentTask, CallCurrentTask, SysCallFails, LoadRegs,
            WriteAlloc, WritePrint
<1>5. CASE Entry
  <2>1. CASE EnterEl0Eret
    <3>1. elr = "user"
      BY <2>1 DEF EnterEl0Eret, Inv, ReturnInv
    <3> QED BY <2>1, <3>1, <1>r DEF EnterEl0Eret, ReturnFromException
  <2> QED BY <1>5, <2>1, <1>r DEF Entry, EnterEl0Spsr, EnterEl0Elr, CpuContextEntry
<1>6. CASE CreateKthread
  <2>0. PICK n \in TaskId : n = nextId
    BY <1>0, <1>6 DEF CreateKthread, TaskId, Inv, TypeOK
  <2>1. /\ UNCHANGED <<sp, tasks, stack>> /\ nextId' = n + 1 /\ id' = [id EXCEPT ![sp] = n]
        /\ pc = "thread" /\ pc' = "add_task"
    BY <1>6, <2>0 DEF CreateKthread
  <2>2. n \in Created' /\ n \notin Created /\ Created \subseteq Created'
    BY <1>0, <2>0, <2>1 DEF Created, TaskId
  <2>3. ASSUME NEW t \in TaskId, t # sp, Adding(t)'
        PROVE  Adding(t) /\ id'[t] = id[t] /\ id'[t] \in Created \ tasks
    BY <1>0, <2>1, <2>3 DEF Adding, FreshInv
  <2>4. id'[sp] = n
    BY <1>0, <2>1
  <2>5. \A t \in TaskId : Adding(t)' => id'[t] \in Created' \ tasks'
    BY <1>0, <2>1, <2>2, <2>3, <2>4 DEF TableInv
  <2>6. ASSUME NEW t \in TaskId, NEW u \in TaskId, Adding(t)', Adding(u)', id'[t] = id'[u]
        PROVE  t = u
    BY <1>0, <2>2, <2>3, <2>4, <2>6 DEF FreshInv
  <2> QED BY <2>5, <2>6 DEF FreshInv
<1>7. CASE CurrentTask \/ Execute \/ FuncReturns
  BY <1>7, <1>r DEF CurrentTask, Execute, CallCurrentTask, FuncReturns
<1>8. CASE Svc \/ TakeIrq
  <2>1. PICK f \in Frame : f.elr = pc /\ stack' = [stack EXCEPT ![sp] = <<f>>]
    BY <1>8, Interrupted
  <2>2. UNCHANGED <<sp, nextId, tasks, id>> /\ pc' \in {"vector_sync_el0", "vector_irq"}
    BY <1>8 DEF Svc, TakeIrq, TakeException
  <2>3. ASSUME NEW t \in TaskId, Adding(t)' PROVE Adding(t)
    <3>1. CASE t = sp
      <4>1. PICK g \in Frame : stack'[sp] = <<g>> /\ g.elr = "add_task"
        BY <2>2, <2>3, <3>1 DEF Adding
      <4>2. g = f
        BY <1>0, <2>1, <4>1, OneFrame
      <4> QED BY <2>1, <3>1, <4>1, <4>2 DEF Adding
    <3>2. CASE t # sp
      BY <1>0, <2>1, <2>2, <2>3, <3>2 DEF Adding
    <3> QED BY <3>1, <3>2
  <2> QED BY <2>2, <2>3, <1>q
<1> QED BY <1>s, <1>1, <1>2, <1>3, <1>4, <1>5, <1>6, <1>7, <1>8 DEF Next, Forced, SpinMasked, Chosen

\* The inductive invariant holds in every reachable state.
THEOREM Invariance ==
  ASSUME ~SlowReturn, ~EntryWindow
  PROVE  Spec => []Inv
<1>1. Init => Inv
  BY InitInv
<1>2. Inv /\ [Next]_vars => Inv'
  <2> SUFFICES ASSUME Inv, [Next]_vars PROVE Inv'
    OBVIOUS
  <2>1. TypeOK' /\ MaskInv' /\ TableOk' /\ ContextInv'
    BY TypeNext, MaskNext, TableNext, ContextNext
  <2>2. FrameInv' /\ ReturnInv' /\ CallerInv' /\ FreshInv'
    BY FrameNext, ReturnNext, CallerNext, FreshNext
  <2> QED BY <2>1, <2>2 DEF Inv
<1> QED BY <1>1, <1>2, PTL DEF Spec

\* The types of the tables, registers and locals (TypeOK) hold in every state.
THEOREM TypeCorrect ==
  ASSUME ~SlowReturn, ~EntryWindow
  PROVE  Spec => []TypeOK
BY Invariance, PTL DEF Inv

\* Every registered task holds exactly one place, the core or a slot of the
\* queue, after any interleaving of add_task, become_kinit and schedule.
THEOREM ScheduledOnce ==
  ASSUME ~SlowReturn, ~EntryWindow
  PROVE  Spec => []TasksScheduledOnce
BY Invariance, PTL DEF Inv, TableOk

\* The stack pointer and TTBR0_EL1 belong to the task that current_tasks names.
THEOREM CoreMatchesCurrent ==
  ASSUME ~SlowReturn, ~EntryWindow
  PROVE  Spec => []StackAndTablesMatchCurrent
BY Invariance, PTL DEF Inv, TableOk

\* The timer interrupt never finds Scheduler.lock taken, so that schedule()
\* never spins on it with interrupts masked.
THEOREM LockFreeForHandler ==
  ASSUME ~SlowReturn, ~EntryWindow
  PROVE  Spec => []SchedulerLockFreeForHandler
<1>1. Inv => SchedulerLockFreeForHandler
  BY DEF Inv, MaskInv, SchedulerLockFreeForHandler, LockedPoint, MaskedPoint, WritePoint, InsidePoint,
       SchedulePoint
<1> QED BY <1>1, Invariance, PTL

\* Whatever task schedule() takes from the queue can be switched to: its
\* CpuContext holds its own stack and a place to return to.
THEOREM WaitingResumable ==
  ASSUME ~SlowReturn, ~EntryWindow
  PROVE  Spec => []WaitingTasksResumable
<1>1. Inv => WaitingTasksResumable
  <2> SUFFICES ASSUME Inv, NEW t \in Waiting, ~ (pc = "context_switch" /\ t = prev)
               PROVE  ctx[t].sp = t
                      /\ (\/ ctx[t].lr = "cpu_context_entry"
                          \/ ctx[t].lr = "load_regs" /\ stack[t] # <<>>)
    BY DEF WaitingTasksResumable
  <2>1. t \in tasks /\ t # current /\ t \in Created
    BY DEF Inv, TableOk, TasksScheduledOnce, TableInv
  <2>2. t # sp
    BY <2>1 DEF Inv, TableOk, TableInv, StackAndTablesMatchCurrent
  <2>3. Resumable(t)
    BY <2>1, <2>2 DEF Inv, ContextInv
  <2>4. HasFrame(t) => stack[t] # <<>>
    BY OneFrame DEF HasFrame
  <2> QED BY <2>3, <2>4 DEF Resumable
<1> QED BY <1>1, Invariance, PTL

\* current_task() looks up the task that called it, although the task can be
\* preempted between its two critical sections.
THEOREM CallerFound ==
  ASSUME ~SlowReturn, ~EntryWindow
  PROVE  Spec => []CurrentTaskIsCaller
<1>1. Inv => CurrentTaskIsCaller
  BY DEF Inv, CallerInv, CurrentPoint, TableOk, TableInv, CurrentTaskIsCaller
<1> QED BY <1>1, Invariance, PTL

\* The eret of a vector resumes what its own exception interrupted.
THEOREM ResumesInterrupted ==
  ASSUME ~SlowReturn, ~EntryWindow
  PROVE  Spec => []ResumesInterruptedCode
<1>1. Inv => ResumesInterruptedCode
  <2> SUFFICES ASSUME Inv, pc = "eret"
               PROVE  stack[sp] # <<>> /\ [elr |-> elr, spsr |-> spsr] = Top(stack[sp])
    BY DEF ResumesInterruptedCode
  <2>1. PICK f \in Frame : stack[sp] = <<f>> /\ Top(stack[sp]) = f
                           /\ f = [elr |-> elr, spsr |-> spsr]
    BY Handled DEF Trapped, VectorPoint
  <2> QED BY <2>1, OneFrame
<1> QED BY <1>1, Invariance, PTL

\* User code executes at EL0, where the timer can preempt it.
THEOREM UserAtEl0 ==
  ASSUME ~SlowReturn, ~EntryWindow
  PROVE  Spec => []UserRunsAtEl0
<1>1. Inv => UserRunsAtEl0
  BY DEF Inv, MaskInv, OpenPoint, BodyPoint, UserRunsAtEl0
<1> QED BY <1>1, Invariance, PTL

\* Exceptions do not nest: a kernel stack holds at most one trap frame.
THEOREM FramesDoNotNest ==
  ASSUME ~SlowReturn, ~EntryWindow
  PROVE  Spec => []OneFramePerStack
<1>1. Inv => OneFramePerStack
  <2> SUFFICES ASSUME Inv, NEW t \in TaskId PROVE Len(stack[t]) <= 1
    BY DEF OneFramePerStack
  <2>1. HasFrame(t) \/ stack[t] = <<>>
    <3>1. CASE t = sp
      BY <3>1 DEF Inv, FrameInv
    <3>2. CASE t # sp /\ t \in Created
      BY <3>2 DEF Inv, ContextInv, Resumable
    <3>3. CASE t \notin Created
      BY <3>3 DEF Inv, FrameInv
    <3> QED BY <3>1, <3>2, <3>3
  <2>2. HasFrame(t) => Len(stack[t]) = 1
    BY OneFrame DEF HasFrame
  <2>3. stack[t] = <<>> => Len(stack[t]) = 0
    OBVIOUS
  <2>4. PICK n \in 0 .. 1 : n = Len(stack[t])
    BY <2>1, <2>2, <2>3
  <2>5. n <= 1
    OBVIOUS
  <2> QED BY <2>4, <2>5, Zenon
<1> QED BY <1>1, Invariance, PTL

-------------------------------------------------------------------------------
(***************************************************************************)
(* Refinement: current task and queue, read as one sequence, are the ring  *)
(* of RoundRobin.                                                          *)
(***************************************************************************)
\* Sequences with a first element.
LEMMA Consed ==
  ASSUME NEW T, NEW q \in Seq(T), NEW c \in T
  PROVE  LET r == <<c>> \o q IN
         /\ r \in Seq(T) /\ r # <<>> /\ Head(r) = c /\ Tail(r) = q
         /\ \A n \in T : Append(r, n) = <<c>> \o Append(q, n)
<1> DEFINE r == <<c>> \o q
<1>1. r \in Seq(T) /\ Len(r) = Len(q) + 1 /\ Len(q) \in Nat /\ <<c>> \in Seq(T) /\ Len(<<c>>) = 1
  OBVIOUS
<1>2. r[1] = c /\ \A i \in 1 .. Len(q) : r[i + 1] = q[i]
  BY <1>1
<1>3. r # <<>> /\ Head(r) = c
  BY <1>1, <1>2
<1>4. Tail(r) = q
  BY <1>1, <1>2, <1>3
<1>5. ASSUME NEW n \in T PROVE Append(r, n) = <<c>> \o Append(q, n)
  BY <1>1
<1>6. /\ r \in Seq(T) /\ r # <<>> /\ Head(r) = c /\ Tail(r) = q
      /\ \A n \in T : Append(r, n) = <<c>> \o Append(q, n)
  <2> HIDE DEF r
  <2> QED BY <1>1, <1>3, <1>4, <1>5
<1> QED BY <1>6

\* The steps that leave current_tasks and the queue alone leave the ring alone.
LEMMA RingStutters ==
  ASSUME Inv, [Next]_vars, ~BecomeKinit, ~Schedule, ~AddTask
  PROVE  UNCHANGED <<current, queue>>
<1> USE DEF vars, schedVars, coreVars, taskVars
<1>s. CASE \E l \in SpinLock : TakeSpinLock(l) \/ DropSpinLock(l)
  BY <1>s DEF TakeSpinLock, DropSpinLock
<1>1. CASE UNCHANGED vars \/ TimerExpires \/ TakeIrq
  BY <1>1 DEF TimerExpires, TakeIrq, TakeException
<1>2. CASE Critical
  BY <1>2 DEF Critical, DisableInterrupts, CurrentTaskId, GetTask, Unlock, RestoreInterrupts
<1>3. CASE Switch
  BY <1>3 DEF Switch, ContextSwitch, AfterSchedule, SetDuration, EnableInterrupts
<1>4. CASE Vector \/ Entry
  BY <1>4 DEF Vector, HandleIrq, SysWrite, WriteCurrentTask, CallCurrentTask, SysCallFails, LoadRegs, Eret, WriteAlloc,
       WritePrint,
       Entry, EnterEl0Spsr, EnterEl0Elr, EnterEl0Eret, CpuContextEntry
<1>5. CASE Chosen
  BY <1>5, <1>s DEF Chosen, CreateKthread, CurrentTask, Execute, CallCurrentTask, FuncReturns, Svc,
       TakeException
<1> QED BY <1>s, <1>1, <1>2, <1>3, <1>4, <1>5 DEF Next, Forced, SpinMasked

\* The scheduler implements its promise: a task that is added joins the ring
\* behind everybody else, and every switch goes to the one that waited longest.
THEOREM Refinement ==
  ASSUME ~SlowReturn, ~EntryWindow
  PROVE  Spec => ImplementsRoundRobin
<1>1. Init => RR!Init
  BY DEF Init, RR!Init, Ring
<1>2. Inv /\ [Next]_vars => [RR!Next]_Ring
  <2> SUFFICES ASSUME Inv, [Next]_vars PROVE [RR!Next]_Ring
    OBVIOUS
  <2>0. queue \in Seq(TaskId) /\ (pc # "kernel_init" => current \in TaskId)
    BY OnCore DEF Inv, TypeOK
  <2>1. CASE BecomeKinit
    <3>1. current = None /\ current' = 1 /\ queue' = <<>> /\ 1 \in TaskId
      BY <2>1, SchedulerAssumption DEF BecomeKinit, Inv, TableOk, TableInv, Kinit, TaskId
    <3>2. Ring = <<>> /\ Ring' = <<1>>
      BY <3>1 DEF Ring, None
    <3> QED BY <3>1, <3>2 DEF RR!Next, RR!Become
  <2>2. CASE Schedule
    <3> DEFINE a == Append(queue, current)
    <3>1. current \in TaskId /\ current # None /\ current' = Head(a) /\ queue' = Tail(a)
      BY <2>0, <2>2 DEF Schedule
    <3>2. a \in Seq(TaskId) /\ Len(a) = Len(queue) + 1 /\ Head(a) \in TaskId /\ Tail(a) \in Seq(TaskId)
          /\ Head(a) = a[1] /\ Len(Tail(a)) = Len(queue) /\ Len(queue) \in Nat
          /\ \A i \in 1 .. Len(queue) : Tail(a)[i] = a[i + 1]
      BY <2>0, <3>1, Rotated
    <3>3. Ring = <<current>> \o queue
      BY <3>1 DEF Ring
    <3>4. Ring # <<>> /\ Append(Tail(Ring), Head(Ring)) = a
      BY <2>0, <3>1, <3>3, Consed
    <3> HIDE DEF a
    <3>5. Ring' = <<Head(a)>> \o Tail(a)
      BY <3>1, <3>2 DEF Ring, None, TaskId
    <3>6. <<Head(a)>> \o Tail(a) = a
      BY <3>2
    <3> QED BY <3>4, <3>5, <3>6 DEF RR!Next, RR!Rotate
  <2>3. CASE AddTask
    <3> DEFINE n == id[sp]
    <3>1. n \in TaskId /\ n \notin tasks
      BY <2>3, Added DEF AddTask, Acquire
    <3>2. current' = current /\ current \in TaskId /\ current # None /\ queue' = Append(queue, n)
      BY <2>0, <2>3 DEF AddTask, Acquire, None, TaskId
    <3> HIDE DEF n
    <3>3. Ring = <<current>> \o queue /\ Ring' = <<current>> \o Append(queue, n)
      BY <3>2 DEF Ring
    <3>4. Ring # <<>> /\ Ring' = Append(Ring, n)
      BY <2>0, <3>1, <3>2, <3>3, Consed
    <3>5. n \notin RR!Members
      <4>1. RR!Members \subseteq Waiting \cup {current}
        <5> SUFFICES ASSUME NEW i \in 1 .. Len(Ring) PROVE Ring[i] \in Waiting \cup {current}
          BY DEF RR!Members
        <5>1. Len(Ring) = Len(queue) + 1 /\ Len(queue) \in Nat /\ Ring[1] = current
              /\ \A j \in 1 .. Len(queue) : Ring[j + 1] = queue[j]
          BY <2>0, <3>2, <3>3
        <5>2. i = 1 \/ (i - 1 \in 1 .. Len(queue) /\ i = (i - 1) + 1)
          BY <5>1
        <5> QED BY <5>1, <5>2 DEF Waiting
      <4>2. Waiting \cup {current} \subseteq tasks
        BY <3>2 DEF Inv, TableOk, TasksScheduledOnce, Running
      <4> QED BY <3>1, <4>1, <4>2
    <3> QED BY <3>1, <3>4, <3>5 DEF RR!Next, RR!Add
  <2>4. CASE ~BecomeKinit /\ ~Schedule /\ ~AddTask
    BY <2>4, RingStutters DEF Ring
  <2> QED BY <2>1, <2>2, <2>3, <2>4
<1> QED BY <1>1, <1>2, Invariance, PTL DEF Spec, ImplementsRoundRobin, RR!Spec
-------------------------------------------------------------------------------
(***************************************************************************)
(* Masked code does not spin if no thread loses the core inside one of   *)
(* the spin locks.                                                         *)
(***************************************************************************)
\* Such a lock is held by the thread on the core or by nobody.
HeldInv ==
  /\ pc # "holding" => \A l \in SpinLock : FindsFree(l)
  /\ \A l, m \in SpinLock : ~FindsFree(l) /\ ~FindsFree(m) => l = m

\* The steps that neither take nor drop such a lock leave them alone, and do not
\* enter the code that holds one.
LEMMA HeldStutters ==
  ASSUME ~HolderLosesCore, Inv, [Next]_vars,
         ~\E l \in SpinLock : TakeSpinLock(l) \/ DropSpinLock(l)
  PROVE  held' = held /\ (pc = "holding" <=> pc' = "holding")
<1> USE DEF Goto, vars, schedVars, coreVars, taskVars
<1>1. CASE UNCHANGED vars \/ TimerExpires \/ TakeIrq \/ Svc
  BY <1>1 DEF TimerExpires, TakeIrq, Svc, TakeException
<1>2. CASE Critical
  <2>1. CASE RestoreInterrupts("task.restore", ret[sp])
    <3>1. ret[sp] \in {"thread", "enter_el0", "write.alloc"}
      BY <2>1 DEF RestoreInterrupts, Inv, MaskInv, CurrentPoint
    <3> QED BY <2>1, <3>1 DEF RestoreInterrupts
  <2> QED BY <1>2, <2>1 DEF Critical, DisableInterrupts, AddTask, CurrentTaskId, GetTask, Acquire,
            Unlock, RestoreInterrupts
<1>3. CASE Switch
  <2>1. CASE EnableInterrupts
    <3>1. lr \in {"load_regs", "cpu_context_entry", "thread"}
      BY <2>1 DEF EnableInterrupts, Inv, FrameInv, SchedulePoint
    <3> QED BY <2>1, <3>1 DEF EnableInterrupts
  <2> QED BY <1>3, <2>1 DEF Switch, BecomeKinit, Schedule, ContextSwitch, AfterSchedule, SetDuration
<1>4. CASE Vector
  <2>1. CASE Eret
    <3>1. elr # "holding"
      BY <2>1, Returns DEF Eret
    <3> QED BY <2>1, <3>1 DEF Eret, ReturnFromException
  <2> QED BY <1>4, <2>1 DEF Vector, HandleIrq, SysWrite, WriteCurrentTask, CallCurrentTask, SysCallFails, LoadRegs,
            WriteAlloc, WritePrint
<1>5. CASE Entry
  <2>1. CASE EnterEl0Eret
    <3>1. elr = "user"
      BY <2>1 DEF EnterEl0Eret, Inv, ReturnInv
    <3> QED BY <2>1, <3>1 DEF EnterEl0Eret, ReturnFromException
  <2> QED BY <1>5, <2>1 DEF Entry, EnterEl0Spsr, EnterEl0Elr, CpuContextEntry
<1>6. CASE CreateKthread \/ CurrentTask \/ Execute \/ FuncReturns
  BY <1>6 DEF CreateKthread, CurrentTask, Execute, CallCurrentTask, FuncReturns
<1> QED BY <1>1, <1>2, <1>3, <1>4, <1>5, <1>6 DEF Next, Forced, Chosen, SpinMasked

\* The hypothesis of the liveness run is enough for masked code: if the timer
\* hits no thread that holds a SpinLock, then add_task and SysWrite::call never
\* find one of them taken.
THEOREM MaskedCallsFindLocksFree ==
  ASSUME ~SlowReturn, ~EntryWindow, ~HolderLosesCore
  PROVE  Spec => [](pc \in {"add_task.lock", "write", "write.alloc", "write.print"} =>
                      \A l \in SpinLock : FindsFree(l))
<1>1. Init => HeldInv
  BY DEF Init, HeldInv, FindsFree
<1>2. Inv /\ HeldInv /\ [Next]_vars => HeldInv'
  <2> SUFFICES ASSUME Inv, HeldInv, [Next]_vars PROVE HeldInv'
    OBVIOUS
  <2>0. held \in [SpinLock -> TaskId \cup {None}]
    BY DEF Inv, TypeOK
  <2>1. CASE \E l \in SpinLock : TakeSpinLock(l)
    BY <2>0, <2>1 DEF TakeSpinLock, HeldInv, FindsFree, Goto
  <2>2. CASE \E l \in SpinLock : DropSpinLock(l)
    <3>1. PICK l \in SpinLock : DropSpinLock(l)
      BY <2>2
    <3>2. sp \in TaskId /\ sp # None
      BY OnCore DEF TaskId, None
    <3> QED BY <2>0, <3>1, <3>2 DEF DropSpinLock, HeldInv, FindsFree, Goto
  <2>3. CASE ~\E l \in SpinLock : TakeSpinLock(l) \/ DropSpinLock(l)
    BY <2>3, HeldStutters DEF HeldInv, FindsFree
  <2> QED BY <2>1, <2>2, <2>3
<1>3. HeldInv => (pc \in {"add_task.lock", "write", "write.alloc", "write.print"} =>
                    \A l \in SpinLock : FindsFree(l))
  BY DEF HeldInv
<1> QED BY <1>1, <1>2, <1>3, Invariance, PTL DEF Spec
===============================================================================
