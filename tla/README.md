# Pimento: TLA+ models, model checking and proofs

Pimento (`src/`) is a small preemptive kernel in Rust and AArch64 assembly for
the Raspberry Pi 3.  It boots one core, turns the booting code into a first task
(`kinit`), creates kernel threads, mounts a tmpfs and a devfs, loads an ELF
program into an address space and enters it at EL0.  A timer interrupt preempts
whatever runs with interrupts enabled.

This directory holds TLA+ modules for the parts of the kernel in which ordering
matters, TLC configurations that check them on small instances, and TLAPS proofs
for every size of the constants.  Paths below are relative to
`src/kernel/src/` unless they say otherwise.

## 1. Inventory

| Component | State | Operations | What is hard | What makes it correct |
|---|---|---|---|---|
| Scheduler (`task/scheduler.rs`, `task/task.rs`) | `tasks`, `queue`, `current_tasks`, `lock`, the task ID counter | `become_kinit`, `add_task`, `task`, `current_task_id`, `current_task`, `schedule`, `after_schedule` | one task's `schedule` takes the lock, another task's `after_schedule` releases it; `current_task` is two critical sections | every task has one place; no interrupt finds the lock taken; `current_task` finds its caller; round robin |
| CPU context, interrupt mask (`cpu/aarch64`) | `CpuContext` of each task; PSTATE.I | `cpu_context_switch`, `cpu_context_entry`, `critical` | the stack changes in the middle of a function | stack and address space are the current task's; the mask is restored |
| Exception vectors (`abi/aarch64/vector_table.*`) | trap frames; ELR_EL1, SPSR_EL1 | `save_regs`, `load_regs`, `eret`, `vector_irq`, `vector_el0_sync` | interrupts are enabled again before `eret` | interrupted code resumes where it was interrupted |
| Task creation and execution (`task/aarch64`, `kernel.rs`) | stack page, context, memory context | `create_kthread`, `execute`, `enter_el0` | two `msr` and an `eret` that belong together | programs run at EL0 |
| Timer (`device/driver/armv8_timer.rs`) | armed or expired | `set_duration` | a level-triggered line | every task runs again |
| Interrupt router and controller (`abi/interrupt_router.rs`, `device/driver/bcm2837_interrupt.rs`) | handler table, enabled interrupts | `enable`, `handle` | handlers run without the router's mutex | the handler never spins |
| System calls (`abi/system_call_router.rs`, `abi/system_calls`) | table of calls | `handle`, `SysWrite::call` | run masked from `svc` to `eret` | a call returns to its program; it does not spin on a preempted holder |
| Lock, Mutex (`sync/lock.rs`, `sync/mutex.rs`) | one flag | `lock`, `unlock`, `call` | spin locks on one core | exclusion, release |
| Once, OnceLock (`sync/once.rs`, `sync/once_lock.rs`) | `completed`, `data`, a lock | `get`, `set`, `get_or_init` | `data` is read outside the lock | never read uninitialised, written once, linearisable |
| Page allocator (`memory/page.rs`) | cursor, reserved ranges | `alloc`, `dealloc` | half-open ranges, end of memory | pages are disjoint, safe, none is passed over |
| Heap (`memory/heap.rs`) | cursor | `alloc`, `dealloc` | alignment, end of heap, blocks cleared when dropped | a block is its owner's alone |
| Memory contexts, page tables (`memory/aarch64`) | four levels of tables, ASID counter, page list; TTBR0_EL1 | `create_tables`, `new`, `alloc_page`, `alloc_page_unmapped`, `copy_to_user`, `memory_context_switch` | the hardware reads the tables at any time; failure half way; cached translations; ASID wrap | every page has one use; a mapping stays what it was made; a cached translation is the context's own |
| VFS, FileManager (`fs/virtual_file_system.rs`, `fs/file_manager.rs`) | `mounts` | `mount`, `mkdir`, `mknod`, `open`, `opendir`, `readdir`, path walking | look-up and update in separate critical sections | resolution ends, trees well formed, names stable |
| Tmpfs (`fs/tmpfs.rs`), Devfs (`device/devfs.rs`) | directory tables, files, counter | the file-system operations; `register_character_device` | several steps under two locks | no dangling link |
| ELF loader (`task/elf.rs`) | program headers, segment and page index | `Elf64Reader::new`, `LoadablePages::next` | page ranges that are shifted and clipped; preemption between read, map and copy | a program starts with exactly the memory its file describes |
| Serial, log (`device/driver/bcm2837_serial.rs`, `log.rs`) | a device behind a lock | `print!`, `println!` | used by tasks and by system calls | the lock is always released |
| Boot (`boot/aarch64`) | - | `start.s`, `kernel_init` | runs once, masked | sets up the initial states of the modules here |
| Panic handler (`panic.rs`), CLI (`src/cli`) | - | - | - | - |

How the components interact: the timer interrupt enters through the vectors,
`InterruptRouter::handle` acknowledges it and calls `Scheduler::schedule`, which
switches stacks and address spaces and leaves through the *next* task's vector
exit.  Tasks call the scheduler under `critical` (mask, lock, unlock, restore).
Every singleton (scheduler, serial device, clock, vector table) lives in a
`OnceLock`, so every use of one takes that cell's spin lock first.  Heap and page
allocator are behind locks that code takes with interrupts enabled.

## 2. Modules

| Module | Models | Notes |
|---|---|---|
| `Scheduler` | scheduler, context switch, vectors, mask, timer, task entry | one core; a program counter names the point the core has reached |
| `RoundRobin` | the promise "A round-robin task scheduler" (`task/scheduler.rs:16`) | abstract specification of `Scheduler` |
| `OnceLock` | `Lock` inside `Once` inside `OnceLock` | any number of threads |
| `WriteOnce` | an atomic write-once cell | abstract specification of `OnceLock` |
| `PageAllocator` | `PageAllocator::alloc`, `PageAllocation::drop` | any page size, capacity, reserved ranges |
| `KernelLocks` | all locks of the running kernel in the order the code takes them | composes tasks, handler and system call over all locks |
| `VirtualFileSystem` | FileManager, VFS, Tmpfs and Devfs directories | several tasks |
| `PageTable` | translation tables, rows, descriptors, `create_tables`, the hardware's walk | operators only |
| `MemoryContext` | address spaces: `new`, `alloc_page`, ASIDs, with the TLB and user stores as environment | several threads and contexts |
| `AddressMap` | address spaces as partial maps that only grow | abstract specification of `MemoryContext` |
| `Heap` | the heap's `alloc` and `dealloc` | operators only |
| `ProgramLoad` | `execute`: open file, ELF reader, page iterator, user memory; composes `Heap`, Tmpfs files and the contract of `MemoryContext` | several tasks |
| `MC*` | instances for TLC | |
| `Iteration` | least elements, induction, loops that repeat a step | lemmas that several proofs share |
| `SchedulerProofs`, `OnceLockProofs`, `PageAllocatorProofs`, `KernelLocksProofs`, `VirtualFileSystemProofs`, `MemoryContextProofs`, `ProgramLoadProofs` | theorems | one per proved component, section 5 |

`PROJECT.json` maps every definition to the lines it models.

### Scheduler

`pc` is the point the core has reached: `"x"` is the start of function `x` and
`"x.y"` a later point of it.  Each store that an interrupt could observe
half-done is an action; code that runs masked is merged into one action where
nothing but the timer can be interleaved with it.  A task is its kernel stack
(`stack[t]`: trap frames; `daif[t]`, `id[t]`, `ret[t]`: locals of the call in
progress) and its saved context (`ctx[t]`: the link register and the stack
pointer of `CpuContext`; the other callee-saved registers carry no property).
`sp` and `ttbr0` name the task whose stack and tables the core uses.

- `Schedule`, `ContextSwitch`, `AfterSchedule`, `SetDuration`,
  `EnableInterrupts` are the path of `schedule()`: lock, rotate, switch tables and
  registers, unlock, re-arm the timer, unmask, return to the link register, which
  is that of the *next* task: `load_regs` for a preempted one,
  `cpu_context_entry` for a new one.
- `TakeIrq` and `Svc` are exception entries (`TakeException` fills ELR/SPSR, masks
  and pushes the frame), `HandleIrq`, `SysCallFails`, `SysWrite` the handlers,
  `LoadRegs` and `Eret` the exit.
- `SysWrite`, `WriteCurrentTask`, `WriteAlloc` and `WritePrint` are the write call,
  masked from its `svc` to its `eret`.  It needs the spin locks of the heap, of
  `DEVICE` and of `SCHEDULER` (the `OnceLock`), which tasks take with interrupts
  enabled (`TakeSpinLock`, `DropSpinLock`; `held` is their holder) and so can be
  preempted with.  `SpinMasked` is the turn of a call that finds one taken: nothing
  changes, and since it is masked, nothing else ever happens.
- `DisableInterrupts`, `AddTask`/`CurrentTaskId`/`GetTask`, `Unlock`,
  `RestoreInterrupts` are `critical(|| lock.call(...))`.
- `EnterEl0Spsr`, `EnterEl0Elr`, `EnterEl0Eret` are the instructions of
  `enter_el0`, which runs unmasked.

Three constants say which timings are allowed.  `HolderLosesCore`: may a task be
preempted while it holds one of those spin locks?  In the code it may.  `SlowReturn`: may a whole
quantum (10 ms) pass between `set_duration` and the `eret` that leaves the
handler?  `EntryWindow`: may the interrupt arrive in `enter_el0` between the
first `msr` and the `eret`?  The safety properties hold when neither of these two
happens, whatever `HolderLosesCore` is; two violation runs show what happens when
one does.  The two liveness properties need `HolderLosesCore = FALSE`: otherwise a
masked write spins for ever on a preempted holder and every task starves, which is
finding 3, shown lock by lock in `kernel_locks_cli`.  What the liveness run adds is
that with this hypothesis nothing else loses the core: switching, re-arming and
returning do not.  (`Schedule` has no wait for the heap: the queue of three tasks
never grows after the first push; `KernelLocks` has it.)

### OnceLock

Each access to `lock`, `completed` and `data` is a step, so a thread can be
preempted between any two, in particular between `is_completed` and the read of
`data`.  Memory is sequentially consistent: the code runs on one core.
`ImplementsWriteOnce` maps the concrete state to `WriteOnce`: a winning call takes
effect when it sets `completed`, a losing one and a `get` when they read it.

### PageAllocator

`Lock`, `Skip`, `Found`, `Fail` and `Return` are the steps of `alloc`; the loop
advances the cursor before it checks, as the code does, also when it fails.
`Dealloc` gives nothing back (`dealloc` zeroes the page and is otherwise a TODO).
`granted` is a history variable: the pages ever returned.

### KernelLocks

A piece of kernel code is the sequence of its lock operations and mask changes:
`kernel_init` after `become_kinit`, the kernel threads (current task, print), the
write system call, and the interrupt handler.  `owner` says who holds each lock.
The constant `CliWrites` says whether the user program calls `write`.  The CLI in
`src/cli/src/main.s` does, in a loop, and meets finding 3 below; with the call left
out the passing run shows that the kernel's own tasks and the handler are sound.
Tasks are named by strings other than the two that `owner` uses for the handler
and for nobody.

`schedule()` pushes the preempted task to the back of a `VecDeque`, which grows when
it is full: in the interrupt handler, masked, with the heap's lock.  `capacity` is
the number of its slots, `MinCapacity` the number it begins with (four, the least
that `alloc` gives to elements of this size); `Free` makes a switch wait for the heap
when the queue is full.  kinit and the two threads that the kernel creates never
fill it.  Nor do three threads; with four, `MaskedNeverSpins` is violated, because
the handler grows the queue while kinit, which it interrupted, may hold the heap.
The theorems about the handler therefore have `Len(Kthreads) < MinCapacity` as a
hypothesis.

### VirtualFileSystem

A call of the FileManager is `Begin`, then steps that each hold one lock
(`Opendir`, `Scan`, `Resolve`), then the operation (`Mount`, `Mkdir`, `Mknod`,
`Open`, `Readdir`/`Reopen`), so two tasks' calls interleave between look-up and
update.  Paths are sequences of tokens.  `Mounters` are the tasks that mount;
in this kernel it is `kernel_init` alone, and `MountEndsAgree` depends on that:
`mount` resolves the mount point and takes the lock again, so two racing mounts
could end on one node.

### PageTable and MemoryContext

Physical memory `mem` is a function from page addresses to what the bytes of the
page mean as table rows, whoever wrote them: the kernel, a user program, or the
machine before boot (`Scribble`, which looks like a table full of references to the
kernel's own root).  A kernel pointer is `VirtualAddress` of a physical address, as
`MEMORY_MAPPER` computes it.  `CreateTables` is the map that `create_tables` builds.

A call of `alloc_page` is `AllocPage` (take the lock, start at the root), then per
level one of `LoadTable`/`LoadPage`, or `Allocate` followed by
`WriteTable`/`WritePage`, or `Fail`; other threads, the hardware and user programs
act between any two of these.  `kind` is a history variable that names the use each
page was allocated for.  The page allocator is used by its contract (run
`page_allocator`: each page is granted once), with the clearing that `alloc` does.

The environment is adversarial: TTBR0_EL1 may hold the boot tables or any context
that exists; `TlbFill` caches any translation the walk finds, replacing any other;
`UserStore` overwrites any page that a usable entry marks unprivileged.
`ImplementsAddressMap` maps the concrete state by the hardware's own walk, so it
says what programs observe.  `TlbMatchesTables` is stated for fewer than
`ASID_COUNT` contexts: the counter has 16 bits in the code, contexts are never
freed, and with 65536 of them one would get the ASID 0 of the boot tables.

### ProgramLoad

`execute` step by step: `Open`, `ReadHeader`, `ReadProgramHeader`, `HeadersDone`,
then for each page `NextPage` (seek and read), `Pad` (`resize_with`), `AllocChunk`,
`CopyToUser`, with `NextSegment` between segments, and `AllocStack` at the end.
`ContextSwitch` may happen between any two; it sets `ttbr0`, through which
`CopyToUser` writes, since `copy_to_user` ignores its own context.  In the kernel
that boots, only `kinit` calls `execute`; the model lets every task call it, as the
service allows.

A byte of the file is its own offset plus one, so that a misplaced byte is
recognised.  Headers are records; decoding them is a `transmute`.  The bytes of a
page to load are in the heap, in a block that is cleared when it is dropped, so
that a block shared by two tasks would show as a wrong byte in a program's memory.
`alloc_page` is used by its contract `AddressMap`: it finds a page, maps a cleared
one, or fails, and always fails for an address beyond the `UserSize` bytes that the
tables can map.  `Halted` is a panic, after which nothing runs.  A read that begins
beyond the end of a file panics (`fs/tmpfs.rs:157`), even for an empty page:
`WellFormedNeverPanics` shows that this takes a file whose headers point outside.

## 3. Runs

| Run | Instance | Shows |
|---|---|---|
| `scheduler` | 3 tasks, preempted also with spin locks held | nine safety invariants and the refinement of `RoundRobin` |
| `scheduler_live` | 2 tasks, fair, not preempted with a spin lock held | every task keeps running; system calls return |
| `scheduler_irq_return` | 2 tasks, `SlowReturn` | *violation*: an interrupt between `load_regs` and `eret` destroys ELR and SPSR |
| `scheduler_el0_entry` | 2 tasks, `EntryWindow` | *violation*: an interrupt in `enter_el0` starts the program with the kernel's PSTATE |
| `once_lock` | 2 threads, 2 values, fair | no uninitialised read, linearisability (which includes that the cell is written once), lock released |
| `page_allocator` | 2 threads, pages of 3 bytes, 10 bytes, every layout of one or two reserved ranges, 4 allocations, fair | grants are aligned, safe, disjoint, nothing wasted; cursor monotonic; a call that has the mutex returns |
| `kernel_locks` | kinit and two kernel threads, a queue of four slots, fair | the handler and masked code never spin; no task is scheduled twice; lock traffic never stops |
| `kernel_locks_cli` | the same with a program that calls `write` | *violation*: a masked system call spins on a preempted holder |
| `vfs` | 2 tasks, 4 calls, a Tmpfs and a Devfs, 4 paths | mount resolution, tree shape, stable names |
| `vfs_parent` | 1 task, 3 calls | *violation*: `..` of a mounted root is the root itself |
| `memory_context` | 2 threads, 2 contexts, 3 calls, tables of 3 rows, 7 free pages, 1 TLB entry, 3 ASIDs | one use per page, the refinement of `AddressMap`, results stay mapped, the TLB agrees with the tables, the kernel's map stays linear |
| `program_load` | 2 tasks, 39 files, pages of 3 bytes, a heap of 24 bytes, fair | the loaded image is the file's, well-formed files never panic, `execute` ends |

Why the bounds are enough.  *Scheduler*: three tasks are what `kernel_init`
creates, and the least for which the order of the queue is observable; the proofs
cover every number.  Liveness uses two, since a third task only lengthens the
rotation.  *OnceLock*: two threads already give every race of a winner and a loser
(and a reader); the proofs cover any number.  *PageAllocator*: pages of three
bytes distinguish first, inner and last byte; ten bytes leave an incomplete last
page; every layout of at most two ranges (as `kernel_init` passes) is tried; four
allocations run past the end of memory.  *VFS*: four calls are enough for a
directory, a mount on it, an entry below it and a racing call.  *MemoryContext*:
two addresses share tables down to level 2 and part there, a third is out of
range; seven pages let one context map an address and run out at every level of
the next call; one TLB entry suffices, since the property is about single entries.
*ProgramLoad*: pages of three bytes with segments at every alignment, shorter and
longer in the file than in memory, over up to three pages; pairs that share a page,
overlap in both orders, or are not loadable; files that are foreign, truncated, or
point beyond their end, or lie beyond the user's addresses.  The heap
holds two loads of most files and runs out in
others.  Every bound is a named constant (`MaxTasks`, `MaxAllocs`, `MaxCalls`,
`TlbSize`, `Capacity`, `N`).

Fairness.  The core never stops executing (weak fairness of what the program
counter forces).  The timer expires once armed.  A pending interrupt is taken at
one of the unmasked points a task passes again and again (strong fairness of
`TakeIrq`), since the line is a level.  A task that gets the core for quantum after
quantum (10 ms) executes an instruction of its own (strong fairness per task).
What a task *chooses* to do (create, call, return) has no fairness, but a task that
holds a spin lock of `Scheduler` executes on, like any forced step, until it drops
it.  For the
allocator and the cell a preempted thread is scheduled again, which is what
`EveryTaskRuns` shows of the scheduler; in `ProgramLoad` that is weak fairness of
every switch and strong fairness of each task's steps, with no fairness about
whether an allocation succeeds.

Deadlock is checked in every run but `program_load`, where a panic halts the core;
`Done` is the stuttering step of the modules whose number of calls is bounded.

## 4. Findings

1. `task/scheduler.rs:151`: `after_schedule` enables interrupts before the vector
   has executed `load_regs` and `eret`.
2. `task/aarch64/task_execution.s:6`: `enter_el0` writes SPSR and ELR with
   interrupts enabled.
3. `abi/system_calls/write.rs:55`: a system call runs masked and takes spin locks
   that a preempted kernel thread may hold.
4. `fs/virtual_file_system.rs:227`: `..` in the root of a mounted file system is
   resolved back into the mounted file system.

Also seen, without a run: `fs/tmpfs.rs:75` pushes the new directory's link a second
time (lines 62-65 did already), so that `readdir` lists it twice; `Mkdir` models it.
The comments of `load_table`, `load_block` and `load_page`
(`memory/aarch64/page_table.rs:224`) say "This function will panic", the code
returns `Err`.

## 5. Proofs

All theorems are proved by TLAPS (SMT and Zenon for the steps, PTL for the
temporal conclusion) from the named assumptions on the constants and the hypotheses
that are named below; nothing is left unproved.

**SchedulerProofs**, for every `MaxTasks`, assuming `~SlowReturn` and
`~EntryWindow`, and whether or not tasks are preempted with spin locks held.  `Inv`
has eight parts, because control passes through saved registers and an `eret` goes
wherever ELR points:

- `MaskInv`: which program points run masked, and that the lock is held at exactly
  the points of `LockedPoint`.  A `current_task` called by a system call stays
  masked throughout, one called by a thread does not.
- `TableOk`: `tasks`, `queue` and `current` agree, and the core uses the stack and
  tables of the current task outside the switch.
- `ContextInv`: a task without the core can be resumed: a new one has an empty
  stack and returns to `cpu_context_entry`, a preempted one has one frame, of an
  interruptible point, and returns to `load_regs`.
- `FrameInv`: the task on the core has a frame exactly while the kernel handles an
  exception for it (`Trapped`).
- `ReturnInv`: ELR and SPSR at an `eret`, and that the timer is still armed on
  the way out; this is where the two assumptions are used.
- `CallerInv`, `FreshInv`: the IDs that `current_task` and `add_task` hold across
  preemption.

One lemma per part (`MaskNext`, `TableNext`, ...) shows that every action
preserves it; `Interrupted` and `Returns` are the facts about entering and
leaving an exception that they share.  From `Invariance` follow the nine safety
properties of run `scheduler`, and `Refinement`: current task followed by queue is
the ring of `RoundRobin`.  `MaskedCallsFindLocksFree` assumes `~HolderLosesCore` in
addition: then nobody but a task that is just executing its critical section holds a
spin lock (`HeldInv`), so that a write, or `add_task`, never spins masked.

**OnceLockProofs**, for all sets of threads and values: `Inv` joins mutual
exclusion with what each point of a thread implies for `completed` and `data`;
from it follow four invariants, `WrittenOnce`, and the refinement of `WriteOnce`,
one step per action.

**PageAllocatorProofs**, for all page sizes, capacities, layouts and threads:
`IntersectsIsOverlap` shows that the four comparisons in `alloc` decide whether two
ranges share a byte; `GrantInv` (granted pages lie apart, below the cursor, and are
usable) and `LiveInv` (each is live for one thread) give safety, `WasteInv` (the
cursor is a multiple of the page size and passed nothing usable) the converse, and
with it that every page handed out is aligned (`AlignInv`).

**KernelLocksProofs**, for any number of kernel threads.  The code is a fixed set of
operation sequences, so the proof is a typing: a piece of code goes from a place
to a place, a place being the locks held, the mask and the number of threads
created (`At`).  `Fits` says what one operation may do; it refuses a lock that is
held already, and a lock of the interrupt handler where interrupts are unmasked.
`ConcatTyped` composes types as `\o` composes code, so the type of `KinitProlog`,
`Body` and `Handler` follows from their parts, one lemma each; the creation of all
threads is by induction over their number.  `Note` is then the place of a task at
each of its operations, and the inductive invariant says that `owner` is exactly
what the places say (`OwnerInv`), that a task which is not running or is
interrupted is at a place with interrupts unmasked (`MaskInv`), that the scheduler
has as many tasks as kinit has created (`RingInv`), and that each of them has one
place in the ring and the queue a slot for it (`QueueInv`).  From this follows the
type invariant for any number of threads.  Assuming `Len(Kthreads) < MinCapacity`,
so that the queue never grows in the handler, it follows that the handler never
waits, also when the program writes (`HandlerAlwaysFindsFree`), and, assuming
`~CliWrites` too, that no masked code waits (`MaskedCodeNeverSpins`); without the
latter assumption it does, which is finding 3, and without the former it may.

**VirtualFileSystemProofs**, for all file systems, names, paths, tasks and numbers
of calls.  `Inv`: a node that exists has a number below its file system's counter
(`NodeInv`), every directory has `.`, `..` and is an entry of its parent
(`TreeInv`), an entry is younger than its directory and in no other, which leaves
room for neither cycles nor shared nodes (`AgeInv`), and a mount point is in the root file system or in one that was mounted *earlier*
in the table, none of which is mounted twice (`MountInv`); with what a preempted
call has found (`CallInv`: nodes are never removed, so it still exists).  The loops
over the mount table are recursive functions; `Iterates` and `LoopUnique` unfold
them.  They end because each turn moves to an earlier mount, or to a later one, and
so at most as often as there are mounts; this holds for any number of mounting
tasks.  `MountEndsAlwaysAgree` has the hypothesis `OneMounter`: `kernel_init` is the
only caller of `mount`.  Two tasks that mount could both resolve the same point
before either takes the lock.

**MemoryContextProofs**, for all threads, contexts, addresses, table and memory
sizes, with the adversarial TLB and user stores.  `Inv`: memory is handed out in
ascending order and the kernel's tables are as `create_tables` left them
(`CursorInv`); an allocated page has one owner (`OwnerInv`); a row of a table is
zero or refers to a page of the next level of the same context, and no two rows to
the same page (`RowInv`); a call under way has its context's lock, stands at a
table of that context, and what it is about to write is unreferenced and its row
still zero (`CallInv`); what is cached was found in tables that still say so
(`TlbInv`).  That user stores do no harm follows from `OwnerInv`: an unprivileged
entry leads to a page that is not a table.  Further invariants on top of it:
`PathInv` (a walk in software stands where the hardware's walk of the same address
comes, from which the results and the refinement of `AddressMap` follow) and
`AsidInv` (identifiers are distinct until the 16-bit counter wraps, from which
`TlbMatchesTables` follows).  The refinement is proved action by action: writing
the descriptor of a page is `MapPage`, everything else is a stutter.

**ProgramLoadProofs**, for all files, page and header sizes, heap sizes and numbers
of tasks.  `Inv` says for every task on its own (`TaskInv`) what its place in the
loop of `execute` means: the headers it has read are the file's; the chunk that
`LoadablePages` returned is a part of its segment inside one page, and ends where
the next one begins (`ChunkInv`, by the arithmetic of `next`); its vector's block
holds the segment's bytes and zeros (`BlockInv`); and its memory has, byte for
byte, everything the chunks before this one describe and nothing else (`UserInv`).
`Apart` says that blocks of two tasks do not overlap.  A step of one task leaves
`TaskInv` of the others (lemma `Bystander`) as long as it writes outside their
blocks, so each action is proved for its own task only.

**Shared lemmas and limits.**  The library's induction theorems take an operator as
a parameter, which the provers cannot instantiate; `SetInduction` states induction
with the predicate as a set, proved from the well-foundedness of finite subsets, and
is what the proofs about loops use.  `PageTable` has its own `Pow` since the prover
has no exponentiation.

**Only model-checked**: liveness (`EveryTaskRuns`, `SystemCallReturns`,
`LockReleased`, `AllocReturns`, `KeepsAcquiring`, `ExecuteEnds`), since fairness is
outside the prover's reach.  Every invariant and every action property that a
passing run checks is a theorem.

## 6. Not modelled

- Other cores: the kernel never starts them (`current_tasks` has a slot per core,
  one is used).  Weak memory ordering is therefore not modelled either.
- The bytes that the system call `write` copies and prints; `copy_from_user`, which
  only reads; the entries of the system call table and of the interrupt router
  beyond the one that exists; `Devfs` reads and writes, which go to the driver.
- Barriers: `write_table` and `write_page` are not followed by a `dsb`, so the
  architecture does not promise that the table walker sees a new row at once.  The
  model's walker does.
- Overflow of sums of addresses and sizes that a file names: the only file that is
  ever installed is the one the build embeds.
- Faults of user programs: the vectors panic on them.
- Panics outside of `ProgramLoad`: an action whose `unwrap` would fail is not
  enabled, and TLC's deadlock check would report it.
- Paths that start at a node (`PathStart::Node`, `fs/file_manager.rs:138`):
  `PathInfo::new`, which builds them, has no caller.  With them `mount` could be given a node of a file system that is not
  mounted, and `MountInv` would not hold.
- In `ProgramLoad`, the `.ok()?` on `seek` and `read` (`task/elf.rs:248`) that ends
  the iteration without an error: neither call fails for a file of `Tmpfs`.
- `rmdir`, `unlink` and `rename`: the file systems end in `todo!()`
  (`VirtualFileSystem::unlink` calls `rmdir` of the file system,
  `fs/virtual_file_system.rs:175`, which no caller reaches).
- Device registers, logging text, the panic handler.

## 7. Plan

Order: what every task depends on comes first.

1. *Done*: `Scheduler` with `RoundRobin`, `OnceLock` with `WriteOnce`,
   `PageAllocator`, `KernelLocks`, `VirtualFileSystem`; proofs of three of them.
2. *Done*: `PageTable`, `MemoryContext` with `AddressMap`, `Heap`, `ProgramLoad`.
3. *Done*: proofs about `MemoryContext`, `VirtualFileSystem`, `ProgramLoad` and
   `KernelLocks`.
4. Proofs of what the modules share: that `Heap.alloc` and `PageAllocator.alloc`
   keep their promise as lemmas of their own, and that `ProgramLoad`'s use of
   `alloc_page` is a behaviour of `AddressMap`.
5. `InterruptRouter` with several interrupts; the data of `SysWrite`.
