------------------------------ MODULE ProgramLoad -----------------------------
(***************************************************************************)
(* From a file to a running program.  kernel_init writes the program to a  *)
(* tmpfs file; tasks execute() it: each opens the file for itself, reads   *)
(* its ELF headers, and for every page-sized chunk of its segments reads   *)
(* the bytes, maps a page and copies them to it, until it maps a stack and *)
(* enters the program.  A timer interrupt may switch tasks between any two *)
(* of these steps.                                                         *)
(*                                                                         *)
(* Memory contexts are used by their contract (ImplementsAddressMap of     *)
(* module MemoryContext): a page that is mapped for the first time is a    *)
(* zeroed page of its own.  Each read fills a vector from the kernel's     *)
(* heap, which is cleared when it is dropped; only the vectors that hold   *)
(* pages are kept as bytes, and what others allocate meanwhile would only  *)
(* bring the heap's end nearer.  A byte of the file stands for its own     *)
(* place: the byte at offset i is the number i + 1, and 0 is a zero byte.  *)
(***************************************************************************)
EXTENDS Heap, FiniteSets

CONSTANTS
  Task,
  PageSize,     \* size_of::<Page>()
  HeaderSize,   \* size_of::<Elf64Header>()
  EntrySize,    \* size_of::<Elf64ProgramHeader>()
  EntryAlign,   \* align_of::<Elf64ProgramHeader>()
  MinCapacity,  \* the smallest vector of bytes that grows
  Programs,     \* the files that may be installed
  STACK_INIT,   \* the end of the user stack
  UserSize      \* the number of user addresses, 2^VA_BITS

\* A program header, and a file with an ELF header: its length, whether
\* is_valid() and is_aarch64() hold, and where its program headers are.
ProgramHeader == [load : BOOLEAN, file_offset : Nat, virtual_address : Nat,
                  file_size : Nat, memory_size : Nat]
Program == [len : Nat, valid : BOOLEAN, program_header_offset : Nat,
            headers : Seq(ProgramHeader)]

ASSUME ProgramLoadAssumption ==
  /\ PageSize \in Nat \ {0} /\ HeaderSize \in Nat /\ EntrySize \in Nat \ {0}
  /\ EntryAlign \in Nat \ {0} /\ MinCapacity \in Nat
  /\ Programs \subseteq Program
  /\ UserSize \in Nat /\ UserSize % PageSize = 0
  /\ STACK_INIT \in PageSize .. UserSize /\ STACK_INIT % PageSize = 0

VARIABLES
  program,    \* the program in /bin/cli
  contents,   \* the bytes of that file, in Tmpfs.files
  pc,         \* where execute() is in each task
  position,   \* the position of each task's File
  reader,     \* Elf64Reader.program_headers of each task
  header,     \* LoadablePages.program_header_index of each task
  page,       \* LoadablePages.page_index of each task
  chunk,      \* the LoadablePage that each task is loading
  heap,       \* the bytes of the heap
  allocated,  \* Allocator.allocated
  user,       \* the pages that each task's memory context maps
  current,    \* the task that runs
  ttbr0       \* the task whose memory context is installed

fileVars == <<program, contents>>
loadVars == <<position, reader, header, page, chunk>>
heapVars == <<heap, allocated>>
coreVars == <<current, ttbr0>>
vars     == <<fileVars, pc, loadVars, heapVars, user, coreVars>>

Min(a, b)   == IF a < b THEN a ELSE b
Max(a, b)   == IF a < b THEN b ELSE a
PageOf(a)   == (a \div PageSize) * PageSize
VirtualPage == {n * PageSize : n \in 0 .. (UserSize \div PageSize) - 1}
Zeroes(n)   == [i \in 1 .. n |-> 0]

\* A page to load: its address and length in memory, and its vector's block.
NoChunk     == [address |-> 0, memory |-> 0, start |-> 0, capacity |-> 0, len |-> 0]

Init ==
  /\ program \in Programs
  /\ contents = <<>>
  /\ pc = [t \in Task |-> "boot"]
  /\ position = [t \in Task |-> 0]
  /\ reader = [t \in Task |-> <<>>]
  /\ header = [t \in Task |-> 0] /\ page = [t \in Task |-> 0]
  /\ chunk = [t \in Task |-> NoChunk]
  /\ heap = Zeroes(N) /\ allocated = 0
  /\ user = [t \in Task |-> [p \in VirtualPage |-> <<>>]]
  /\ current \in Task /\ ttbr0 = current

-------------------------------------------------------------------------------
(***************************************************************************)
(* Tmpfs files.                                                            *)
(***************************************************************************)
\* Vec::resize_with(n, || 0).
Resize(s, n) == [i \in 1 .. n |-> IF i <= Len(s) THEN s[i] ELSE 0]

\* Tmpfs::write at a position: the file grows if it must.
WriteAt(file, at, buf) ==
  LET grown == IF at + Len(buf) > Len(file) THEN Resize(file, at + Len(buf)) ELSE file
  IN  [i \in 1 .. Len(grown) |-> IF i \in at + 1 .. at + Len(buf) THEN buf[i - at] ELSE grown[i]]

\* Tmpfs::read cuts the end of the range to the file, but not its start: a
\* position beyond the end makes a range that slicing panics on.
ReadPanics(at) == at > Len(contents)

ReadAt(at, count) == SubSeq(contents, at + 1, Min(at + count, Len(contents)))

\* kernel_init writes the program before any task exists.
Install ==
  /\ \A t \in Task : pc[t] = "boot"
  /\ contents' = WriteAt(contents, 0, [i \in 1 .. program.len |-> i])
  /\ pc' = [t \in Task |-> "idle"]
  /\ UNCHANGED <<program, loadVars, heapVars, user, coreVars>>

-------------------------------------------------------------------------------
(***************************************************************************)
(* TaskExecutionService::execute, by the task that runs.                   *)
(***************************************************************************)
\* A panic prints, masks every interrupt and halts the core for good.
Halted     == \E t \in Task : pc[t] = "panic"
At(t, p)   == t = current /\ pc[t] = p
Goto(t, p) == pc' = [pc EXCEPT ![t] = p]

\* What is spoken for after a vector of the given size was made: an empty one
\* needs no block.
Vector(reserved, align, size) == IF size = 0 THEN reserved ELSE Reserved(reserved, align, size)

\* Vectors are made; a null pointer from the allocator is a panic.
Allocates(t, reserved, then) ==
  /\ allocated' = reserved
  /\ Goto(t, IF Exhausted(reserved) THEN "panic" ELSE then)

\* open() makes a new File, at position 0.
Open(t) ==
  /\ At(t, "idle")
  /\ position' = [position EXCEPT ![t] = 0]
  /\ Goto(t, "header")
  /\ UNCHANGED <<fileVars, reader, header, page, chunk, heapVars, user, coreVars>>

\* Elf64Reader::new: a short or a foreign header is refused; seek accepts
\* whatever place the header names.
ReadHeader(t) ==
  LET bytes  == ReadAt(position[t], HeaderSize)
      ok     == Len(bytes) = HeaderSize /\ program.valid
      buffer == Vector(allocated, 1, Len(bytes))
  IN  /\ At(t, "header")
      /\ position' = [position EXCEPT ![t] =
                        IF ok THEN program.program_header_offset ELSE @ + Len(bytes)]
      /\ IF ok THEN Allocates(t, Vector(buffer, EntryAlign, EntrySize * Len(program.headers)),
                              "headers")
               ELSE Allocates(t, buffer, "err")
      /\ UNCHANGED <<fileVars, reader, header, page, chunk, heap, user, coreVars>>

\* One turn of the loop over the program headers.
ReadProgramHeader(t) ==
  LET n     == Len(reader[t]) + 1
      bytes == ReadAt(position[t], EntrySize)
      ok    == Len(bytes) = EntrySize
  IN  /\ At(t, "headers") /\ n <= Len(program.headers)
      /\ ~ReadPanics(position[t])
      /\ position' = [position EXCEPT ![t] = @ + Len(bytes)]
      /\ reader' = [reader EXCEPT ![t] = IF ok THEN Append(@, program.headers[n]) ELSE @]
      /\ Allocates(t, Vector(allocated, 1, Len(bytes)), IF ok THEN "headers" ELSE "err")
      /\ UNCHANGED <<fileVars, header, page, chunk, heap, user, coreVars>>

\* All are read: the loop over loadable_pages() begins.
HeadersDone(t) ==
  /\ At(t, "headers") /\ Len(reader[t]) = Len(program.headers)
  /\ header' = [header EXCEPT ![t] = 1]
  /\ page' = [page EXCEPT ![t] = 0]
  /\ Goto(t, "next")
  /\ UNCHANGED <<fileVars, position, reader, chunk, heapVars, user, coreVars>>

\* Where the page with index n begins and ends in its segment; every page but
\* the first begins on a page boundary.
OffsetStart(h, n) == IF n = 0 THEN 0 ELSE n * PageSize - (h.virtual_address % PageSize)

\* Mutant of OffsetEnd: the alignment is overlooked.
OffsetEndUnshifted(h, n) == (n + 1) * PageSize

OffsetEnd(h, n)   == (n + 1) * PageSize - (h.virtual_address % PageSize)

\* Mutant of FileRange: the end of the segment in the file is overlooked.
FileRangeUnbounded(h, n) ==
  [start |-> h.file_offset + OffsetStart(h, n), end |-> h.file_offset + OffsetEnd(h, n)]

\* LoadablePages::range: the page's bytes in the file, and in memory.
FileRange(h, n) ==
  [start |-> h.file_offset + Min(OffsetStart(h, n), h.file_size),
   end   |-> h.file_offset + Min(OffsetEnd(h, n), h.file_size)]
MemoryRange(h, n) ==
  [start |-> h.virtual_address + Min(OffsetStart(h, n), h.memory_size),
   end   |-> h.virtual_address + Min(OffsetEnd(h, n), h.memory_size)]

Header(t)   == reader[t][header[t]]
InHeaders(t) == At(t, "next") /\ header[t] <= Len(reader[t])
HasPage(t)  ==
  /\ Header(t).load
  /\ MemoryRange(Header(t), page[t]).start # MemoryRange(Header(t), page[t]).end

\* Mutant of HeaderIndex: only segments to load are counted.
HeaderIndexOfLoaded(t) == IF Header(t).load THEN header[t] + 1 ELSE header[t]

HeaderIndex(t) == header[t] + 1

\* LoadablePages::next, when range() is None: the next segment.
NextSegment(t) ==
  /\ InHeaders(t) /\ ~HasPage(t)
  /\ header' = [header EXCEPT ![t] = HeaderIndex(t)]
  /\ page' = [page EXCEPT ![t] = 0]
  /\ UNCHANGED <<fileVars, pc, position, reader, chunk, heapVars, user, coreVars>>

\* LoadablePages::next: seek and read.
NextPage(t) ==
  LET file   == FileRange(Header(t), page[t])
      memory == MemoryRange(Header(t), page[t])
      bytes  == ReadAt(file.start, file.end - file.start)
  IN  /\ InHeaders(t) /\ HasPage(t) /\ ~ReadPanics(file.start)
      /\ position' = [position EXCEPT ![t] = file.start + Len(bytes)]
      /\ chunk' = [chunk EXCEPT ![t] =
           [address |-> memory.start, memory |-> memory.end - memory.start,
            start |-> BlockStart(allocated, 1), capacity |-> Len(bytes), len |-> Len(bytes)]]
      /\ heap' = Fill(heap, BlockStart(allocated, 1), bytes)
      /\ Allocates(t, Vector(allocated, 1, Len(bytes)), "pad")
      /\ UNCHANGED <<fileVars, reader, header, page, user, coreVars>>

\* A vector that is too small grows to twice its size at least.
GrownCapacity(capacity, len) == Max(MinCapacity, Max(2 * capacity, len))

Bytes(t) == Block(heap, chunk[t].start, chunk[t].len)
Drop(t)  == Dealloc(heap, chunk[t].start, chunk[t].capacity)

\* The rest of LoadablePages::next: resize_with cuts the vector, or moves it to
\* a larger block and pads it with zeroes.
Pad(t) ==
  LET c        == chunk[t]
      capacity == GrownCapacity(c.capacity, c.memory)
  IN  /\ At(t, "pad")
      /\ page' = [page EXCEPT ![t] = @ + 1]
      /\ \/ /\ c.memory <= c.capacity
            /\ chunk' = [chunk EXCEPT ![t].len = c.memory]
            /\ Goto(t, "alloc")
            /\ UNCHANGED heapVars
         \/ /\ c.memory > c.capacity
            /\ chunk' = [chunk EXCEPT ![t].start = BlockStart(allocated, 1),
                                      ![t].capacity = capacity, ![t].len = c.memory]
            /\ heap' = Fill(Drop(t), BlockStart(allocated, 1), Resize(Bytes(t), c.memory))
            /\ Allocates(t, Reserved(allocated, 1, capacity), "alloc")
      /\ UNCHANGED <<fileVars, position, reader, header, user, coreVars>>

\* A read that starts beyond the end of the file.
ReadPastEnd(t) ==
  /\ \/ At(t, "headers") /\ Len(reader[t]) < Len(program.headers) /\ ReadPanics(position[t])
     \/ InHeaders(t) /\ HasPage(t) /\ ReadPanics(FileRange(Header(t), page[t]).start)
  /\ Goto(t, "panic")
  /\ UNCHANGED <<fileVars, loadVars, heapVars, user, coreVars>>

\* MemoryContext::alloc_page: the page of the address is mapped already, or a
\* zeroed one is ...
AllocPage(t, address, then) ==
  /\ PageOf(address) \in VirtualPage
  /\ \/ user[t][PageOf(address)] # <<>> /\ UNCHANGED user
     \/ /\ user[t][PageOf(address)] = <<>>
        /\ user' = [user EXCEPT ![t][PageOf(address)] = Zeroes(PageSize)]
  /\ Goto(t, then)
  /\ UNCHANGED <<fileVars, loadVars, heapVars, coreVars>>

\* ... or the address is out of range or memory exhausted, and execute returns Err.
AllocPageFails(t, address) ==
  /\ PageOf(address) \in VirtualPage => user[t][PageOf(address)] = <<>>
  /\ Goto(t, "err")
  /\ UNCHANGED <<fileVars, position, reader, header, page, allocated, user, coreVars>>

AllocChunk(t) ==
  /\ At(t, "alloc")
  /\ \/ AllocPage(t, chunk[t].address, "copy")
     \/ /\ AllocPageFails(t, chunk[t].address)
        /\ heap' = Drop(t) /\ chunk' = [chunk EXCEPT ![t] = NoChunk]

\* copy_to_user writes through whatever tables are installed, and takes a
\* fault in the kernel if they do not map an address; the vector is dropped.
CopyToUser(t) ==
  LET first == chunk[t].address
      dst   == first .. first + chunk[t].len - 1
  IN  /\ At(t, "copy")
      /\ IF \A a \in dst : user[ttbr0][PageOf(a)] # <<>>
         THEN /\ user' = [user EXCEPT ![ttbr0] = [p \in VirtualPage |->
                   [i \in DOMAIN @[p] |->
                      IF p + i - 1 \in dst THEN Bytes(t)[p + i - first] ELSE @[p][i]]]]
              /\ heap' = Drop(t) /\ chunk' = [chunk EXCEPT ![t] = NoChunk]
              /\ Goto(t, "next")
         ELSE Goto(t, "panic") /\ UNCHANGED <<user, heap, chunk>>
      /\ UNCHANGED <<fileVars, position, reader, header, page, allocated, coreVars>>

\* No segment is left: the page below STACK_INIT is the stack.
AllocStack(t) ==
  /\ At(t, "next") /\ header[t] > Len(reader[t])
  /\ \/ AllocPage(t, STACK_INIT - PageSize, "user")
     \/ AllocPageFails(t, STACK_INIT - PageSize) /\ UNCHANGED <<heap, chunk>>

\* The timer interrupt: schedule() and context_switch.
ContextSwitch(t) ==
  /\ ~Halted /\ \A u \in Task : pc[u] # "boot"
  /\ t # current
  /\ current' = t /\ ttbr0' = t
  /\ UNCHANGED <<fileVars, pc, loadVars, heapVars, user>>

Step(t) ==
  \/ Open(t) \/ ReadHeader(t) \/ ReadProgramHeader(t) \/ HeadersDone(t)
  \/ NextSegment(t) \/ NextPage(t) \/ Pad(t) \/ ReadPastEnd(t)
  \/ AllocChunk(t) \/ CopyToUser(t) \/ AllocStack(t)

Next == Install \/ \E t \in Task : Step(t) \/ ContextSwitch(t)

\* The timer keeps firing and the scheduler lets every task run again and again
\* (EveryTaskRuns of module Scheduler), so a task that can make a step makes one.
Fairness ==
  /\ WF_vars(Install)
  /\ \A t \in Task : WF_vars(ContextSwitch(t)) /\ SF_vars(Step(t))

Spec == Init /\ [][Next]_vars /\ Fairness

-------------------------------------------------------------------------------
(***************************************************************************)
(* Properties.                                                             *)
(***************************************************************************)
Chunk == [address : Nat, memory : Nat, start : Nat, capacity : Nat, len : Nat]

\* The values the loader's state can take; what next() returns, and alloc_page
\* maps by its first address, never crosses a page boundary.
TypeOK ==
  /\ contents \in Seq(Nat)
  /\ pc \in [Task -> {"boot", "idle", "header", "headers", "next", "pad", "alloc",
                      "copy", "user", "err", "panic"}]
  /\ position \in [Task -> Nat]
  /\ reader \in [Task -> Seq(ProgramHeader)]
  /\ header \in [Task -> Nat] /\ page \in [Task -> Nat]
  /\ chunk \in [Task -> Chunk] 
  /\ \A t \in Task :
       PageOf(chunk[t].address) = PageOf(chunk[t].address + Max(chunk[t].memory, 1) - 1)
  /\ heap \in Seq(Nat) /\ Len(heap) = N /\ allocated \in Nat
  /\ \A t \in Task : \A p \in VirtualPage : Len(user[t][p]) \in {0, PageSize}
  /\ current \in Task /\ ttbr0 \in Task

Covers(h, a) ==
  h.load /\ h.virtual_address <= a /\ a < h.virtual_address + h.memory_size

\* What the ELF file says is at an address: the last segment that covers it,
\* from the file as far as it goes, zero beyond.
ImageByte(a) ==
  LET hs == {n \in DOMAIN program.headers : Covers(program.headers[n], a)}
      h  == program.headers[CHOOSE n \in hs : \A m \in hs : m <= n]
      k  == a - h.virtual_address
  IN  IF hs # {} /\ k < h.file_size /\ h.file_offset + k < program.len
      THEN h.file_offset + k + 1 ELSE 0

ImagePages ==
  {STACK_INIT - PageSize} \cup
  {p \in VirtualPage : \E a \in p .. p + PageSize - 1 :
     \E n \in DOMAIN program.headers : Covers(program.headers[n], a)}

\* A program is entered only with exactly the memory that its file describes:
\* every byte of every segment in its place, zeroes elsewhere, a stack, and
\* nothing else mapped, whatever other tasks were loading meanwhile.
ImageLoaded ==
  \A t \in Task : pc[t] = "user" =>
    /\ \A p \in VirtualPage : user[t][p] # <<>> <=> p \in ImagePages
    /\ \A p \in ImagePages : \A i \in 1 .. PageSize :
         user[t][p][i] = ImageByte(p + i - 1)

\* Everything that the headers name lies inside of the file.
WellFormed ==
  /\ program.program_header_offset <= program.len
  /\ \A n \in DOMAIN program.headers :
       program.headers[n].file_offset + program.headers[n].file_size <= program.len

\* Loading a file whose headers stay inside of it never reads beyond its end
\* and never copies to an address that is not mapped: only the heap can fail.
WellFormedNeverPanics ==
  \A t \in Task : pc[t] = "panic" => ~WellFormed \/ Exhausted(allocated)

\* Every execute() comes to an end: the program is entered, or refused, or a bad
\* file halts the kernel.
ExecuteEnds == \A t \in Task : <>(pc[t] \in {"user", "err"} \/ Halted)
===============================================================================
