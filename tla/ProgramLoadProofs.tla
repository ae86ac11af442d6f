--------------------------- MODULE ProgramLoadProofs --------------------------
(***************************************************************************)
(* Proofs about ProgramLoad, for any number of tasks that load any program *)
(* at the same time.                                                       *)
(***************************************************************************)
EXTENDS ProgramLoad, SequenceTheorems, TLAPS

-------------------------------------------------------------------------------
(***************************************************************************)
(* The inductive invariant.                                                *)
(***************************************************************************)
Fetching == {"boot", "idle", "header", "headers"}
Loading  == {"pad", "alloc", "copy"}
Started  == {"next", "pad", "alloc", "copy", "user"}
Page     == [1 .. PageSize -> Nat]
Memory   == [1 .. N -> Nat]

\* What the variables hold, with the sequences as functions.
ValueInv ==
  /\ program \in Programs
  /\ contents \in Seq(Nat)
  /\ pc \in [Task -> Fetching \cup Started \cup {"err", "panic"}]
  /\ position \in [Task -> Nat]
  /\ reader \in [Task -> Seq(ProgramHeader)]
  /\ header \in [Task -> Nat] /\ page \in [Task -> Nat]
  /\ chunk \in [Task -> Chunk]
  /\ heap \in Memory /\ allocated \in Nat
  /\ user \in [Task -> [VirtualPage -> {<<>>} \cup Page]]

\* The running task's memory context is installed; the task that panicked keeps
\* the core, and memory is exhausted only if there is one.
CoreInv ==
  /\ current \in Task /\ ttbr0 = current
  /\ \A t \in Task : pc[t] = "panic" => t = current
  /\ Exhausted(allocated) => \E t \in Task : pc[t] = "panic"

\* The file is there before any task opens it.
FileInv ==
  \/ /\ contents = <<>> /\ \A t \in Task : pc[t] = "boot"
  \/ /\ contents = [i \in 1 .. program.len |-> i] /\ \A t \in Task : pc[t] # "boot"

\* What is read of the headers is what the file says.
ReaderInv(t) ==
  /\ pc[t] = "header" => position[t] = 0
  /\ pc[t] \in {"boot", "idle", "header"} => reader[t] = <<>>
  /\ pc[t] = "headers" =>
       /\ Len(reader[t]) <= Len(program.headers)
       /\ \A n \in 1 .. Len(reader[t]) : reader[t][n] = program.headers[n]
       /\ program.program_header_offset <= program.len => position[t] <= program.len
  /\ pc[t] \in Started => reader[t] = program.headers /\ header[t] >= 1
  /\ pc[t] = "user" => header[t] > Len(program.headers)

\* The byte of a segment that the file gives.
SegByte(h, k) == IF k < h.file_size /\ h.file_offset + k < program.len THEN h.file_offset + k + 1 ELSE 0

Segment(t)   == program.headers[header[t]]
NextIndex(t) == IF pc[t] = "pad" THEN page[t] + 1 ELSE page[t]

\* How far the bytes of a segment go that come before its page with index n.
EndOf(h, n) == h.virtual_address + Min(OffsetStart(h, n), h.memory_size)

\* The page that a task is loading is a part of its segment, in one page of
\* memory, and ends where the next one begins.
ChunkInv(t) ==
  pc[t] \in Loading =>
    /\ header[t] <= Len(program.headers) /\ Segment(t).load
    /\ 1 <= chunk[t].memory /\ Segment(t).virtual_address <= chunk[t].address
    /\ chunk[t].address + chunk[t].memory = EndOf(Segment(t), NextIndex(t))
    /\ pc[t] # "pad" => chunk[t].len = chunk[t].memory
    /\ pc[t] = "copy" => PageOf(chunk[t].address) \in VirtualPage

\* Its vector has a block of the heap with the bytes of the segment; what is
\* missing is zero.
BlockInv(t) ==
  pc[t] \in Loading =>
    /\ chunk[t].len <= chunk[t].capacity
    /\ pc[t] = "pad" => chunk[t].len = chunk[t].capacity
    /\ chunk[t].start + chunk[t].capacity <= allocated /\ chunk[t].start + chunk[t].capacity <= N
    /\ \A j \in 1 .. chunk[t].memory :
         SegByte(Segment(t), chunk[t].address - Segment(t).virtual_address + j - 1) =
           IF j <= chunk[t].len THEN heap[chunk[t].start + j] ELSE 0

\* No other task's vector has any of that block.
Apart(t, u) ==
  pc[t] \in Loading /\ pc[u] \in Loading =>
    \/ chunk[t].start + chunk[t].capacity <= chunk[u].start
    \/ chunk[u].start + chunk[u].capacity <= chunk[t].start

\* The segments whose bytes have come to an address: those before the one that is
\* being loaded, and that one up to the page that comes next.
Frontier(t) == IF pc[t] \in Loading THEN chunk[t].address ELSE EndOf(Segment(t), page[t])
Done(t, a) ==
  {n \in 1 .. Len(program.headers) :
     Covers(program.headers[n], a) /\ (n < header[t] \/ (n = header[t] /\ a < Frontier(t)))}

\* A byte is the last of them that came there.
IsByte(S, a, b) ==
  \/ S = {} /\ b = 0
  \/ \E n \in S : /\ \A m \in S : m <= n
                  /\ b = SegByte(program.headers[n], a - program.headers[n].virtual_address)

Mapped(t, p) ==
  \/ \E a \in p .. p + PageSize - 1 : Done(t, a) # {}
  \/ pc[t] = "copy" /\ p = PageOf(chunk[t].address)
  \/ pc[t] = "user" /\ p = STACK_INIT - PageSize

UserInv(t) ==
  \A p \in VirtualPage :
    /\ pc[t] \in Fetching => user[t][p] = <<>>
    /\ pc[t] \in Started =>
         /\ user[t][p] # <<>> <=> Mapped(t, p)
         /\ user[t][p] # <<>> =>
              \A i \in 1 .. PageSize : IsByte(Done(t, p + i - 1), p + i - 1, user[t][p][i])

\* Every memory that a task can have comes from one page.
PlaceInv(t) == PageOf(chunk[t].address) = PageOf(chunk[t].address + Max(chunk[t].memory, 1) - 1)

TaskInv(t) == ReaderInv(t) /\ ChunkInv(t) /\ BlockInv(t) /\ PlaceInv(t) /\ UserInv(t)

Inv ==
  /\ ValueInv /\ CoreInv /\ FileInv
  /\ \A t \in Task : TaskInv(t)
  /\ \A t, u \in Task : t # u => Apart(t, u)

-------------------------------------------------------------------------------
(***************************************************************************)
(* Pages and segments.                                                     *)
(***************************************************************************)
LEMMA Constants ==
  /\ PageSize \in Nat \ {0} /\ HeaderSize \in Nat /\ EntrySize \in Nat \ {0}
  /\ EntryAlign \in Nat \ {0} /\ MinCapacity \in Nat /\ N \in Nat /\ HEAP_START \in Nat
BY ProgramLoadAssumption, HeapAssumption

LEMMA Division ==
  ASSUME NEW x \in Nat, NEW y \in Nat \ {0}
  PROVE  x \div y \in Nat /\ x % y \in Nat /\ x % y < y /\ x = (x \div y) * y + (x % y)
<1>1. x \div y \in Nat /\ x % y \in Nat /\ x % y < y
  OBVIOUS
<1>2. x = (x \div y) * y + (x % y)
  BY SMT
<1> QED BY <1>1, <1>2

LEMMA PageOfIs ==
  ASSUME NEW q \in Nat, NEW x \in Nat, q * PageSize <= x, x < (q + 1) * PageSize
  PROVE  PageOf(x) = q * PageSize
<1>1. PageSize \in Nat \ {0}
  BY Constants
<1>2. x \div PageSize = q
  BY <1>1
<1> QED BY <1>2 DEF PageOf

\* An address is in the page of virtual memory that it lies in.
LEMMA InPage ==
  ASSUME NEW p \in VirtualPage, NEW x \in Nat
  PROVE  p \in Nat /\ (PageOf(x) = p <=> p <= x /\ x < p + PageSize)
<1>1. PageSize \in Nat \ {0}
  BY Constants
<1>2. PICK q \in Nat : p = q * PageSize
  <2>1. UserSize \in Nat
    BY ProgramLoadAssumption
  <2>2. UserSize \div PageSize \in Nat
    BY <1>1, <2>1
  <2> QED BY <2>2 DEF VirtualPage
<1>3. p \in Nat /\ (q + 1) * PageSize = p + PageSize
  BY <1>1, <1>2
<1>4. ASSUME p <= x, x < p + PageSize PROVE PageOf(x) = p
  BY <1>2, <1>3, <1>4, PageOfIs
<1>5. ASSUME PageOf(x) = p PROVE p <= x /\ x < p + PageSize
  <2> DEFINE d == x \div PageSize
  <2>1. d \in Nat /\ d * PageSize <= x /\ x < d * PageSize + PageSize
    BY <1>1
  <2>2. d * PageSize = p
    BY <1>5 DEF PageOf
  <2> HIDE DEF d
  <2> QED BY <2>1, <2>2
<1> QED BY <1>3, <1>4, <1>5

\* A multiple of the page size.
LEMMA Multiple ==
  ASSUME NEW x \in Nat, x % PageSize = 0
  PROVE  x \div PageSize \in Nat /\ x = (x \div PageSize) * PageSize
<1> DEFINE P == PageSize
           k == x \div P
           y == k * P
           r == x % P
<1>1. P \in Nat \ {0}
  BY Constants
<1>2. k \in Nat /\ x = y + r /\ r = 0
  BY <1>1, Division
<1>3. \A n \in Nat : n * P \in Nat
  BY <1>1
<1>4. y \in Nat
  <2> HIDE DEF k
  <2> QED BY <1>2, <1>3
<1> HIDE DEF y, r
<1>5. x = y
  BY <1>2, <1>4
<1> QED BY <1>2, <1>5 DEF y

\* The page of the stack is one of the user's pages.
LEMMA StackPage == STACK_INIT - PageSize \in VirtualPage
<1> DEFINE P == PageSize
           k == STACK_INIT \div P
           u == UserSize \div P
<1>1. /\ P \in Nat \ {0} /\ STACK_INIT \in Nat /\ UserSize \in Nat
      /\ P <= STACK_INIT /\ STACK_INIT <= UserSize
  BY ProgramLoadAssumption
<1>2. k \in Nat /\ STACK_INIT = k * P /\ u \in Nat /\ UserSize = u * P
  BY <1>1, ProgramLoadAssumption, Multiple
<1> HIDE DEF P, k, u
<1>3. k # 0
  BY <1>1, <1>2
<1>4. k <= u
  <2> SUFFICES ASSUME u + 1 <= k PROVE FALSE
    BY <1>2
  <2> DEFINE d == k - (u + 1)
  <2>1. d \in Nat /\ k = d + (u + 1)
    BY <1>2
  <2> HIDE DEF d
  <2>2. k * P = d * P + u * P + P /\ d * P \in Nat /\ u * P \in Nat
    BY <1>1, <1>2, <2>1
  <2> QED BY <1>1, <1>2, <2>2
<1>5. k - 1 \in 0 .. u - 1 /\ STACK_INIT - P = (k - 1) * P
  BY <1>1, <1>2, <1>3, <1>4
<1> QED BY <1>5 DEF VirtualPage, P, u

LEMMA OffsetFacts ==
  ASSUME NEW h \in ProgramHeader, NEW n \in Nat
  PROVE  /\ OffsetStart(h, n) \in Nat /\ OffsetEnd(h, n) \in Nat
         /\ OffsetStart(h, n) < OffsetEnd(h, n)
         /\ OffsetEnd(h, n) = OffsetStart(h, n + 1)
         /\ OffsetStart(h, 0) = 0
<1> DEFINE P == PageSize
           v == h.virtual_address
           r == v % P
<1>1. P \in Nat \ {0} /\ v \in Nat
  BY Constants DEF ProgramHeader
<1>2. r \in Nat /\ r < P
  BY <1>1
<1>3. (n + 1) * P = n * P + P /\ n * P \in Nat /\ (n # 0 => P <= n * P)
  BY <1>1
<1>4. n + 1 # 0 /\ n + 1 \in Nat
  OBVIOUS
<1>5. OffsetEnd(h, n) = (n + 1) * P - r /\ OffsetStart(h, n) = IF n = 0 THEN 0 ELSE n * P - r
  BY Zenon DEF OffsetEnd, OffsetStart
<1>6. OffsetStart(h, n + 1) = IF n + 1 = 0 THEN 0 ELSE (n + 1) * P - r
  BY Zenon DEF OffsetStart
<1> HIDE DEF P, r
<1>7. OffsetStart(h, 0) = 0
  BY DEF OffsetStart
<1> QED BY <1>1, <1>2, <1>3, <1>4, <1>5, <1>6, <1>7

\* Where a page that range() finds lies.
LEMMA RangeFacts ==
  ASSUME NEW h \in ProgramHeader, NEW n \in Nat,
         MemoryRange(h, n).start # MemoryRange(h, n).end
  PROVE  /\ MemoryRange(h, n).start = h.virtual_address + OffsetStart(h, n)
         /\ MemoryRange(h, n).start = EndOf(h, n)
         /\ MemoryRange(h, n).end = EndOf(h, n + 1)
         /\ MemoryRange(h, n).start \in Nat /\ MemoryRange(h, n).end \in Nat
         /\ MemoryRange(h, n).start < MemoryRange(h, n).end
         /\ PageOf(MemoryRange(h, n).end - 1) = PageOf(MemoryRange(h, n).start)
<1> DEFINE P == PageSize
           v == h.virtual_address
           m == h.memory_size
           s == OffsetStart(h, n)
           e == OffsetEnd(h, n)
           A == v + Min(s, m)
           E == v + Min(e, m)
<1>1. P \in Nat \ {0} /\ v \in Nat /\ m \in Nat
  BY Constants DEF ProgramHeader
<1>2. s \in Nat /\ e \in Nat /\ s < e /\ e = OffsetStart(h, n + 1)
  BY OffsetFacts
<1>3. MemoryRange(h, n).start = A /\ MemoryRange(h, n).end = E
  BY DEF MemoryRange
<1> HIDE DEF s, e
<1>4. s < m /\ A = v + s /\ A < E /\ E <= v + e /\ A \in Nat /\ E \in Nat
  BY <1>1, <1>2, <1>3 DEF Min
<1>5. A = EndOf(h, n) /\ E = EndOf(h, n + 1)
  BY <1>2 DEF EndOf, s
<1> DEFINE q == (v \div P) + n
           r == v % P
<1>6. v = (v \div P) * P + r /\ r \in Nat /\ r < P /\ v \div P \in Nat
  BY <1>1, Division
<1>7. q \in Nat /\ q * P = (v \div P) * P + n * P /\ (q + 1) * P = q * P + P /\ (n + 1) * P = n * P + P
  <2>1. \A x, y \in Nat : (x + y) * P = x * P + y * P /\ (x + 1) * P = x * P + P /\ x + y \in Nat
    BY <1>1
  <2> QED BY <1>6, <2>1
<1>8. e = (n + 1) * P - r /\ s = IF n = 0 THEN 0 ELSE n * P - r
  BY Zenon DEF OffsetEnd, OffsetStart, e, s
<1> HIDE DEF q, r, P
<1>9. n * P \in Nat /\ q * P \in Nat /\ (n = 0 => n * P = 0)
  BY <1>1, <1>7
<1> DEFINE np == n * P
           dp == (v \div P) * P
<1>10. q * P <= v + s /\ v + e = q * P + P
  <2>1. np \in Nat /\ dp \in Nat /\ v = dp + r /\ q * P = dp + np /\ (n = 0 => np = 0)
    <3>1. v = dp + r /\ q * P = dp + np /\ np \in Nat /\ (n = 0 => np = 0)
      BY <1>6, <1>7, <1>9, Zenon
    <3>2. \A x \in Nat : x * P \in Nat
      BY <1>1
    <3> QED BY <1>6, <3>1, <3>2, Zenon
  <2>2. s = IF n = 0 THEN 0 ELSE np - r
    BY <1>8, Zenon
  <2>3. e = (n + 1) * P - r
    BY <1>8, Zenon
  <2>4. (n + 1) * P = np + P
    BY <1>7, Zenon
  <2> DEFINE n1 == (n + 1) * P
  <2> HIDE DEF np, dp, n1
  <2>5. e = n1 - r /\ n1 = np + P
    BY <2>3, <2>4, Zenon DEF n1
  <2> QED BY <1>1, <1>2, <1>6, <2>1, <2>2, <2>5
<1>11. q * P <= A /\ A < (q + 1) * P /\ q * P <= E - 1 /\ E - 1 < (q + 1) * P /\ E - 1 \in Nat
  BY <1>1, <1>2, <1>4, <1>7, <1>9, <1>10
<1>12. PageOf(A) = q * P /\ PageOf(E - 1) = q * P
  BY <1>4, <1>7, <1>11, PageOfIs DEF P
<1> QED BY <1>3, <1>4, <1>5, <1>12 DEF s

\* When range() finds no page there is nothing more to load.
LEMMA SegmentEnds ==
  ASSUME NEW h \in ProgramHeader, NEW n \in Nat,
         MemoryRange(h, n).start = MemoryRange(h, n).end
  PROVE  EndOf(h, n) = h.virtual_address + h.memory_size
<1>1. h.virtual_address \in Nat /\ h.memory_size \in Nat
  BY DEF ProgramHeader
<1>2. /\ OffsetStart(h, n) \in Nat /\ OffsetEnd(h, n) \in Nat /\ OffsetStart(h, n) < OffsetEnd(h, n)
  BY OffsetFacts
<1>3. Min(OffsetStart(h, n), h.memory_size) = Min(OffsetEnd(h, n), h.memory_size)
  BY <1>1, <1>2 DEF MemoryRange, Min
<1> QED BY <1>1, <1>2, <1>3 DEF EndOf, Min

-------------------------------------------------------------------------------
(***************************************************************************)
(* Sequences, the heap and the file.                                       *)
(***************************************************************************)
LEMMA LenOf ==
  ASSUME NEW S, NEW n \in Nat, NEW f \in [1 .. n -> S]
  PROVE  f \in Seq(S) /\ Len(f) = n /\ DOMAIN f = 1 .. n
OBVIOUS

\* A function on nothing is the empty sequence.
LEMMA NoPage ==
  /\ \A f : DOMAIN f = {} /\ f = [i \in DOMAIN f |-> f[i]] => f = <<>>
  /\ DOMAIN <<>> = {}
<1>1. DOMAIN <<>> = {}
  OBVIOUS
<1>2. ASSUME NEW f, DOMAIN f = {}, f = [i \in DOMAIN f |-> f[i]]
      PROVE  f = <<>>
  <2>1. f \in [1 .. 0 -> Nat]
    BY <1>2
  <2>2. f \in Seq(Nat) /\ Len(f) = 0
    BY <2>1, LenOf
  <2> QED BY <2>2, EmptySeq
<1> QED BY <1>1, <1>2

LEMMA PageIsNotEmpty == \A f \in Page : f # <<>>
<1>1. PageSize \in Nat \ {0}
  BY Constants
<1> QED BY <1>1, LenOf DEF Page

LEMMA BytesAreNotAligned ==
  ASSUME NEW x \in Nat
  PROVE  BlockStart(x, 1) = x /\ \A s \in Nat : Reserved(x, 1, s) = x + s
<1>1. HEAP_START + x \in Nat
  BY Constants
<1>2. AlignOffset(HEAP_START + x, 1) = 0
  <2>1. \A y \in Nat : (1 - (y % 1)) % 1 = 0
    BY SMT
  <2> QED BY <1>1, <2>1 DEF AlignOffset
<1>3. BlockStart(x, 1) = x
  BY <1>2 DEF BlockStart
<1> QED BY <1>3 DEF Reserved

LEMMA VectorFacts ==
  ASSUME NEW x \in Nat, NEW align \in Nat \ {0}, NEW s \in Nat
  PROVE  /\ Vector(x, align, s) \in Nat /\ x <= Vector(x, align, s)
         /\ align = 1 => Vector(x, align, s) = x + s
<1>1. AlignOffset(HEAP_START + x, align) \in Nat
  <2>1. HEAP_START + x \in Nat
    BY Constants
  <2>2. (HEAP_START + x) % align \in 0 .. align - 1
    BY <2>1
  <2>3. align - ((HEAP_START + x) % align) \in Nat
    BY <2>2
  <2> QED BY <2>3 DEF AlignOffset
<1>2. Vector(x, align, s) \in Nat /\ x <= Vector(x, align, s)
  BY <1>1 DEF Vector, Reserved, BlockStart
<1>3. align = 1 => Vector(x, align, s) = x + s
  <2>1. Reserved(x, 1, s) = x + s
    BY BytesAreNotAligned
  <2> QED BY <2>1 DEF Vector
<1> QED BY <1>2, <1>3

\* A vector of bytes.
LEMMA ByteVector ==
  ASSUME NEW x \in Nat, NEW s \in Nat
  PROVE  Vector(x, 1, s) = x + s /\ Vector(x, 1, s) \in Nat /\ x <= Vector(x, 1, s)
<1>1. 1 \in Nat \ {0}
  OBVIOUS
<1> QED BY <1>1, VectorFacts

LEMMA FillFacts ==
  ASSUME NEW H \in Memory, NEW start \in Nat, NEW bytes \in Seq(Nat)
  PROVE  /\ Fill(H, start, bytes) \in Memory
         /\ \A i \in 1 .. N : i \notin start + 1 .. start + Len(bytes) => Fill(H, start, bytes)[i] = H[i]
         /\ \A j \in 1 .. Len(bytes) : start + j <= N => Fill(H, start, bytes)[start + j] = bytes[j]
<1>1. N \in Nat /\ Len(bytes) \in Nat /\ \A j \in 1 .. Len(bytes) : bytes[j] \in Nat
  BY Constants
<1>2. Fill(H, start, bytes) =
        [i \in 1 .. N |-> IF i \in start + 1 .. start + Len(bytes) THEN bytes[i - start] ELSE H[i]]
  BY DEF Fill
<1>3. ASSUME NEW i \in 1 .. N, i \in start + 1 .. start + Len(bytes) PROVE i - start \in 1 .. Len(bytes)
  BY <1>1, <1>3
<1>4. Fill(H, start, bytes) \in Memory
  BY <1>1, <1>2, <1>3 DEF Memory
<1>5. ASSUME NEW j \in 1 .. Len(bytes), start + j <= N
      PROVE  Fill(H, start, bytes)[start + j] = bytes[j]
  <2>1. start + j \in 1 .. N /\ start + j \in start + 1 .. start + Len(bytes) /\ (start + j) - start = j
    BY <1>1, <1>5
  <2> QED BY <1>2, <2>1
<1> QED BY <1>2, <1>4, <1>5

LEMMA DeallocFacts ==
  ASSUME NEW H \in Memory, NEW start \in Nat, NEW len \in Nat
  PROVE  /\ Dealloc(H, start, len) \in Memory
         /\ \A i \in 1 .. N : i \notin start + 1 .. start + len => Dealloc(H, start, len)[i] = H[i]
<1> DEFINE zeroes == [i \in 1 .. len |-> 0]
<1>1. zeroes \in [1 .. len -> Nat]
  OBVIOUS
<1>2. zeroes \in Seq(Nat) /\ Len(zeroes) = len
  BY <1>1, LenOf
<1>3. Dealloc(H, start, len) = Fill(H, start, zeroes)
  BY Zenon DEF Dealloc
<1> HIDE DEF zeroes
<1> QED BY <1>2, <1>3, FillFacts

LEMMA BlockFacts ==
  ASSUME NEW H \in Memory, NEW start \in Nat, NEW len \in Nat, start + len <= N
  PROVE  /\ Block(H, start, len) \in Seq(Nat) /\ Len(Block(H, start, len)) = len
         /\ \A j \in 1 .. len : Block(H, start, len)[j] = H[start + j]
<1>1. N \in Nat /\ start + 1 \in Int /\ start + len \in Int
  BY Constants
<1>2. \A i \in start + 1 .. start + len : H[i] \in Nat
  BY <1>1 DEF Memory
<1> DEFINE b == SubSeq(H, start + 1, start + len)
<1>3. /\ b \in Seq(Nat)
      /\ Len(b) = IF start + 1 <= start + len THEN (start + len) - (start + 1) + 1 ELSE 0
      /\ \A j \in 1 .. (start + len) - (start + 1) + 1 : b[j] = H[start + 1 + j - 1]
  BY <1>1, <1>2, SubSeqProperties
<1>4. Block(H, start, len) = b
  BY DEF Block
<1> HIDE DEF b
<1>5. Len(b) = len
  BY <1>3
<1>6. ASSUME NEW j \in 1 .. len PROVE b[j] = H[start + j]
  <2>1. j \in 1 .. (start + len) - (start + 1) + 1 /\ start + 1 + j - 1 = start + j
    OBVIOUS
  <2> QED BY <1>3, <2>1
<1> QED BY <1>3, <1>4, <1>5, <1>6

\* What a read of the installed file gives.
LEMMA ReadFacts ==
  ASSUME NEW len \in Nat, contents = [i \in 1 .. len |-> i],
         NEW at \in Nat, NEW count \in Nat, at <= len
  PROVE  /\ ReadAt(at, count) \in Seq(Nat)
         /\ Len(ReadAt(at, count)) = Min(count, len - at) /\ Len(ReadAt(at, count)) \in Nat
         /\ \A j \in 1 .. Len(ReadAt(at, count)) : ReadAt(at, count)[j] = at + j
<1>1. contents \in [1 .. len -> Nat]
  OBVIOUS
<1>2. Len(contents) = len
  BY <1>1, LenOf
<1> DEFINE e == Min(at + count, len)
           b == SubSeq(contents, at + 1, e)
<1>3. e \in Nat /\ at <= e /\ e <= len /\ e - at = Min(count, len - at)
  BY DEF Min
<1>4. ReadAt(at, count) = b
  BY <1>2 DEF ReadAt
<1> HIDE DEF e
<1>5. \A i \in at + 1 .. e : contents[i] \in Nat /\ contents[i] = i
  BY <1>3
<1>6. /\ b \in Seq(Nat)
      /\ Len(b) = IF at + 1 <= e THEN e - (at + 1) + 1 ELSE 0
      /\ \A j \in 1 .. e - (at + 1) + 1 : b[j] = contents[at + 1 + j - 1]
  BY <1>3, <1>5, SubSeqProperties
<1> HIDE DEF b
<1>7. Len(b) = e - at /\ Len(b) \in Nat
  BY <1>3, <1>6
<1>8. ASSUME NEW j \in 1 .. Len(b) PROVE b[j] = at + j
  <2>1. j \in 1 .. e - (at + 1) + 1 /\ at + 1 + j - 1 = at + j /\ at + j \in at + 1 .. e
    BY <1>3, <1>7
  <2> QED BY <1>5, <1>6, <2>1
<1> QED BY <1>3, <1>4, <1>6, <1>7, <1>8

-------------------------------------------------------------------------------
(***************************************************************************)
(* What the invariant says of one task.                                    *)
(***************************************************************************)
LEMMA ProgramFacts ==
  ASSUME ValueInv
  PROVE  /\ program \in Program /\ program.len \in Nat /\ program.program_header_offset \in Nat
         /\ program.headers \in Seq(ProgramHeader) /\ Len(program.headers) \in Nat
         /\ DOMAIN program.headers = 1 .. Len(program.headers)
         /\ \A n \in 1 .. Len(program.headers) : program.headers[n] \in ProgramHeader
<1>1. program \in Program
  BY ProgramLoadAssumption DEF ValueInv
<1> QED BY <1>1 DEF Program

LEMMA HeaderFacts ==
  ASSUME NEW h \in ProgramHeader
  PROVE  /\ h.load \in BOOLEAN /\ h.file_offset \in Nat /\ h.virtual_address \in Nat
         /\ h.file_size \in Nat /\ h.memory_size \in Nat
BY DEF ProgramHeader

LEMMA ChunkFacts ==
  ASSUME NEW c \in Chunk
  PROVE  c.address \in Nat /\ c.memory \in Nat /\ c.start \in Nat /\ c.capacity \in Nat /\ c.len \in Nat
BY DEF Chunk

LEMMA TaskFacts ==
  ASSUME ValueInv, NEW t \in Task
  PROVE  /\ pc[t] \in Fetching \cup Started \cup {"err", "panic"}
         /\ position[t] \in Nat /\ reader[t] \in Seq(ProgramHeader) /\ Len(reader[t]) \in Nat
         /\ header[t] \in Nat /\ page[t] \in Nat /\ chunk[t] \in Chunk
         /\ user[t] \in [VirtualPage -> {<<>>} \cup Page]
         /\ \A p \in VirtualPage : user[t][p] \in {<<>>} \cup Page
BY DEF ValueInv

\* What a step leaves alone of a task.
SameTask(u) ==
  /\ pc'[u] = pc[u] /\ position'[u] = position[u] /\ reader'[u] = reader[u]
  /\ header'[u] = header[u] /\ page'[u] = page[u] /\ chunk'[u] = chunk[u]
  /\ user'[u] = user[u]

SameBlock(u) ==
  pc[u] \in Loading =>
    \A j \in 1 .. chunk[u].capacity : heap'[chunk[u].start + j] = heap[chunk[u].start + j]

\* The bytes that have come are a matter of the task's place in its program.
LEMMA DoneKept ==
  ASSUME NEW u, program' = program, pc'[u] = pc[u], header'[u] = header[u],
         page'[u] = page[u], chunk'[u] = chunk[u]
  PROVE  /\ Segment(u)' = Segment(u) /\ Frontier(u)' = Frontier(u)
         /\ \A a : Done(u, a)' = Done(u, a)
         /\ \A p : Mapped(u, p)' = Mapped(u, p)
<1>1. Segment(u)' = Segment(u)
  BY DEF Segment
<1>2. Frontier(u)' = Frontier(u)
  BY <1>1 DEF Frontier, EndOf
<1>3. ASSUME NEW a PROVE Done(u, a)' = Done(u, a)
  BY <1>2 DEF Done
<1>4. ASSUME NEW p PROVE Mapped(u, p)' = Mapped(u, p)
  BY <1>3 DEF Mapped
<1> QED BY <1>1, <1>2, <1>3, <1>4

LEMMA BytesKept ==
  ASSUME program' = program
  PROVE  /\ \A S, a, b : IsByte(S, a, b)' = IsByte(S, a, b)
         /\ \A h, k : SegByte(h, k)' = SegByte(h, k)
<1>1. ASSUME NEW h, NEW k PROVE SegByte(h, k)' = SegByte(h, k)
  BY DEF SegByte
<1>2. ASSUME NEW S, NEW a, NEW b PROVE IsByte(S, a, b)' = IsByte(S, a, b)
  BY DEF IsByte, SegByte
<1> QED BY <1>1, <1>2

\* The bystanders of a step keep their part of the invariant.
LEMMA Bystander ==
  ASSUME ValueInv, NEW u \in Task, TaskInv(u), program' = program,
         allocated' \in Nat, allocated <= allocated', SameTask(u), SameBlock(u)
  PROVE  TaskInv(u)'
<1>1. ReaderInv(u)'
  BY DEF TaskInv, ReaderInv, SameTask
<1>2. /\ Segment(u)' = Segment(u) /\ \A a : Done(u, a)' = Done(u, a)
      /\ \A p : Mapped(u, p)' = Mapped(u, p)
  BY DoneKept DEF SameTask
<1>3. ChunkInv(u)'
  <2>1. NextIndex(u)' = NextIndex(u)
    BY DEF NextIndex, SameTask
  <2>2. EndOf(Segment(u), NextIndex(u))' = EndOf(Segment(u), NextIndex(u))
    BY <1>2, <2>1 DEF EndOf
  <2> QED BY <1>2, <2>2 DEF TaskInv, ChunkInv, SameTask
<1>4. PlaceInv(u)'
  BY DEF TaskInv, PlaceInv, SameTask
<1>5. BlockInv(u)'
  <2> SUFFICES ASSUME pc[u] \in Loading PROVE BlockInv(u)'
    BY DEF BlockInv, SameTask
  <2>1. /\ chunk[u].start \in Nat /\ chunk[u].capacity \in Nat /\ chunk[u].len \in Nat
        /\ chunk[u].memory \in Nat /\ allocated \in Nat
    BY TaskFacts, ChunkFacts DEF ValueInv
  <2>2. BlockInv(u)
    BY DEF TaskInv
  <2>3. ASSUME NEW j \in 1 .. chunk[u].memory
        PROVE  SegByte(Segment(u), chunk[u].address - Segment(u).virtual_address + j - 1)' =
                 IF j <= chunk[u].len THEN heap'[chunk[u].start + j] ELSE 0
    <3>1. j <= chunk[u].len => heap'[chunk[u].start + j] = heap[chunk[u].start + j]
      BY <2>1, <2>2 DEF BlockInv, SameBlock
    <3>2. SegByte(Segment(u), chunk[u].address - Segment(u).virtual_address + j - 1)' =
            SegByte(Segment(u), chunk[u].address - Segment(u).virtual_address + j - 1)
      BY <1>2 DEF SegByte, SameTask
    <3> QED BY <2>2, <3>1, <3>2 DEF BlockInv
  <2>4. /\ chunk[u].start + chunk[u].capacity <= allocated'
    BY <2>1, <2>2 DEF BlockInv
  <2> QED BY <2>2, <2>3, <2>4 DEF BlockInv, SameTask
<1>6. UserInv(u)'
  BY <1>2, BytesKept DEF TaskInv, UserInv, SameTask
<1> QED BY <1>1, <1>3, <1>4, <1>5, <1>6 DEF TaskInv

-------------------------------------------------------------------------------
(***************************************************************************)
(* What every step of a task does to the others, and what remains to be    *)
(* shown of it.                                                            *)
(***************************************************************************)
Others(t) ==
  /\ t = current /\ pc[t] \notin {"boot", "panic"} /\ pc'[t] # "boot"
  /\ program' = program /\ contents' = contents /\ current' = current /\ ttbr0' = ttbr0
  /\ allocated' \in Nat /\ allocated <= allocated'
  /\ Exhausted(allocated') => pc'[t] = "panic" \/ Exhausted(allocated)
  /\ \A u \in Task \ {t} : SameTask(u) /\ SameBlock(u)

\* A block is the one that the task had, or lies behind all of them.
OwnBlock(t) ==
  pc'[t] \in Loading =>
    \/ /\ pc[t] \in Loading
       /\ chunk'[t].start = chunk[t].start /\ chunk'[t].capacity = chunk[t].capacity
    \/ allocated <= chunk'[t].start

Preserves(t) == Others(t) /\ OwnBlock(t) /\ ValueInv' /\ TaskInv(t)'

LEMMA StepPreserves ==
  ASSUME Inv, NEW t \in Task, Preserves(t)
  PROVE  Inv'
<1>1. ValueInv /\ ValueInv' /\ TaskInv(t)' /\ Others(t)
  BY DEF Inv, Preserves
<1>2. ASSUME NEW u \in Task PROVE TaskInv(u)'
  <2>1. CASE u = t
    BY <1>1, <2>1
  <2>2. CASE u # t
    <3>1. TaskInv(u) /\ SameTask(u) /\ SameBlock(u) /\ program' = program
          /\ allocated' \in Nat /\ allocated <= allocated'
      BY <2>2, <1>1 DEF Inv, Others
    <3> QED BY <1>1, <3>1, Bystander
  <2> QED BY <2>1, <2>2
<1>3. CoreInv'
  <2>1. current \in Task /\ ttbr0 = current /\ t = current
    BY <1>1 DEF Inv, CoreInv, Others
  <2>2. ASSUME NEW u \in Task, pc'[u] = "panic" PROVE u = t
    <3>1. u # t => pc[u] = "panic"
      BY <1>1, <2>2 DEF Others, SameTask
    <3> QED BY <2>1, <3>1 DEF Inv, CoreInv
  <2>3. ~Exhausted(allocated)
    BY <1>1, <2>1 DEF Inv, CoreInv, Others
  <2>4. Exhausted(allocated') => pc'[t] = "panic"
    BY <1>1, <2>3 DEF Others
  <2>5. current' = current /\ ttbr0' = ttbr0
    BY <1>1 DEF Others
  <2> QED BY <2>1, <2>2, <2>4, <2>5 DEF CoreInv, Exhausted
<1>4. FileInv'
  <2>1. contents = [i \in 1 .. program.len |-> i] /\ \A u \in Task : pc[u] # "boot"
    BY <1>1 DEF Inv, FileInv, Others
  <2>2. \A u \in Task : pc'[u] # "boot"
    BY <1>1, <2>1 DEF Others, SameTask
  <2>3. contents' = contents /\ program' = program
    BY <1>1 DEF Others
  <2> QED BY <2>1, <2>2, <2>3 DEF FileInv
<1>5. ASSUME NEW u \in Task, u # t, pc'[t] \in Loading, pc'[u] \in Loading
      PROVE  \/ chunk'[t].start + chunk'[t].capacity <= chunk'[u].start
             \/ chunk'[u].start + chunk'[u].capacity <= chunk'[t].start
  <2>1. SameTask(u) /\ Apart(t, u) /\ BlockInv(u) /\ OwnBlock(t)
    BY <1>1, <1>5 DEF Others, Inv, TaskInv, Preserves
  <2>2. chunk'[u] = chunk[u] /\ pc[u] \in Loading
    BY <1>5, <2>1 DEF SameTask
  <2>3. chunk[u].start + chunk[u].capacity <= allocated
    BY <2>1, <2>2 DEF BlockInv
  <2>4. chunk[u].start \in Nat /\ chunk[u].capacity \in Nat /\ chunk'[t].start \in Nat /\ allocated \in Nat
    <3>1. chunk[u] \in Chunk /\ chunk'[t] \in Chunk
      BY <1>1 DEF ValueInv
    <3> QED BY <1>1, <3>1, ChunkFacts DEF ValueInv
  <2>5. CASE allocated <= chunk'[t].start
    BY <2>2, <2>3, <2>4, <2>5
  <2>6. CASE /\ pc[t] \in Loading
             /\ chunk'[t].start = chunk[t].start /\ chunk'[t].capacity = chunk[t].capacity
    BY <2>1, <2>2, <2>6 DEF Apart
  <2> QED BY <1>5, <2>1, <2>5, <2>6 DEF OwnBlock
<1>6. ASSUME NEW u \in Task, NEW w \in Task, u # w PROVE Apart(u, w)'
  <2>1. CASE u = t
    BY <1>5, <1>6, <2>1 DEF Apart
  <2>2. CASE w = t
    BY <1>5, <1>6, <2>2 DEF Apart
  <2>3. CASE u # t /\ w # t
    <3>1. SameTask(u) /\ SameTask(w) /\ Apart(u, w)
      BY <1>1, <1>6, <2>3 DEF Others, Inv
    <3> QED BY <3>1 DEF SameTask, Apart
  <2> QED BY <2>1, <2>2, <2>3
<1> QED BY <1>1, <1>2, <1>3, <1>4, <1>6 DEF Inv

\* A task that gives up has nothing left to show.
LEMMA Ended ==
  ASSUME NEW t \in Task, pc'[t] \in {"err", "panic"}, PlaceInv(t)'
  PROVE  TaskInv(t)' /\ OwnBlock(t)
<1>1. pc'[t] \notin Loading \cup Started \cup Fetching
  BY DEF Loading, Started, Fetching
<1> QED BY <1>1 DEF TaskInv, ReaderInv, ChunkInv, BlockInv, UserInv, OwnBlock, Started, Loading, Fetching

\* Nothing that was written elsewhere.
LEMMA HeapSame ==
  ASSUME heap' = heap
  PROVE  \A u : SameBlock(u)
BY DEF SameBlock

LEMMA InitInv == Init => Inv
<1> SUFFICES ASSUME Init PROVE Inv
  OBVIOUS
<1>1. ValueInv
  <2>1. contents \in Seq(Nat)
    BY DEF Init
  <2>2. pc \in [Task -> Fetching \cup Started \cup {"err", "panic"}]
    BY DEF Init, Fetching
  <2>3. reader \in [Task -> Seq(ProgramHeader)] /\ position \in [Task -> Nat]
        /\ header \in [Task -> Nat] /\ page \in [Task -> Nat]
    BY DEF Init
  <2>4. chunk \in [Task -> Chunk]
    BY DEF Init, NoChunk, Chunk
  <2>5. heap \in Memory /\ allocated \in Nat
    BY DEF Init, Memory, Zeroes
  <2>6. user \in [Task -> [VirtualPage -> {<<>>} \cup Page]]
    BY DEF Init
  <2> QED BY <2>1, <2>2, <2>3, <2>4, <2>5, <2>6 DEF ValueInv, Init
<1>2. CoreInv
  <2>1. ~Exhausted(allocated)
    BY Constants DEF Init, Exhausted
  <2> QED BY <2>1 DEF CoreInv, Init
<1>3. FileInv
  BY DEF FileInv, Init
<1>4. ASSUME NEW t \in Task PROVE pc[t] = "boot" /\ TaskInv(t)
  <2>1. pc[t] = "boot" /\ reader[t] = <<>> /\ chunk[t] = NoChunk /\ \A p \in VirtualPage : user[t][p] = <<>>
    BY DEF Init
  <2>2. PlaceInv(t)
    BY <2>1 DEF PlaceInv, NoChunk, Max
  <2>3. ReaderInv(t) /\ ChunkInv(t) /\ BlockInv(t) /\ UserInv(t)
    BY <2>1 DEF ReaderInv, ChunkInv, BlockInv, UserInv, Loading, Started
  <2> QED BY <2>1, <2>2, <2>3 DEF TaskInv
<1>5. \A t, u \in Task : Apart(t, u)
  BY <1>4 DEF Apart, Loading
<1> QED BY <1>1, <1>2, <1>3, <1>4, <1>5 DEF Inv

-------------------------------------------------------------------------------
(***************************************************************************)
(* Steps that change no memory of a program.                               *)
(***************************************************************************)
PcValues == Fetching \cup Started \cup {"err", "panic"}

LEMMA Moves ==
  ASSUME ValueInv, NEW t \in Task, NEW p \in PcValues, Goto(t, p)
  PROVE  /\ pc' \in [Task -> PcValues] /\ pc'[t] = p
         /\ \A u \in Task \ {t} : pc'[u] = pc[u]
BY DEF Goto, ValueInv, PcValues

LEMMA Allocating ==
  ASSUME ValueInv, NEW t \in Task, NEW p \in PcValues, NEW r \in Nat, Allocates(t, r, p)
  PROVE  /\ pc' \in [Task -> PcValues] /\ pc'[t] \in {p, "panic"}
         /\ \A u \in Task \ {t} : pc'[u] = pc[u]
         /\ p # "panic" => (Exhausted(r) <=> pc'[t] = "panic")
         /\ allocated' = r
<1> DEFINE q == IF Exhausted(r) THEN "panic" ELSE p
<1>1. q \in PcValues /\ q \in {p, "panic"}
  BY DEF PcValues
<1>2. Goto(t, q) /\ allocated' = r
  BY DEF Allocates
<1>3. pc' \in [Task -> PcValues] /\ pc'[t] = q /\ \A u \in Task \ {t} : pc'[u] = pc[u]
  BY <1>1, <1>2, Moves
<1> QED BY <1>1, <1>2, <1>3

\* A task that reads headers has no memory.
LEMMA FetchingInv ==
  ASSUME Inv, NEW t \in Task, pc[t] \in Fetching, pc'[t] \in Fetching,
         user' = user, chunk' = chunk, ReaderInv(t)'
  PROVE  TaskInv(t)' /\ OwnBlock(t)
<1>1. PlaceInv(t)'
  BY DEF Inv, TaskInv, PlaceInv
<1>2. UserInv(t) /\ pc'[t] \notin Loading \cup Started
  BY DEF Inv, TaskInv, Fetching, Loading, Started
<1>3. ChunkInv(t)' /\ BlockInv(t)' /\ UserInv(t)' /\ OwnBlock(t)
  BY <1>2 DEF ChunkInv, BlockInv, UserInv, OwnBlock
<1> QED BY <1>1, <1>3 DEF TaskInv

LEMMA OpenPreserves ==
  ASSUME Inv, NEW t \in Task, Open(t)
  PROVE  Preserves(t)
<1>0. ValueInv /\ TaskInv(t) /\ pc[t] = "idle" /\ t = current /\ Goto(t, "header")
      /\ position' = [position EXCEPT ![t] = 0]
  BY DEF Inv, Open, At
<1>1. /\ program' = program /\ contents' = contents /\ reader' = reader /\ header' = header
      /\ page' = page /\ chunk' = chunk /\ heap' = heap /\ allocated' = allocated /\ user' = user
      /\ current' = current /\ ttbr0' = ttbr0
  BY DEF Open, fileVars, heapVars, coreVars
<1>2. pc' \in [Task -> PcValues] /\ pc'[t] = "header" /\ \A u \in Task \ {t} : pc'[u] = pc[u]
  BY <1>0, Moves DEF PcValues, Fetching
<1>3. Others(t)
  BY <1>0, <1>1, <1>2, HeapSame DEF Others, SameTask, ValueInv
<1>4. ValueInv'
  BY <1>0, <1>1, <1>2 DEF ValueInv, PcValues
<1>5. position'[t] = 0
  BY <1>0 DEF ValueInv
<1>6. ReaderInv(t)'
  BY <1>0, <1>1, <1>2, <1>5 DEF TaskInv, ReaderInv, Started
<1>7. pc[t] \in Fetching /\ pc'[t] \in Fetching
  BY <1>0, <1>2 DEF Fetching
<1>8. TaskInv(t)' /\ OwnBlock(t)
  BY <1>1, <1>6, <1>7, FetchingInv
<1> QED BY <1>3, <1>4, <1>8 DEF Preserves

\* A task that runs execute() finds the file.
LEMMA FileIsThere ==
  ASSUME Inv, NEW t \in Task, pc[t] # "boot"
  PROVE  contents = [i \in 1 .. program.len |-> i] /\ Len(contents) = program.len /\ program.len \in Nat
<1>1. contents = [i \in 1 .. program.len |-> i]
  BY DEF Inv, FileInv
<1>2. program.len \in Nat
  BY ProgramFacts DEF Inv
<1>3. contents \in [1 .. program.len -> Nat]
  BY <1>1, <1>2
<1> QED BY <1>1, <1>2, <1>3, LenOf

LEMMA ReadHeaderPreserves ==
  ASSUME Inv, NEW t \in Task, ReadHeader(t)
  PROVE  Preserves(t)
<1> DEFINE bytes  == ReadAt(position[t], HeaderSize)
           ok     == Len(bytes) = HeaderSize /\ program.valid
           buffer == Vector(allocated, 1, Len(bytes))
           r      == IF ok THEN Vector(buffer, EntryAlign, EntrySize * Len(program.headers)) ELSE buffer
           then   == IF ok THEN "headers" ELSE "err"
           pos    == IF ok THEN program.program_header_offset ELSE position[t] + Len(bytes)
<1>0. ValueInv /\ TaskInv(t) /\ pc[t] = "header" /\ t = current
  BY DEF Inv, ReadHeader, At
<1>1. /\ program' = program /\ contents' = contents /\ reader' = reader /\ header' = header
      /\ page' = page /\ chunk' = chunk /\ heap' = heap /\ user' = user
      /\ current' = current /\ ttbr0' = ttbr0
  BY DEF ReadHeader, fileVars, coreVars
<1>2. position' = [position EXCEPT ![t] = pos]
  BY DEF ReadHeader
<1>3. Allocates(t, r, then)
  BY DEF ReadHeader
<1>4. position[t] = 0 /\ reader[t] = <<>>
  BY <1>0 DEF TaskInv, ReaderInv
<1>5. Len(bytes) \in Nat
  <2>1. contents = [i \in 1 .. program.len |-> i] /\ program.len \in Nat
    BY <1>0, FileIsThere
  <2> QED BY <1>4, <2>1, ReadFacts, Constants
<1>6. program.program_header_offset \in Nat /\ Len(program.headers) \in Nat /\ program.len \in Nat
  BY <1>0, ProgramFacts
<1>7. allocated \in Nat /\ EntryAlign \in Nat \ {0} /\ EntrySize * Len(program.headers) \in Nat
  BY <1>0, <1>6, Constants DEF ValueInv
<1> HIDE DEF bytes
<1>8. r \in Nat /\ allocated <= r
  <2>1. buffer \in Nat /\ allocated <= buffer
    BY <1>5, <1>7, ByteVector
  <2> HIDE DEF buffer
  <2>2. Vector(buffer, EntryAlign, EntrySize * Len(program.headers)) \in Nat
        /\ buffer <= Vector(buffer, EntryAlign, EntrySize * Len(program.headers))
    BY <1>7, <2>1, VectorFacts
  <2> QED BY <1>7, <2>1, <2>2
<1>9. then \in PcValues /\ then # "panic" /\ then # "boot" /\ pos \in Nat
  BY <1>4, <1>5, <1>6 DEF PcValues, Fetching
<1> HIDE DEF r
<1>10. /\ pc' \in [Task -> PcValues] /\ pc'[t] \in {then, "panic"} /\ allocated' = r
       /\ \A u \in Task \ {t} : pc'[u] = pc[u]
       /\ Exhausted(r) => pc'[t] = "panic"
  <2> HIDE DEF then
  <2> QED BY <1>0, <1>3, <1>8, <1>9, Allocating
<1> HIDE DEF pos
<1>11. position' \in [Task -> Nat] /\ position'[t] = pos /\ \A u \in Task \ {t} : position'[u] = position[u]
  BY <1>0, <1>2, <1>9 DEF ValueInv
<1>12. Others(t)
  BY <1>0, <1>1, <1>8, <1>9, <1>10, <1>11, HeapSame DEF Others, SameTask
<1>13. ValueInv'
  BY <1>0, <1>1, <1>8, <1>10, <1>11 DEF ValueInv, PcValues
<1>14. CASE pc'[t] = "headers"
  <2>1. ok
    BY <1>10, <1>14
  <2>2. ReaderInv(t)'
    <3>1. reader'[t] = <<>> /\ position'[t] = program.program_header_offset
      BY <1>1, <1>4, <1>11, <2>1 DEF pos
    <3>2. Len(reader'[t]) = 0
      BY <3>1
    <3> QED BY <1>1, <1>6, <1>14, <3>1, <3>2 DEF ReaderInv, Started
  <2>3. pc[t] \in Fetching /\ pc'[t] \in Fetching
    BY <1>0, <1>14 DEF Fetching
  <2> QED BY <1>1, <1>12, <1>13, <2>2, <2>3, FetchingInv DEF Preserves
<1>15. CASE pc'[t] \in {"err", "panic"}
  <2>1. PlaceInv(t)'
    BY <1>0, <1>1 DEF TaskInv, PlaceInv
  <2> QED BY <1>12, <1>13, <1>15, <2>1, Ended DEF Preserves
<1> QED BY <1>10, <1>14, <1>15

LEMMA ReadProgramHeaderPreserves ==
  ASSUME Inv, NEW t \in Task, ReadProgramHeader(t)
  PROVE  Preserves(t)
<1> DEFINE n     == Len(reader[t]) + 1
           bytes == ReadAt(position[t], EntrySize)
           ok    == Len(bytes) = EntrySize
           r     == Vector(allocated, 1, Len(bytes))
           then  == IF ok THEN "headers" ELSE "err"
           rd    == IF ok THEN Append(reader[t], program.headers[n]) ELSE reader[t]
<1>0. ValueInv /\ TaskInv(t) /\ pc[t] = "headers" /\ t = current
  BY DEF Inv, ReadProgramHeader, At
<1>1. /\ program' = program /\ contents' = contents /\ header' = header
      /\ page' = page /\ chunk' = chunk /\ heap' = heap /\ user' = user
      /\ current' = current /\ ttbr0' = ttbr0
  BY DEF ReadProgramHeader, fileVars, coreVars
<1>2. /\ position' = [position EXCEPT ![t] = position[t] + Len(bytes)]
      /\ reader' = [reader EXCEPT ![t] = rd]
      /\ Allocates(t, r, then)
      /\ n <= Len(program.headers) /\ ~ReadPanics(position[t])
  BY DEF ReadProgramHeader
<1>3. /\ reader[t] \in Seq(ProgramHeader) /\ Len(reader[t]) \in Nat /\ position[t] \in Nat
      /\ allocated \in Nat
  BY <1>0, TaskFacts DEF ValueInv
<1>4. /\ program.len \in Nat /\ Len(program.headers) \in Nat
      /\ \A i \in 1 .. Len(program.headers) : program.headers[i] \in ProgramHeader
  BY <1>0, ProgramFacts
<1>5. /\ contents = [i \in 1 .. program.len |-> i] /\ Len(contents) = program.len
  BY <1>0, FileIsThere
<1>6. position[t] <= program.len
  BY <1>2, <1>3, <1>4, <1>5 DEF ReadPanics
<1>7. Len(bytes) \in Nat /\ Len(bytes) <= program.len - position[t]
  <2>1. Len(bytes) = Min(EntrySize, program.len - position[t]) /\ Len(bytes) \in Nat
    BY <1>3, <1>4, <1>5, <1>6, ReadFacts, Constants
  <2> QED BY <1>3, <1>4, <1>6, <2>1, Constants DEF Min
<1> HIDE DEF bytes
<1>8. r \in Nat /\ allocated <= r
  BY <1>3, <1>7, ByteVector
<1>9. then \in PcValues /\ then # "panic" /\ then # "boot"
  BY DEF PcValues, Fetching
<1> HIDE DEF r
<1>10. /\ pc' \in [Task -> PcValues] /\ pc'[t] \in {then, "panic"} /\ allocated' = r
       /\ \A u \in Task \ {t} : pc'[u] = pc[u]
       /\ Exhausted(r) => pc'[t] = "panic"
  <2> HIDE DEF then
  <2> QED BY <1>0, <1>2, <1>8, <1>9, Allocating
<1>11. /\ position' \in [Task -> Nat] /\ position'[t] = position[t] + Len(bytes)
       /\ \A u \in Task \ {t} : position'[u] = position[u]
  BY <1>0, <1>2, <1>3, <1>7 DEF ValueInv
<1>12. rd \in Seq(ProgramHeader)
  <2>1. n \in 1 .. Len(program.headers)
    BY <1>2, <1>3, <1>4
  <2> QED BY <1>3, <1>4, <2>1
<1>13. /\ reader' \in [Task -> Seq(ProgramHeader)] /\ reader'[t] = rd
       /\ \A u \in Task \ {t} : reader'[u] = reader[u]
  <2> HIDE DEF rd
  <2> QED BY <1>0, <1>2, <1>12 DEF ValueInv
<1>14. Others(t)
  BY <1>0, <1>1, <1>8, <1>9, <1>10, <1>11, <1>13, HeapSame DEF Others, SameTask
<1>15. ValueInv'
  BY <1>0, <1>1, <1>8, <1>10, <1>11, <1>13 DEF ValueInv, PcValues
<1>16. CASE pc'[t] = "headers"
  <2>1. ok
    BY <1>10, <1>16
  <2>2. reader'[t] = Append(reader[t], program.headers[n])
    BY <1>13, <2>1
  <2>3. /\ Len(reader'[t]) = n
        /\ \A i \in 1 .. Len(reader[t]) : reader'[t][i] = reader[t][i]
        /\ reader'[t][n] = program.headers[n]
    BY <1>2, <1>3, <1>4, <2>2
  <2>4. \A i \in 1 .. Len(reader[t]) : reader[t][i] = program.headers[i]
    BY <1>0 DEF TaskInv, ReaderInv
  <2>5. ASSUME NEW i \in 1 .. n PROVE reader'[t][i] = program.headers[i]
    <3>1. i = n \/ i \in 1 .. Len(reader[t])
      BY <1>3
    <3> QED BY <2>3, <2>4, <3>1
  <2>6. position'[t] <= program.len
    BY <1>3, <1>4, <1>7, <1>11
  <2>7. ReaderInv(t)'
    BY <1>1, <1>2, <1>16, <2>3, <2>5, <2>6 DEF ReaderInv, Started
  <2>8. pc[t] \in Fetching /\ pc'[t] \in Fetching
    BY <1>0, <1>16 DEF Fetching
  <2> QED BY <1>1, <1>14, <1>15, <2>7, <2>8, FetchingInv DEF Preserves
<1>17. CASE pc'[t] \in {"err", "panic"}
  <2>1. PlaceInv(t)'
    BY <1>0, <1>1 DEF TaskInv, PlaceInv
  <2> QED BY <1>14, <1>15, <1>17, <2>1, Ended DEF Preserves
<1> QED BY <1>10, <1>16, <1>17

LEMMA ReadPastEndPreserves ==
  ASSUME Inv, NEW t \in Task, ReadPastEnd(t)
  PROVE  Preserves(t)
<1>0. ValueInv /\ TaskInv(t) /\ pc[t] \in {"headers", "next"} /\ t = current /\ Goto(t, "panic")
  BY DEF Inv, ReadPastEnd, InHeaders, At
<1>1. /\ program' = program /\ contents' = contents /\ position' = position /\ reader' = reader
      /\ header' = header /\ page' = page /\ chunk' = chunk /\ heap' = heap /\ user' = user
      /\ allocated' = allocated /\ current' = current /\ ttbr0' = ttbr0
  BY DEF ReadPastEnd, fileVars, coreVars, loadVars, heapVars
<1>2. pc' \in [Task -> PcValues] /\ pc'[t] = "panic" /\ \A u \in Task \ {t} : pc'[u] = pc[u]
  BY <1>0, Moves DEF PcValues
<1>3. Others(t)
  BY <1>0, <1>1, <1>2, HeapSame DEF Others, SameTask, ValueInv
<1>4. ValueInv'
  BY <1>0, <1>1, <1>2 DEF ValueInv, PcValues
<1>5. PlaceInv(t)'
  BY <1>0, <1>1 DEF TaskInv, PlaceInv
<1> QED BY <1>2, <1>3, <1>4, <1>5, Ended DEF Preserves

\* Nothing of a segment has come before its first page.
LEMMA FirstPage ==
  ASSUME NEW h \in ProgramHeader
  PROVE  EndOf(h, 0) = h.virtual_address
<1>1. OffsetStart(h, 0) = 0 /\ h.virtual_address \in Nat /\ h.memory_size \in Nat
  BY HeaderFacts DEF OffsetStart
<1> QED BY <1>1 DEF EndOf, Min

LEMMA HeadersDonePreserves ==
  ASSUME Inv, NEW t \in Task, HeadersDone(t)
  PROVE  Preserves(t)
<1>0. ValueInv /\ TaskInv(t) /\ pc[t] = "headers" /\ t = current /\ Goto(t, "next")
  BY DEF Inv, HeadersDone, At
<1>1. /\ program' = program /\ contents' = contents /\ position' = position /\ reader' = reader
      /\ chunk' = chunk /\ heap' = heap /\ user' = user
      /\ allocated' = allocated /\ current' = current /\ ttbr0' = ttbr0
  BY DEF HeadersDone, fileVars, coreVars, heapVars
<1>2. pc' \in [Task -> PcValues] /\ pc'[t] = "next" /\ \A u \in Task \ {t} : pc'[u] = pc[u]
  BY <1>0, Moves DEF PcValues, Started
<1>3. /\ header' \in [Task -> Nat] /\ header'[t] = 1 /\ \A u \in Task \ {t} : header'[u] = header[u]
      /\ page' \in [Task -> Nat] /\ page'[t] = 0 /\ \A u \in Task \ {t} : page'[u] = page[u]
  BY <1>0 DEF HeadersDone, ValueInv
<1>4. Others(t)
  BY <1>0, <1>1, <1>2, <1>3, HeapSame DEF Others, SameTask, ValueInv
<1>5. ValueInv'
  BY <1>0, <1>1, <1>2, <1>3 DEF ValueInv, PcValues
<1>6. PlaceInv(t)'
  BY <1>0, <1>1 DEF TaskInv, PlaceInv
<1>7. pc'[t] \notin Loading /\ pc'[t] \notin Fetching
  BY <1>2 DEF Loading, Fetching
<1>8. ChunkInv(t)' /\ BlockInv(t)' /\ OwnBlock(t)
  BY <1>7 DEF ChunkInv, BlockInv, OwnBlock
<1>9. reader[t] = program.headers
  <2>1. reader[t] \in Seq(ProgramHeader) /\ program.headers \in Seq(ProgramHeader)
    BY <1>0, TaskFacts, ProgramFacts
  <2>2. Len(reader[t]) = Len(program.headers)
    BY DEF HeadersDone
  <2>3. \A n \in 1 .. Len(reader[t]) : reader[t][n] = program.headers[n]
    BY <1>0 DEF TaskInv, ReaderInv
  <2> QED BY <2>1, <2>2, <2>3, SeqEqual
<1>10. ReaderInv(t)'
  BY <1>1, <1>2, <1>3, <1>9 DEF ReaderInv
<1>11. ASSUME NEW a \in Nat PROVE Done(t, a)' = {}
  <2>1. Frontier(t)' = EndOf(program.headers[1], 0)
    BY <1>1, <1>2, <1>3, <1>7 DEF Frontier, Segment, EndOf, OffsetStart, Min
  <2>2. ASSUME NEW n \in 1 .. Len(program.headers), Covers(program.headers[n], a),
               n < 1 \/ (n = 1 /\ a < Frontier(t)')
        PROVE  FALSE
    <3>1. n = 1 /\ program.headers[1] \in ProgramHeader
      BY <1>0, <2>2, ProgramFacts
    <3>2. a < program.headers[1].virtual_address
      BY <2>1, <2>2, <3>1, FirstPage
    <3> QED BY <2>2, <3>1, <3>2, HeaderFacts DEF Covers
  <2> QED BY <1>1, <1>3, <2>2 DEF Done
<1>12. ASSUME NEW p \in VirtualPage PROVE user'[t][p] = <<>> /\ ~Mapped(t, p)'
  <2>1. user[t][p] = <<>>
    BY <1>0 DEF TaskInv, UserInv, Fetching
  <2>2. p \in Nat /\ PageSize \in Nat
    BY InPage, Constants
  <2>3. \A a \in p .. p + PageSize - 1 : Done(t, a)' = {}
    BY <1>11, <2>2
  <2> QED BY <1>1, <1>2, <2>1, <2>3 DEF Mapped
<1>13. UserInv(t)'
  BY <1>7, <1>12 DEF UserInv
<1> QED BY <1>4, <1>5, <1>6, <1>8, <1>10, <1>13 DEF Preserves, TaskInv

-------------------------------------------------------------------------------
(***************************************************************************)
(* The loop over the pages of the segments.                                *)
(***************************************************************************)
\* Every byte of a block is in the part of the heap that is spoken for.
LEMMA BlockPlaces ==
  ASSUME Inv, NEW u \in Task, pc[u] \in Loading, NEW j \in 1 .. chunk[u].capacity
  PROVE  chunk[u].start + j \in 1 .. N /\ chunk[u].start + j <= allocated
<1>1. chunk[u].start + chunk[u].capacity <= allocated /\ chunk[u].start + chunk[u].capacity <= N
  BY DEF Inv, TaskInv, BlockInv
<1>2. chunk[u].start \in Nat /\ chunk[u].capacity \in Nat
  BY TaskFacts, ChunkFacts DEF Inv
<1>3. N \in Nat /\ allocated \in Nat
  BY Constants DEF Inv, ValueInv
<1> QED BY <1>1, <1>2, <1>3

\* What a program has stays right when no more bytes are said to have come.
LEMMA UserKept ==
  ASSUME Inv, NEW t \in Task, user' = user, program' = program,
         pc[t] \in {"next", "pad", "alloc"}, pc'[t] \in {"next", "pad", "alloc"},
         \A a \in Nat : Done(t, a)' = Done(t, a)
  PROVE  UserInv(t)'
<1>1. UserInv(t) /\ pc[t] \in Started /\ pc'[t] \in Started /\ pc'[t] \notin Fetching
  BY DEF Inv, TaskInv, Started, Fetching
<1>2. PageSize \in Nat \ {0}
  BY Constants
<1>3. ASSUME NEW p \in VirtualPage PROVE Mapped(t, p)' <=> Mapped(t, p)
  <2>1. \A a \in p .. p + PageSize - 1 : Done(t, a)' = Done(t, a)
    BY <1>2, InPage
  <2> QED BY <2>1 DEF Mapped
<1>4. ASSUME NEW p \in VirtualPage, user[t][p] # <<>>, NEW i \in 1 .. PageSize
      PROVE  IsByte(Done(t, p + i - 1), p + i - 1, user[t][p][i])'
  <2>1. p + i - 1 \in Nat
    BY <1>2, InPage
  <2>2. IsByte(Done(t, p + i - 1), p + i - 1, user[t][p][i])
    BY <1>1, <1>4 DEF UserInv
  <2>3. Done(t, p + i - 1)' = Done(t, p + i - 1)
    BY <2>1
  <2> QED BY <2>2, <2>3 DEF IsByte, SegByte
<1> QED BY <1>1, <1>3, <1>4 DEF UserInv

LEMMA NextSegmentPreserves ==
  ASSUME Inv, NEW t \in Task, NextSegment(t)
  PROVE  Preserves(t)
<1>0. ValueInv /\ TaskInv(t) /\ pc[t] = "next" /\ t = current /\ header[t] <= Len(reader[t]) /\ ~HasPage(t)
  BY DEF Inv, NextSegment, InHeaders, At
<1>1. /\ program' = program /\ contents' = contents /\ position' = position /\ reader' = reader
      /\ chunk' = chunk /\ heap' = heap /\ user' = user /\ pc' = pc
      /\ allocated' = allocated /\ current' = current /\ ttbr0' = ttbr0
  BY DEF NextSegment, fileVars, coreVars, heapVars
<1>2. /\ header[t] \in Nat /\ page[t] \in Nat /\ reader[t] = program.headers /\ header[t] >= 1
  BY <1>0, TaskFacts DEF TaskInv, ReaderInv, Started
<1>3. /\ header' \in [Task -> Nat] /\ header'[t] = header[t] + 1
      /\ \A u \in Task \ {t} : header'[u] = header[u]
      /\ page' \in [Task -> Nat] /\ page'[t] = 0 /\ \A u \in Task \ {t} : page'[u] = page[u]
  BY <1>0, <1>2 DEF NextSegment, HeaderIndex, ValueInv
<1>4. Others(t)
  BY <1>0, <1>1, <1>3, HeapSame DEF Others, SameTask, ValueInv
<1>5. ValueInv'
  BY <1>0, <1>1, <1>3 DEF ValueInv
<1>6. PlaceInv(t)'
  BY <1>0, <1>1 DEF TaskInv, PlaceInv
<1>7. pc[t] \notin Loading
  BY <1>0 DEF Loading
<1>8. ChunkInv(t)' /\ BlockInv(t)' /\ OwnBlock(t)
  BY <1>1, <1>7 DEF ChunkInv, BlockInv, OwnBlock
<1>9. ReaderInv(t)'
  BY <1>0, <1>1, <1>2, <1>3 DEF ReaderInv
<1> DEFINE h == program.headers[header[t]]
<1>10. h \in ProgramHeader
  <2>1. header[t] \in 1 .. Len(program.headers)
    BY <1>0, <1>2, ProgramFacts
  <2> QED BY <1>0, <2>1, ProgramFacts
<1>11. h.load => EndOf(h, page[t]) = h.virtual_address + h.memory_size
  <2> HIDE DEF h
  <2>1. Header(t) = h
    BY <1>2 DEF Header, h
  <2>2. h.load => MemoryRange(h, page[t]).start = MemoryRange(h, page[t]).end
    BY <1>0, <2>1 DEF HasPage
  <2> QED BY <1>2, <1>10, <2>2, SegmentEnds
<1>12. ASSUME NEW a \in Nat PROVE Done(t, a)' = Done(t, a)
  <2>1. Frontier(t) = EndOf(h, page[t])
    BY <1>7 DEF Frontier, Segment
  <2>2. Frontier(t)' = EndOf(program.headers[header[t] + 1], 0)
    BY <1>1, <1>3, <1>7 DEF Frontier, Segment, EndOf, OffsetStart, Min
  <2>3. ASSUME NEW n \in 1 .. Len(program.headers), Covers(program.headers[n], a)
        PROVE  (n < header[t] + 1 \/ (n = header[t] + 1 /\ a < Frontier(t)')) <=>
               (n < header[t] \/ (n = header[t] /\ a < Frontier(t)))
    <3>1. n \in Nat /\ program.headers[n] \in ProgramHeader
      BY <1>0, ProgramFacts
    <3>2. program.headers[n].virtual_address <= a /\ program.headers[n].load
          /\ a < program.headers[n].virtual_address + program.headers[n].memory_size
      BY <2>3 DEF Covers
    <3>3. n = header[t] => a < Frontier(t)
      BY <1>11, <2>1, <3>2
    <3>4. ~(n = header[t] + 1 /\ a < Frontier(t)')
      <4> SUFFICES ASSUME n = header[t] + 1, a < Frontier(t)' PROVE FALSE
        OBVIOUS
      <4>1. a < program.headers[n].virtual_address
        BY <2>2, <3>1, FirstPage
      <4> QED BY <3>1, <3>2, <4>1, HeaderFacts
    <3> HIDE DEF h
    <3> QED BY <1>2, <3>1, <3>3, <3>4
  <2> HIDE DEF h
  <2> QED BY <1>1, <1>3, <2>3 DEF Done, Covers
<1>13. UserInv(t)'
  BY <1>0, <1>1, <1>12, UserKept
<1> QED BY <1>4, <1>5, <1>6, <1>8, <1>9, <1>13 DEF Preserves, TaskInv

\* Where the bytes of a page are in the file: those that a read brings are the
\* segment's, and those that it does not bring are zero.
LEMMA FetchedBytes ==
  ASSUME NEW h \in ProgramHeader, NEW n \in Nat, program.len \in Nat,
         MemoryRange(h, n).start # MemoryRange(h, n).end
  PROVE  LET file   == FileRange(h, n)
             memory == MemoryRange(h, n)
             count  == file.end - file.start
         IN  /\ file.start \in Nat /\ count \in Nat
             /\ file.start <= program.len =>
                  \A j \in 1 .. memory.end - memory.start :
                    SegByte(h, memory.start - h.virtual_address + j - 1) =
                      IF j <= Min(count, program.len - file.start) THEN file.start + j ELSE 0
<1> DEFINE os == OffsetStart(h, n)
           oe == OffsetEnd(h, n)
           fo == h.file_offset
           fz == h.file_size
           v  == h.virtual_address
           m  == h.memory_size
           L  == program.len
           s  == FileRange(h, n).start
           e  == FileRange(h, n).end
           A  == MemoryRange(h, n).start
           E  == MemoryRange(h, n).end
<1>1. os \in Nat /\ oe \in Nat /\ os < oe
  BY OffsetFacts
<1>2. fo \in Nat /\ fz \in Nat /\ v \in Nat /\ m \in Nat
  BY HeaderFacts
<1>3. s = fo + Min(os, fz) /\ e = fo + Min(oe, fz)
  BY DEF FileRange
<1>4. A = v + os /\ E = v + Min(oe, m)
  BY RangeFacts DEF MemoryRange
<1>5. \A k : SegByte(h, k) = IF k < fz /\ fo + k < L THEN fo + k + 1 ELSE 0
  BY DEF SegByte
<1> HIDE DEF os, oe, fo, fz, v, m, s, e, A, E, L
<1>6. L \in Nat
  BY DEF L
<1>7. s \in Nat /\ e - s \in Nat
  BY <1>1, <1>2, <1>3 DEF Min
<1>8. ASSUME s <= L, NEW j \in 1 .. E - A
      PROVE  SegByte(h, A - v + j - 1) = IF j <= Min(e - s, L - s) THEN s + j ELSE 0
  <2> DEFINE k == A - v + j - 1
  <2>1. k = os + j - 1 /\ j \in Nat /\ 1 <= j /\ j <= oe - os
    BY <1>1, <1>2, <1>4 DEF Min
  <2> HIDE DEF k
  <2>2. CASE j <= Min(e - s, L - s)
    <3>1. j <= e - s /\ j <= L - s
      BY <1>6, <1>7, <2>1, <2>2, <1>8 DEF Min
    <3>2. s = fo + os /\ e <= fo + fz
      BY <1>1, <1>2, <1>3, <2>1, <3>1 DEF Min
    <3>3. k < fz /\ fo + k < L /\ fo + k + 1 = s + j
      BY <1>1, <1>2, <1>6, <1>7, <2>1, <3>1, <3>2, <1>3 DEF Min
    <3> QED BY <1>5, <2>2, <3>3 DEF k
  <2>3. CASE ~(j <= Min(e - s, L - s))
    <3>1. j > e - s \/ j > L - s
      BY <1>6, <1>7, <2>1, <2>3, <1>8 DEF Min
    <3>2. ~(k < fz /\ fo + k < L)
      <4>1. CASE os >= fz
        BY <1>1, <1>2, <2>1, <4>1
      <4>2. CASE os < fz
        <5>1. s = fo + os
          BY <1>1, <1>2, <1>3, <4>2 DEF Min
        <5>2. j > L - s => fo + k >= L
          BY <1>1, <1>2, <1>6, <2>1, <5>1
        <5>3. j > e - s => k >= fz
          BY <1>1, <1>2, <1>3, <2>1, <5>1 DEF Min
        <5> QED BY <1>1, <1>2, <1>6, <2>1, <3>1, <5>2, <5>3
      <4> QED BY <1>1, <1>2, <4>1, <4>2
    <3> QED BY <1>5, <2>3, <3>2 DEF k
  <2> QED BY <2>2, <2>3
<1> QED BY <1>7, <1>8 DEF s, e, A, E, v, L

LEMMA NextPagePreserves ==
  ASSUME Inv, NEW t \in Task, NextPage(t)
  PROVE  Preserves(t)
<1> DEFINE h      == program.headers[header[t]]
           file   == FileRange(h, page[t])
           memory == MemoryRange(h, page[t])
           bytes  == ReadAt(file.start, file.end - file.start)
           c      == [address |-> memory.start, memory |-> memory.end - memory.start,
                      start |-> allocated, capacity |-> Len(bytes), len |-> Len(bytes)]
           r      == allocated + Len(bytes)
<1>0. /\ ValueInv /\ TaskInv(t) /\ pc[t] = "next" /\ t = current
      /\ header[t] <= Len(reader[t]) /\ HasPage(t)
  BY DEF Inv, NextPage, InHeaders, At
<1>1. /\ program' = program /\ contents' = contents /\ reader' = reader
      /\ header' = header /\ page' = page /\ user' = user
      /\ current' = current /\ ttbr0' = ttbr0
  BY DEF NextPage, fileVars, coreVars
<1>2. /\ header[t] \in Nat /\ page[t] \in Nat /\ reader[t] = program.headers /\ header[t] >= 1
      /\ allocated \in Nat /\ heap \in Memory
  BY <1>0, TaskFacts DEF TaskInv, ReaderInv, Started, ValueInv
<1>3. Header(t) = h
  BY <1>2 DEF Header
<1>4. h \in ProgramHeader /\ program.len \in Nat /\ header[t] <= Len(program.headers)
  <2>1. header[t] \in 1 .. Len(program.headers)
    BY <1>0, <1>2, ProgramFacts
  <2> QED BY <1>0, <2>1, ProgramFacts
<1>5. h.load /\ memory.start # memory.end
  BY <1>0, <1>3 DEF HasPage
<1>6. BlockStart(allocated, 1) = allocated
  BY <1>2, BytesAreNotAligned
<1>7. /\ ~ReadPanics(file.start)
      /\ position' = [position EXCEPT ![t] = file.start + Len(bytes)]
      /\ chunk' = [chunk EXCEPT ![t] = c]
      /\ heap' = Fill(heap, allocated, bytes)
      /\ Allocates(t, Vector(allocated, 1, Len(bytes)), "pad")
  BY <1>3, <1>6, Zenon DEF NextPage
<1>8. contents = [i \in 1 .. program.len |-> i] /\ Len(contents) = program.len
  BY <1>0, FileIsThere
<1>9. file.start \in Nat /\ file.end - file.start \in Nat
  <2> HIDE DEF h
  <2> QED BY <1>2, <1>4, <1>5, FetchedBytes
<1>10. file.start <= program.len
  <2> HIDE DEF file
  <2> QED BY <1>4, <1>7, <1>8, <1>9 DEF ReadPanics
<1>11. /\ bytes \in Seq(Nat) /\ Len(bytes) \in Nat
       /\ Len(bytes) = Min(file.end - file.start, program.len - file.start)
       /\ \A j \in 1 .. Len(bytes) : bytes[j] = file.start + j
  <2> HIDE DEF file
  <2> QED BY <1>4, <1>8, <1>9, <1>10, ReadFacts
<1>12. \A j \in 1 .. memory.end - memory.start :
         SegByte(h, memory.start - h.virtual_address + j - 1) =
           IF j <= Len(bytes) THEN file.start + j ELSE 0
  <2> HIDE DEF h
  <2> QED BY <1>2, <1>4, <1>5, <1>10, <1>11, FetchedBytes
<1>13. /\ memory.start = EndOf(h, page[t]) /\ memory.end = EndOf(h, page[t] + 1)
       /\ memory.start \in Nat /\ memory.end \in Nat /\ memory.start < memory.end
       /\ h.virtual_address <= memory.start
       /\ PageOf(memory.end - 1) = PageOf(memory.start)
  <2>1. memory.start = h.virtual_address + OffsetStart(h, page[t])
    BY <1>2, <1>4, <1>5, RangeFacts
  <2>2. OffsetStart(h, page[t]) \in Nat /\ h.virtual_address \in Nat
    BY <1>2, <1>4, OffsetFacts, HeaderFacts
  <2>3. h.virtual_address <= memory.start
    BY <2>1, <2>2
  <2> QED BY <1>2, <1>4, <1>5, <2>3, RangeFacts
<1> HIDE DEF h, file, memory, bytes
<1>14. Vector(allocated, 1, Len(bytes)) = r /\ r \in Nat /\ allocated <= r
  BY <1>2, <1>11, ByteVector
<1>15. c \in Chunk
  BY <1>2, <1>11, <1>13 DEF Chunk
<1>16. /\ pc' \in [Task -> PcValues] /\ pc'[t] \in {"pad", "panic"} /\ allocated' = r
       /\ \A u \in Task \ {t} : pc'[u] = pc[u]
       /\ Exhausted(r) <=> pc'[t] = "panic"
  <2>1. "pad" \in PcValues /\ "pad" # "panic" /\ Allocates(t, r, "pad")
    BY <1>7, <1>14 DEF PcValues, Started
  <2> HIDE DEF r
  <2> QED BY <1>0, <1>14, <2>1, Allocating
<1>17. /\ position' \in [Task -> Nat] /\ \A u \in Task \ {t} : position'[u] = position[u]
       /\ chunk' \in [Task -> Chunk] /\ chunk'[t] = c /\ \A u \in Task \ {t} : chunk'[u] = chunk[u]
  <2>1. file.start + Len(bytes) \in Nat
    BY <1>9, <1>11
  <2> HIDE DEF c
  <2> QED BY <1>0, <1>7, <1>15, <2>1 DEF ValueInv
<1>18. /\ heap' \in Memory
       /\ \A i \in 1 .. N : i \notin allocated + 1 .. allocated + Len(bytes) => heap'[i] = heap[i]
       /\ \A j \in 1 .. Len(bytes) : allocated + j <= N => heap'[allocated + j] = bytes[j]
  BY <1>2, <1>7, <1>11, FillFacts
<1>19. ASSUME NEW u \in Task \ {t} PROVE SameBlock(u)
  <2> SUFFICES ASSUME pc[u] \in Loading, NEW j \in 1 .. chunk[u].capacity
               PROVE  heap'[chunk[u].start + j] = heap[chunk[u].start + j]
    BY DEF SameBlock
  <2>1. chunk[u].start + j \in 1 .. N /\ chunk[u].start + j <= allocated
    BY BlockPlaces
  <2>2. chunk[u].start + j \notin allocated + 1 .. allocated + Len(bytes)
    <3>1. allocated \in Nat /\ chunk[u].start + j \in Int
      BY <1>2, <2>1
    <3> QED BY <2>1, <3>1
  <2> QED BY <1>18, <2>1, <2>2
<1>20. Others(t)
  BY <1>0, <1>1, <1>14, <1>16, <1>17, <1>19 DEF Others, SameTask
<1>21. ValueInv'
  BY <1>0, <1>1, <1>14, <1>16, <1>17, <1>18 DEF ValueInv, PcValues
<1>22. OwnBlock(t)
  BY <1>2, <1>17 DEF OwnBlock
<1>23. PlaceInv(t)'
  <2>1. chunk'[t].address = memory.start /\ chunk'[t].memory = memory.end - memory.start
    BY <1>17
  <2>2. Max(memory.end - memory.start, 1) = memory.end - memory.start
    BY <1>13 DEF Max
  <2>3. memory.start + (memory.end - memory.start) - 1 = memory.end - 1
    BY <1>13
  <2> QED BY <1>13, <2>1, <2>2, <2>3 DEF PlaceInv
<1>24. CASE pc'[t] = "panic"
  BY <1>20, <1>21, <1>23, <1>24, Ended DEF Preserves
<1>25. CASE pc'[t] = "pad"
  <2>1. pc[t] \notin Loading /\ pc'[t] \in Loading
    BY <1>0, <1>25 DEF Loading
  <2>2. /\ Segment(t)' = h /\ Segment(t) = h /\ NextIndex(t)' = page[t] + 1
        /\ Frontier(t)' = memory.start /\ Frontier(t) = memory.start
    <3>1. Segment(t)' = h /\ Segment(t) = h /\ NextIndex(t)' = page[t] + 1
      BY <1>1, <1>25 DEF Segment, NextIndex, h
    <3>2. Frontier(t)' = memory.start
      BY <1>17, <2>1 DEF Frontier
    <3>3. Frontier(t) = memory.start
      BY <1>13, <2>1, <3>1 DEF Frontier
    <3> QED BY <3>1, <3>2, <3>3
  <2>3. ReaderInv(t)'
    BY <1>1, <1>2, <1>25 DEF ReaderInv
  <2>4. ChunkInv(t)'
    <3>2. EndOf(Segment(t), NextIndex(t))' = memory.end
      BY <1>13, <2>2 DEF EndOf, OffsetStart, Min
    <3>3. 1 <= memory.end - memory.start /\ memory.start + (memory.end - memory.start) = memory.end
      BY <1>13
    <3> QED BY <1>1, <1>4, <1>5, <1>13, <1>17, <1>25, <2>2, <3>2, <3>3 DEF ChunkInv
  <2>5. BlockInv(t)'
    <3>1. r <= N
      BY <1>14, <1>16, <1>25, Constants DEF Exhausted
    <3>2. chunk'[t].memory = memory.end - memory.start /\ chunk'[t].address = memory.start
      BY <1>17
    <3>3. ASSUME NEW j \in 1 .. chunk'[t].memory
          PROVE  (SegByte(Segment(t), chunk[t].address - Segment(t).virtual_address + j - 1) =
                    IF j <= chunk[t].len THEN heap[chunk[t].start + j] ELSE 0)'
      <4>1. SegByte(h, memory.start - h.virtual_address + j - 1) =
              IF j <= Len(bytes) THEN file.start + j ELSE 0
        BY <1>12, <3>2
      <4>2. SegByte(Segment(t), chunk[t].address - Segment(t).virtual_address + j - 1)' =
              SegByte(h, memory.start - h.virtual_address + j - 1)
        BY <1>1, <2>2, <3>2 DEF SegByte
      <4>3. j <= Len(bytes) => heap'[allocated + j] = bytes[j] /\ bytes[j] = file.start + j
        BY <1>2, <1>11, <1>13, <1>18, <3>1, <3>2, Constants
      <4>4. chunk'[t].len = Len(bytes) /\ chunk'[t].start = allocated
        BY <1>17
      <4> QED BY <4>1, <4>2, <4>3, <4>4
    <3>4. /\ chunk'[t].len = Len(bytes) /\ chunk'[t].capacity = Len(bytes)
          /\ chunk'[t].start = allocated
      BY <1>17
    <3> QED BY <1>1, <1>2, <1>11, <1>14, <1>16, <1>25, <3>1, <3>3, <3>4 DEF BlockInv
  <2>6. \A a \in Nat : Done(t, a)' = Done(t, a)
    BY <1>1, <2>2 DEF Done, Covers
  <2>7. UserInv(t)'
    BY <1>0, <1>1, <1>25, <2>6, UserKept
  <2> QED BY <1>20, <1>21, <1>22, <1>23, <2>3, <2>4, <2>5, <2>7 DEF Preserves, TaskInv
<1> QED BY <1>16, <1>24, <1>25

\* A vector that is dropped is cleared, and nobody else's.
LEMMA DropFacts ==
  ASSUME Inv, NEW t \in Task, pc[t] \in Loading
  PROVE  /\ Drop(t) \in Memory
         /\ \A u \in Task \ {t} : pc[u] \in Loading =>
              \A j \in 1 .. chunk[u].capacity : Drop(t)[chunk[u].start + j] = heap[chunk[u].start + j]
<1>1. heap \in Memory /\ chunk[t].start \in Nat /\ chunk[t].capacity \in Nat
  BY TaskFacts, ChunkFacts DEF Inv, ValueInv
<1>2. /\ Drop(t) \in Memory
      /\ \A i \in 1 .. N : i \notin chunk[t].start + 1 .. chunk[t].start + chunk[t].capacity =>
           Drop(t)[i] = heap[i]
  BY <1>1, DeallocFacts DEF Drop
<1>3. ASSUME NEW u \in Task \ {t}, pc[u] \in Loading, NEW j \in 1 .. chunk[u].capacity
      PROVE  Drop(t)[chunk[u].start + j] = heap[chunk[u].start + j]
  <2>1. chunk[u].start + j \in 1 .. N
    BY <1>3, BlockPlaces
  <2>2. chunk[u].start \in Nat /\ chunk[u].capacity \in Nat
    BY TaskFacts, ChunkFacts DEF Inv
  <2>3. \/ chunk[t].start + chunk[t].capacity <= chunk[u].start
        \/ chunk[u].start + chunk[u].capacity <= chunk[t].start
    BY <1>3 DEF Inv, Apart
  <2>4. chunk[u].start + j \notin chunk[t].start + 1 .. chunk[t].start + chunk[t].capacity
    BY <1>1, <2>2, <2>3
  <2> QED BY <1>2, <2>1, <2>4
<1> QED BY <1>2, <1>3

\* Padding changes the vector and not the place in the program.
LEMMA PadDone ==
  ASSUME Inv, NEW t \in Task, pc[t] = "pad", pc'[t] = "alloc", program' = program,
         reader' = reader, header' = header, page'[t] = page[t] + 1, user' = user,
         chunk'[t].address = chunk[t].address, chunk'[t].memory = chunk[t].memory,
         chunk'[t].len = chunk[t].memory
  PROVE  ReaderInv(t)' /\ ChunkInv(t)' /\ PlaceInv(t)' /\ UserInv(t)'
<1>1. TaskInv(t) /\ pc[t] \in Loading /\ pc'[t] \in Loading /\ pc[t] \in Started
  BY DEF Inv, Loading, Started
<1>2. Segment(t)' = Segment(t) /\ Frontier(t)' = Frontier(t)
  BY <1>1 DEF Segment, Frontier
<1>3. ReaderInv(t)'
  BY <1>1 DEF TaskInv, ReaderInv
<1>4. ChunkInv(t)'
  <2>1. NextIndex(t)' = NextIndex(t)
    BY DEF NextIndex
  <2>2. EndOf(Segment(t), NextIndex(t))' = EndOf(Segment(t), NextIndex(t))
    BY <1>2, <2>1 DEF EndOf
  <2> QED BY <1>1, <1>2, <2>2 DEF TaskInv, ChunkInv
<1>5. PlaceInv(t)'
  BY <1>1 DEF TaskInv, PlaceInv
<1>6. \A a \in Nat : Done(t, a)' = Done(t, a)
  BY <1>2 DEF Done
<1>7. UserInv(t)'
  BY <1>6, UserKept
<1> QED BY <1>3, <1>4, <1>5, <1>7

LEMMA PadPreserves ==
  ASSUME Inv, NEW t \in Task, Pad(t)
  PROVE  Preserves(t)
<1> DEFINE c        == chunk[t]
           capacity == GrownCapacity(c.capacity, c.memory)
<1>0. ValueInv /\ TaskInv(t) /\ pc[t] = "pad" /\ t = current /\ pc[t] \in Loading
  BY DEF Inv, Pad, At, Loading
<1>1. /\ program' = program /\ contents' = contents /\ position' = position /\ reader' = reader
      /\ header' = header /\ user' = user
      /\ current' = current /\ ttbr0' = ttbr0
  BY DEF Pad, fileVars, coreVars
<1>2. /\ c \in Chunk /\ c.address \in Nat /\ c.memory \in Nat /\ c.start \in Nat
      /\ c.capacity \in Nat /\ c.len \in Nat /\ page[t] \in Nat
      /\ allocated \in Nat /\ heap \in Memory
  BY <1>0, TaskFacts, ChunkFacts DEF ValueInv
<1>3. /\ page' \in [Task -> Nat] /\ page'[t] = page[t] + 1 /\ \A u \in Task \ {t} : page'[u] = page[u]
  BY <1>0, <1>2 DEF Pad, ValueInv
<1>4. BlockInv(t) /\ c.len = c.capacity
  BY <1>0 DEF TaskInv, BlockInv
<1>5. CASE c.memory <= c.capacity
  <2>1. chunk' = [chunk EXCEPT ![t].len = c.memory] /\ Goto(t, "alloc") /\ heap' = heap /\ allocated' = allocated
    BY <1>2, <1>5 DEF Pad, heapVars
  <2>2. pc' \in [Task -> PcValues] /\ pc'[t] = "alloc" /\ \A u \in Task \ {t} : pc'[u] = pc[u]
    BY <1>0, <2>1, Moves DEF PcValues, Started
  <2>3. /\ chunk' \in [Task -> Chunk] /\ \A u \in Task \ {t} : chunk'[u] = chunk[u]
        /\ chunk'[t].address = c.address /\ chunk'[t].memory = c.memory /\ chunk'[t].start = c.start
        /\ chunk'[t].capacity = c.capacity /\ chunk'[t].len = c.memory
    BY <1>0, <1>2, <2>1 DEF ValueInv, Chunk
  <2>4. Others(t)
    BY <1>0, <1>1, <1>2, <1>3, <2>1, <2>2, <2>3, HeapSame DEF Others, SameTask
  <2>5. ValueInv'
    BY <1>0, <1>1, <1>3, <2>1, <2>2, <2>3 DEF ValueInv, PcValues
  <2>6. OwnBlock(t)
    BY <1>0, <2>3 DEF OwnBlock
  <2>7. ReaderInv(t)' /\ ChunkInv(t)' /\ PlaceInv(t)' /\ UserInv(t)'
    BY <1>0, <1>1, <1>3, <2>2, <2>3, PadDone
  <2>8. BlockInv(t)'
    <3>1. Segment(t)' = Segment(t)
      BY <1>1 DEF Segment
    <3>2. ASSUME NEW j \in 1 .. chunk'[t].memory
          PROVE  (SegByte(Segment(t), chunk[t].address - Segment(t).virtual_address + j - 1) =
                    IF j <= chunk[t].len THEN heap[chunk[t].start + j] ELSE 0)'
      <4>1. j \in 1 .. c.memory /\ j <= c.len /\ j <= chunk'[t].len
        BY <1>2, <1>4, <1>5, <2>3
      <4>2. SegByte(Segment(t), c.address - Segment(t).virtual_address + j - 1) = heap[c.start + j]
        BY <1>0, <1>4, <4>1 DEF BlockInv
      <4>3. SegByte(Segment(t), chunk[t].address - Segment(t).virtual_address + j - 1)' =
              SegByte(Segment(t), c.address - Segment(t).virtual_address + j - 1)
        BY <1>1, <2>3, <3>1 DEF SegByte
      <4> QED BY <2>1, <2>3, <4>1, <4>2, <4>3
    <3> QED BY <1>0, <1>2, <1>4, <1>5, <2>1, <2>2, <2>3, <3>2 DEF BlockInv
  <2> QED BY <2>4, <2>5, <2>6, <2>7, <2>8 DEF Preserves, TaskInv
<1>6. CASE c.memory > c.capacity
  <2> DEFINE bytes == Resize(Bytes(t), c.memory)
             r     == allocated + capacity
  <2>1. capacity \in Nat /\ c.memory <= capacity
    BY <1>2, Constants DEF GrownCapacity, Max
  <2>2. BlockStart(allocated, 1) = allocated /\ Reserved(allocated, 1, capacity) = r /\ r \in Nat
    BY <1>2, <2>1, BytesAreNotAligned
  <2>3. /\ chunk' = [chunk EXCEPT ![t].start = allocated, ![t].capacity = capacity, ![t].len = c.memory]
        /\ heap' = Fill(Drop(t), allocated, bytes)
        /\ Allocates(t, r, "alloc")
    <3>1. ~(c.memory <= c.capacity)
      BY <1>2, <1>6
    <3> QED BY <2>2, <3>1, Zenon DEF Pad
  <2>4. /\ Bytes(t) \in Seq(Nat) /\ Len(Bytes(t)) = c.len
        /\ \A j \in 1 .. c.len : Bytes(t)[j] = heap[c.start + j]
    <3>1. c.start + c.len <= N
      BY <1>0, <1>2, <1>4, Constants DEF BlockInv
    <3> QED BY <1>2, <3>1, BlockFacts DEF Bytes
  <2>5. /\ bytes \in Seq(Nat) /\ Len(bytes) = c.memory
        /\ \A j \in 1 .. c.memory : bytes[j] = IF j <= c.len THEN heap[c.start + j] ELSE 0
    <3>1. \A j \in 1 .. c.memory : bytes[j] = IF j <= c.len THEN Bytes(t)[j] ELSE 0
      BY <1>2, <2>4 DEF Resize
    <3>2. \A j \in 1 .. c.len : Bytes(t)[j] \in Nat
      BY <2>4
    <3>3. bytes \in [1 .. c.memory -> Nat]
      BY <1>2, <2>4, <3>2 DEF Resize
    <3>4. bytes \in Seq(Nat) /\ Len(bytes) = c.memory
      BY <1>2, <3>3, LenOf
    <3> HIDE DEF bytes
    <3>5. ASSUME NEW j \in 1 .. c.memory
          PROVE  bytes[j] = IF j <= c.len THEN heap[c.start + j] ELSE 0
      BY <1>2, <2>4, <3>1
    <3> QED BY <3>4, <3>5
  <2> HIDE DEF bytes, capacity
  <2>6. /\ heap' \in Memory
        /\ \A i \in 1 .. N : i \notin allocated + 1 .. allocated + c.memory => heap'[i] = Drop(t)[i]
        /\ \A j \in 1 .. c.memory : allocated + j <= N => heap'[allocated + j] = bytes[j]
    <3>1. Drop(t) \in Memory
      BY <1>0, DropFacts
    <3> DEFINE H == Fill(Drop(t), allocated, bytes)
    <3>2. allocated \in Nat /\ bytes \in Seq(Nat) /\ Len(bytes) = c.memory /\ heap' = H
      BY <1>2, <2>3, <2>5
    <3>3. /\ H \in Memory
          /\ \A i \in 1 .. N : i \notin allocated + 1 .. allocated + Len(bytes) => H[i] = Drop(t)[i]
          /\ \A j \in 1 .. Len(bytes) : allocated + j <= N => H[allocated + j] = bytes[j]
      BY <3>1, <3>2, FillFacts
    <3> HIDE DEF H
    <3> QED BY <3>2, <3>3
  <2>7. ASSUME NEW u \in Task \ {t} PROVE SameBlock(u)
    <3> SUFFICES ASSUME pc[u] \in Loading, NEW j \in 1 .. chunk[u].capacity
                 PROVE  heap'[chunk[u].start + j] = heap[chunk[u].start + j]
      BY DEF SameBlock
    <3>1. chunk[u].start + j \in 1 .. N /\ chunk[u].start + j <= allocated
      BY BlockPlaces
    <3>2. chunk[u].start + j \notin allocated + 1 .. allocated + c.memory
      <4>1. allocated \in Nat /\ chunk[u].start + j \in Int
        BY <1>2, <3>1
      <4> QED BY <3>1, <4>1
    <3>3. Drop(t)[chunk[u].start + j] = heap[chunk[u].start + j]
      BY <1>0, DropFacts
    <3> QED BY <2>6, <3>1, <3>2, <3>3
  <2>8. /\ pc' \in [Task -> PcValues] /\ pc'[t] \in {"alloc", "panic"} /\ allocated' = r
        /\ \A u \in Task \ {t} : pc'[u] = pc[u]
        /\ Exhausted(r) <=> pc'[t] = "panic"
    <3>1. "alloc" \in PcValues /\ "alloc" # "panic"
      BY DEF PcValues, Started
    <3> HIDE DEF r
    <3> QED BY <1>0, <2>2, <2>3, <3>1, Allocating
  <2>9. /\ chunk' \in [Task -> Chunk] /\ \A u \in Task \ {t} : chunk'[u] = chunk[u]
        /\ chunk'[t].address = c.address /\ chunk'[t].memory = c.memory /\ chunk'[t].start = allocated
        /\ chunk'[t].capacity = capacity /\ chunk'[t].len = c.memory
    BY <1>0, <1>2, <2>1, <2>3 DEF ValueInv, Chunk
  <2>10. Others(t)
    BY <1>0, <1>1, <1>2, <1>3, <2>1, <2>2, <2>7, <2>8, <2>9 DEF Others, SameTask
  <2>11. ValueInv'
    BY <1>0, <1>1, <1>3, <2>2, <2>6, <2>8, <2>9 DEF ValueInv, PcValues
  <2>12. OwnBlock(t)
    BY <1>2, <2>9 DEF OwnBlock
  <2>13. CASE pc'[t] = "panic"
    <3>1. PlaceInv(t)'
      BY <1>0, <2>9 DEF TaskInv, PlaceInv
    <3> QED BY <2>10, <2>11, <2>13, <3>1, Ended DEF Preserves
  <2>14. CASE pc'[t] = "alloc"
    <3>1. ReaderInv(t)' /\ ChunkInv(t)' /\ PlaceInv(t)' /\ UserInv(t)'
      BY <1>0, <1>1, <1>3, <2>9, <2>14, PadDone
    <3>2. Segment(t)' = Segment(t)
      BY <1>1 DEF Segment
    <3>3. r <= N
      BY <2>2, <2>8, <2>14, Constants DEF Exhausted
    <3>4. ASSUME NEW j \in 1 .. chunk'[t].memory
          PROVE  (SegByte(Segment(t), chunk[t].address - Segment(t).virtual_address + j - 1) =
                    IF j <= chunk[t].len THEN heap[chunk[t].start + j] ELSE 0)'
      <4>1. j \in 1 .. c.memory /\ j <= chunk'[t].len
        BY <1>2, <2>9
      <4>2. SegByte(Segment(t), c.address - Segment(t).virtual_address + j - 1) =
              IF j <= c.len THEN heap[c.start + j] ELSE 0
        BY <1>0, <1>4, <4>1 DEF BlockInv
      <4>3. SegByte(Segment(t), chunk[t].address - Segment(t).virtual_address + j - 1)' =
              SegByte(Segment(t), c.address - Segment(t).virtual_address + j - 1)
        BY <1>1, <2>9, <3>2 DEF SegByte
      <4>4. allocated + j <= N
        BY <1>2, <2>1, <3>3, <4>1, Constants
      <4>5. heap'[allocated + j] = IF j <= c.len THEN heap[c.start + j] ELSE 0
        BY <2>5, <2>6, <4>1, <4>4
      <4> QED BY <2>9, <4>1, <4>2, <4>3, <4>5
    <3>5. BlockInv(t)'
      BY <2>1, <2>2, <2>8, <2>9, <2>14, <3>3, <3>4 DEF BlockInv
    <3> QED BY <2>10, <2>11, <2>12, <3>1, <3>5 DEF Preserves, TaskInv
  <2> QED BY <2>8, <2>13, <2>14
<1> QED BY <1>2, <1>5, <1>6

-------------------------------------------------------------------------------
(***************************************************************************)
(* Steps that map pages.                                                   *)
(***************************************************************************)
LEMMA AllocPageFacts ==
  ASSUME Inv, NEW t \in Task, NEW a, NEW then \in PcValues, AllocPage(t, a, then)
  PROVE  /\ PageOf(a) \in VirtualPage
         /\ program' = program /\ contents' = contents /\ position' = position /\ reader' = reader
         /\ header' = header /\ page' = page /\ chunk' = chunk /\ heap' = heap
         /\ allocated' = allocated /\ current' = current /\ ttbr0' = ttbr0
         /\ pc' \in [Task -> PcValues] /\ pc'[t] = then /\ \A u \in Task \ {t} : pc'[u] = pc[u]
         /\ user' \in [Task -> [VirtualPage -> {<<>>} \cup Page]]
         /\ \A u \in Task \ {t} : user'[u] = user[u]
         /\ \A p \in VirtualPage \ {PageOf(a)} : user'[t][p] = user[t][p]
         /\ user'[t][PageOf(a)] =
              IF user[t][PageOf(a)] = <<>> THEN Zeroes(PageSize) ELSE user[t][PageOf(a)]
<1>1. /\ PageOf(a) \in VirtualPage /\ Goto(t, then)
      /\ program' = program /\ contents' = contents /\ position' = position /\ reader' = reader
      /\ header' = header /\ page' = page /\ chunk' = chunk /\ heap' = heap
      /\ allocated' = allocated /\ current' = current /\ ttbr0' = ttbr0
  BY DEF AllocPage, fileVars, loadVars, heapVars, coreVars
<1>2. pc' \in [Task -> PcValues] /\ pc'[t] = then /\ \A u \in Task \ {t} : pc'[u] = pc[u]
  BY <1>1, Moves DEF Inv
<1>3. user \in [Task -> [VirtualPage -> {<<>>} \cup Page]]
  BY DEF Inv, ValueInv
<1>4. Zeroes(PageSize) \in Page
  BY Constants DEF Zeroes, Page
<1> DEFINE q == PageOf(a)
           z == Zeroes(PageSize)
<1>5. \/ user[t][q] # <<>> /\ user' = user
      \/ user[t][q] = <<>> /\ user' = [user EXCEPT ![t][q] = z]
  BY DEF AllocPage
<1>6. q \in VirtualPage /\ z \in Page
  BY <1>1, <1>4
<1> HIDE DEF q, z
<1>7. CASE user[t][q] # <<>> /\ user' = user
  BY <1>1, <1>2, <1>3, <1>7 DEF q, z
<1>8. CASE user[t][q] = <<>> /\ user' = [user EXCEPT ![t][q] = z]
  <2>1. /\ user' \in [Task -> [VirtualPage -> {<<>>} \cup Page]]
        /\ \A u \in Task \ {t} : user'[u] = user[u]
        /\ \A p \in VirtualPage \ {q} : user'[t][p] = user[t][p]
        /\ user'[t][q] = z
    BY <1>3, <1>6, <1>8
  <2> QED BY <1>1, <1>2, <1>8, <2>1 DEF q, z
<1> QED BY <1>5, <1>7, <1>8

\* A page that is mapped for the first time has no byte of the program yet.
LEMMA PageAdded ==
  ASSUME Inv, NEW t \in Task, pc[t] \in {"alloc", "next"}, pc'[t] \in {"copy", "user"},
         program' = program, NEW q \in VirtualPage,
         \A p \in VirtualPage \ {q} : user'[t][p] = user[t][p],
         user'[t][q] = IF user[t][q] = <<>> THEN Zeroes(PageSize) ELSE user[t][q],
         \A a \in Nat : Done(t, a)' = Done(t, a),
         \A p \in VirtualPage : Mapped(t, p)' <=> Mapped(t, p) \/ p = q
  PROVE  UserInv(t)'
<1>1. UserInv(t) /\ pc[t] \in Started /\ pc'[t] \in Started /\ pc'[t] \notin Fetching
  BY DEF Inv, TaskInv, Started, Fetching
<1>2. PageSize \in Nat \ {0}
  BY Constants
<1>3. Zeroes(PageSize) # <<>> /\ \A i \in 1 .. PageSize : Zeroes(PageSize)[i] = 0
  <2>1. Zeroes(PageSize) \in Page
    BY Constants DEF Zeroes, Page
  <2> QED BY <1>2, <2>1, PageIsNotEmpty DEF Zeroes
<1>4. ASSUME NEW p \in VirtualPage PROVE user'[t][p] # <<>> <=> Mapped(t, p)'
  <2>1. user[t][p] # <<>> <=> Mapped(t, p)
    BY <1>1 DEF UserInv
  <2>2. CASE p = q
    BY <1>3, <2>2
  <2>3. CASE p # q
    BY <2>1, <2>3
  <2> QED BY <2>2, <2>3
<1>5. ASSUME NEW p \in VirtualPage, user'[t][p] # <<>>, NEW i \in 1 .. PageSize
      PROVE  IsByte(Done(t, p + i - 1), p + i - 1, user[t][p][i])'
  <2>1. p \in Nat /\ p + i - 1 \in Nat /\ p + i - 1 \in p .. p + PageSize - 1
    BY <1>2, InPage
  <2>2. Done(t, p + i - 1)' = Done(t, p + i - 1)
    BY <2>1
  <2>3. CASE user[t][p] # <<>>
    <3>1. IsByte(Done(t, p + i - 1), p + i - 1, user[t][p][i])
      BY <1>1, <2>3 DEF UserInv
    <3>2. user'[t][p] = user[t][p]
      BY <2>3
    <3> QED BY <2>2, <3>1, <3>2 DEF IsByte, SegByte
  <2>4. CASE user[t][p] = <<>>
    <3>1. ~Mapped(t, p)
      BY <1>1, <2>4 DEF UserInv
    <3>2. Done(t, p + i - 1) = {}
      BY <2>1, <3>1 DEF Mapped
    <3>3. p = q
      BY <1>5, <2>4
    <3>4. user'[t][p][i] = 0
      BY <1>3, <2>4, <3>3
    <3> QED BY <2>2, <3>2, <3>4 DEF IsByte
  <2> QED BY <2>3, <2>4
<1> QED BY <1>1, <1>4, <1>5 DEF UserInv

\* When alloc_page fails, nothing but the vector changes, which may be dropped.
LEMMA AllocPageFailsPreserves ==
  ASSUME Inv, NEW t \in Task, pc[t] \in {"alloc", "next"}, t = current, NEW a, AllocPageFails(t, a),
         \/ pc[t] = "alloc" /\ heap' = Drop(t) /\ chunk' = [chunk EXCEPT ![t] = NoChunk]
         \/ heap' = heap /\ chunk' = chunk
  PROVE  Preserves(t)
<1>0. ValueInv /\ TaskInv(t) /\ Goto(t, "err") /\ heap \in Memory
  BY DEF Inv, AllocPageFails, ValueInv
<1>1. /\ program' = program /\ contents' = contents /\ position' = position /\ reader' = reader
      /\ header' = header /\ page' = page /\ user' = user
      /\ allocated' = allocated /\ current' = current /\ ttbr0' = ttbr0
  BY DEF AllocPageFails, fileVars, coreVars
<1>2. pc' \in [Task -> PcValues] /\ pc'[t] = "err" /\ \A u \in Task \ {t} : pc'[u] = pc[u]
  BY <1>0, Moves DEF PcValues
<1>3. /\ heap' \in Memory /\ \A u \in Task \ {t} : SameBlock(u)
      /\ chunk' \in [Task -> Chunk] /\ \A u \in Task \ {t} : chunk'[u] = chunk[u]
      /\ PlaceInv(t)'
  <2>1. CASE pc[t] = "alloc" /\ heap' = Drop(t) /\ chunk' = [chunk EXCEPT ![t] = NoChunk]
    <3>1. heap' \in Memory /\ \A u \in Task \ {t} : SameBlock(u)
      BY <2>1, DropFacts DEF SameBlock, Loading
    <3>2. NoChunk \in Chunk
      BY DEF NoChunk, Chunk
    <3>3. /\ chunk' \in [Task -> Chunk] /\ chunk'[t] = NoChunk
          /\ \A u \in Task \ {t} : chunk'[u] = chunk[u]
      BY <1>0, <2>1, <3>2 DEF ValueInv
    <3>4. PlaceInv(t)'
      BY <3>3 DEF PlaceInv, NoChunk, Max
    <3> QED BY <3>1, <3>3, <3>4
  <2>2. CASE heap' = heap /\ chunk' = chunk
    BY <1>0, <2>2, HeapSame DEF TaskInv, PlaceInv, ValueInv
  <2> QED BY <2>1, <2>2
<1>4. Others(t)
  BY <1>0, <1>1, <1>2, <1>3 DEF Others, SameTask, ValueInv
<1>5. ValueInv'
  BY <1>0, <1>1, <1>2, <1>3 DEF ValueInv, PcValues
<1> QED BY <1>2, <1>3, <1>4, <1>5, Ended DEF Preserves

LEMMA AllocChunkPreserves ==
  ASSUME Inv, NEW t \in Task, AllocChunk(t)
  PROVE  Preserves(t)
<1>0. ValueInv /\ TaskInv(t) /\ pc[t] = "alloc" /\ t = current /\ pc[t] \in Loading
  BY DEF Inv, AllocChunk, At, Loading
<1> DEFINE a == chunk[t].address
           q == PageOf(a)
<1>1. CASE AllocPage(t, a, "copy")
  <2>1. "copy" \in PcValues
    BY DEF PcValues, Started
  <2>2. /\ q \in VirtualPage
        /\ program' = program /\ contents' = contents /\ position' = position /\ reader' = reader
        /\ header' = header /\ page' = page /\ chunk' = chunk /\ heap' = heap
        /\ allocated' = allocated /\ current' = current /\ ttbr0' = ttbr0
        /\ pc' \in [Task -> PcValues] /\ pc'[t] = "copy" /\ \A u \in Task \ {t} : pc'[u] = pc[u]
        /\ user' \in [Task -> [VirtualPage -> {<<>>} \cup Page]]
        /\ \A u \in Task \ {t} : user'[u] = user[u]
        /\ \A p \in VirtualPage \ {q} : user'[t][p] = user[t][p]
        /\ user'[t][q] = IF user[t][q] = <<>> THEN Zeroes(PageSize) ELSE user[t][q]
    BY <1>1, <2>1, AllocPageFacts
  <2>3. Others(t)
    BY <1>0, <2>2, HeapSame DEF Others, SameTask, ValueInv
  <2>4. ValueInv'
    BY <1>0, <2>2 DEF ValueInv, PcValues
  <2>5. OwnBlock(t)
    BY <1>0, <2>2 DEF OwnBlock
  <2>6. pc'[t] \in Loading /\ pc'[t] # "pad" /\ pc[t] # "pad" /\ Segment(t)' = Segment(t)
        /\ NextIndex(t)' = NextIndex(t) /\ Frontier(t)' = Frontier(t)
    BY <1>0, <2>2 DEF Loading, Segment, NextIndex, Frontier
  <2>7. ReaderInv(t)'
    BY <1>0, <2>2 DEF TaskInv, ReaderInv, Started
  <2>8. PlaceInv(t)'
    BY <1>0, <2>2 DEF TaskInv, PlaceInv
  <2>9. ChunkInv(t)'
    <3>1. EndOf(Segment(t), NextIndex(t))' = EndOf(Segment(t), NextIndex(t))
      BY <2>6 DEF EndOf
    <3> QED BY <1>0, <2>2, <2>6, <3>1 DEF TaskInv, ChunkInv
  <2>10. BlockInv(t)'
    BY <1>0, <2>2, <2>6 DEF TaskInv, BlockInv, SegByte
  <2>11. \A b \in Nat : Done(t, b)' = Done(t, b)
    BY <2>2, <2>6 DEF Done
  <2>12. \A p \in VirtualPage : Mapped(t, p)' <=> Mapped(t, p) \/ p = q
    <3>1. \A p \in VirtualPage : p \in Nat
      BY InPage
    <3>2. \A p \in VirtualPage : \A b \in p .. p + PageSize - 1 : Done(t, b)' = Done(t, b)
      BY <2>11, <3>1, Constants
    <3> QED BY <1>0, <2>2, <3>2 DEF Mapped
  <2>13. UserInv(t)'
    <3> HIDE DEF q
    <3> QED BY <1>0, <2>2, <2>11, <2>12, PageAdded
  <2> QED BY <2>3, <2>4, <2>5, <2>7, <2>8, <2>9, <2>10, <2>13 DEF Preserves, TaskInv
<1>2. CASE AllocPageFails(t, a) /\ heap' = Drop(t) /\ chunk' = [chunk EXCEPT ![t] = NoChunk]
  BY <1>0, <1>2, AllocPageFailsPreserves
<1> QED BY <1>1, <1>2 DEF AllocChunk

LEMMA AllocStackPreserves ==
  ASSUME Inv, NEW t \in Task, AllocStack(t)
  PROVE  Preserves(t)
<1>0. ValueInv /\ TaskInv(t) /\ pc[t] = "next" /\ t = current /\ header[t] > Len(reader[t])
  BY DEF Inv, AllocStack, At
<1> DEFINE a == STACK_INIT - PageSize
           q == PageOf(a)
<1>1. CASE AllocPage(t, a, "user")
  <2>1. "user" \in PcValues
    BY DEF PcValues, Started
  <2>2. /\ q \in VirtualPage
        /\ program' = program /\ contents' = contents /\ position' = position /\ reader' = reader
        /\ header' = header /\ page' = page /\ chunk' = chunk /\ heap' = heap
        /\ allocated' = allocated /\ current' = current /\ ttbr0' = ttbr0
        /\ pc' \in [Task -> PcValues] /\ pc'[t] = "user" /\ \A u \in Task \ {t} : pc'[u] = pc[u]
        /\ user' \in [Task -> [VirtualPage -> {<<>>} \cup Page]]
        /\ \A u \in Task \ {t} : user'[u] = user[u]
        /\ \A p \in VirtualPage \ {q} : user'[t][p] = user[t][p]
        /\ user'[t][q] = IF user[t][q] = <<>> THEN Zeroes(PageSize) ELSE user[t][q]
    BY <1>1, <2>1, AllocPageFacts
  <2>3. q = a
    <3>1. a \in VirtualPage /\ a \in Nat /\ PageSize \in Nat \ {0}
      BY StackPage, InPage, Constants
    <3>2. a <= a /\ a < a + PageSize
      BY <3>1
    <3> HIDE DEF a
    <3> QED BY <3>1, <3>2, InPage
  <2>4. Others(t)
    BY <1>0, <2>2, HeapSame DEF Others, SameTask, ValueInv
  <2>5. ValueInv'
    BY <1>0, <2>2 DEF ValueInv, PcValues
  <2>6. pc'[t] \notin Loading /\ pc[t] \notin Loading
    BY <1>0, <2>2 DEF Loading
  <2>7. OwnBlock(t) /\ ChunkInv(t)' /\ BlockInv(t)'
    BY <2>6 DEF OwnBlock, ChunkInv, BlockInv
  <2>8. PlaceInv(t)'
    BY <1>0, <2>2 DEF TaskInv, PlaceInv
  <2>9. reader[t] = program.headers /\ header[t] > Len(program.headers)
    BY <1>0 DEF TaskInv, ReaderInv, Started
  <2>10. ReaderInv(t)'
    BY <1>0, <2>2, <2>9 DEF TaskInv, ReaderInv, Started
  <2>11. Frontier(t)' = Frontier(t)
    BY <2>2, <2>6 DEF Frontier, Segment, EndOf
  <2>12. \A b \in Nat : Done(t, b)' = Done(t, b)
    BY <2>2, <2>11 DEF Done
  <2>13. \A p \in VirtualPage : Mapped(t, p)' <=> Mapped(t, p) \/ p = q
    <3>1. \A p \in VirtualPage : p \in Nat
      BY InPage
    <3>2. \A p \in VirtualPage : \A b \in p .. p + PageSize - 1 : Done(t, b)' = Done(t, b)
      BY <2>12, <3>1, Constants
    <3> QED BY <1>0, <2>2, <2>3, <3>2 DEF Mapped
  <2>14. UserInv(t)'
    <3> HIDE DEF q
    <3> QED BY <1>0, <2>2, <2>12, <2>13, PageAdded
  <2> QED BY <2>4, <2>5, <2>7, <2>8, <2>10, <2>14 DEF Preserves, TaskInv
<1>2. CASE AllocPageFails(t, a) /\ heap' = heap /\ chunk' = chunk
  BY <1>0, <1>2, AllocPageFailsPreserves
<1> QED BY <1>1, <1>2 DEF AllocStack

\* Where copy_to_user writes: to one page, which is mapped, what the file says.
LEMMA CopyPlace ==
  ASSUME Inv, NEW t \in Task, pc[t] = "copy"
  PROVE  LET c == chunk[t]
             q == PageOf(c.address)
         IN  /\ q \in VirtualPage /\ q \in Nat /\ q <= c.address /\ c.address + c.len <= q + PageSize
             /\ 1 <= c.len /\ c.len = c.memory /\ c.len \in Nat /\ c.address \in Nat
             /\ \A a \in c.address .. c.address + c.len - 1 : a \in Nat /\ PageOf(a) = q
             /\ user[t][q] # <<>>
             /\ header[t] \in 1 .. Len(program.headers) /\ Segment(t) \in ProgramHeader
             /\ Segment(t).load /\ Segment(t).virtual_address <= c.address
             /\ c.address + c.len = EndOf(Segment(t), page[t])
             /\ c.address + c.len <= Segment(t).virtual_address + Segment(t).memory_size
             /\ Bytes(t) \in Seq(Nat) /\ Len(Bytes(t)) = c.len
             /\ \A j \in 1 .. c.len : Bytes(t)[j] =
                  SegByte(Segment(t), c.address - Segment(t).virtual_address + j - 1)
<1> DEFINE c == chunk[t]
           q == PageOf(c.address)
           h == Segment(t)
<1>0. ValueInv /\ TaskInv(t) /\ pc[t] \in Loading /\ pc[t] \in Started /\ heap \in Memory
  BY DEF Inv, Loading, Started, ValueInv
<1>1. /\ c.address \in Nat /\ c.memory \in Nat /\ c.start \in Nat /\ c.capacity \in Nat /\ c.len \in Nat
      /\ page[t] \in Nat /\ header[t] \in Nat
  BY <1>0, TaskFacts, ChunkFacts
<1>2. /\ header[t] <= Len(program.headers) /\ h.load
      /\ 1 <= c.memory /\ h.virtual_address <= c.address
      /\ c.address + c.memory = EndOf(h, page[t])
      /\ c.len = c.memory /\ q \in VirtualPage
  BY <1>0 DEF TaskInv, ChunkInv, NextIndex
<1>3. header[t] \in 1 .. Len(program.headers) /\ h \in ProgramHeader
  <2>1. header[t] >= 1
    BY <1>0 DEF TaskInv, ReaderInv
  <2>2. header[t] \in 1 .. Len(program.headers)
    BY <1>0, <1>1, <1>2, <2>1, ProgramFacts
  <2> QED BY <1>0, <2>2, ProgramFacts DEF Segment
<1>4. q \in Nat /\ q <= c.address /\ c.address + c.memory - 1 < q + PageSize
  <2>1. PageOf(c.address + c.memory - 1) = q
    BY <1>0, <1>1, <1>2 DEF TaskInv, PlaceInv, Max
  <2>2. c.address + c.memory - 1 \in Nat
    BY <1>1, <1>2
  <2> HIDE DEF q
  <2> QED BY <1>1, <1>2, <2>1, <2>2, InPage DEF q
<1>5. q <= c.address /\ c.address + c.len <= q + PageSize
  BY <1>1, <1>2, <1>4, Constants
<1>6. ASSUME NEW a \in c.address .. c.address + c.len - 1 PROVE a \in Nat /\ PageOf(a) = q
  <2>1. a \in Nat /\ q <= a /\ a < q + PageSize
    BY <1>1, <1>2, <1>4, <1>5, Constants
  <2> HIDE DEF q
  <2> QED BY <1>2, <2>1, InPage
<1>7. user[t][q] # <<>>
  <2>1. Mapped(t, q)
    BY DEF Mapped
  <2> HIDE DEF q
  <2> QED BY <1>0, <1>2, <2>1 DEF TaskInv, UserInv
<1>8. c.address + c.len <= h.virtual_address + h.memory_size
  <2>1. OffsetStart(h, page[t]) \in Nat /\ h.virtual_address \in Nat /\ h.memory_size \in Nat
    BY <1>1, <1>3, OffsetFacts, HeaderFacts
  <2>2. EndOf(h, page[t]) <= h.virtual_address + h.memory_size
    BY <2>1 DEF EndOf, Min
  <2> QED BY <1>2, <2>2
<1>9. /\ Bytes(t) \in Seq(Nat) /\ Len(Bytes(t)) = c.len
      /\ \A j \in 1 .. c.len : Bytes(t)[j] = heap[c.start + j]
  <2>1. c.start + c.len <= N
    BY <1>0, <1>1, Constants DEF TaskInv, BlockInv
  <2> QED BY <1>0, <1>1, <2>1, BlockFacts DEF Bytes
<1>10. ASSUME NEW j \in 1 .. c.len
       PROVE  heap[c.start + j] = SegByte(h, c.address - h.virtual_address + j - 1)
  BY <1>0, <1>1, <1>2 DEF TaskInv, BlockInv
<1> QED BY <1>1, <1>2, <1>3, <1>4, <1>5, <1>6, <1>7, <1>8, <1>9, <1>10

\* What the pages of a task's memory are after that.
LEMMA CopyWrites ==
  ASSUME Inv, NEW t \in Task, CopyToUser(t)
  PROVE  LET c   == chunk[t]
             dst == c.address .. c.address + c.len - 1
         IN  /\ pc[t] = "copy" /\ t = current
             /\ program' = program /\ contents' = contents /\ position' = position /\ reader' = reader
             /\ header' = header /\ page' = page /\ allocated' = allocated
             /\ current' = current /\ ttbr0' = ttbr0
             /\ heap' = Drop(t) /\ chunk' = [chunk EXCEPT ![t] = NoChunk] /\ Goto(t, "next")
             /\ user' \in [Task -> [VirtualPage -> {<<>>} \cup Page]]
             /\ \A u \in Task \ {t} : user'[u] = user[u]
             /\ \A p \in VirtualPage :
                  /\ user'[t][p] = <<>> <=> user[t][p] = <<>>
                  /\ user[t][p] # <<>> => \A i \in 1 .. PageSize :
                       user'[t][p][i] = IF p + i - 1 \in dst THEN Bytes(t)[p + i - c.address]
                                                             ELSE user[t][p][i]
<1> DEFINE c   == chunk[t]
           q   == PageOf(c.address)
           dst == c.address .. c.address + c.len - 1
           new == [p \in VirtualPage |-> [i \in DOMAIN user[t][p] |->
                     IF p + i - 1 \in dst THEN Bytes(t)[p + i - c.address] ELSE user[t][p][i]]]
<1>0. ValueInv /\ pc[t] = "copy" /\ t = current /\ ttbr0 = t
  BY DEF Inv, CoreInv, CopyToUser, At
<1>1. /\ q \in VirtualPage /\ c.len \in Nat /\ c.address \in Nat /\ user[t][q] # <<>>
      /\ \A a \in dst : PageOf(a) = q
      /\ Bytes(t) \in Seq(Nat) /\ Len(Bytes(t)) = c.len
  BY <1>0, CopyPlace
<1>2. \A a \in dst : user[ttbr0][PageOf(a)] # <<>>
  BY <1>0, <1>1
<1>3. /\ user' = [user EXCEPT ![t] = new]
      /\ heap' = Drop(t) /\ chunk' = [chunk EXCEPT ![t] = NoChunk] /\ Goto(t, "next")
  <2>1. /\ user' = [user EXCEPT ![ttbr0] = [p \in VirtualPage |->
                   [i \in DOMAIN user[ttbr0][p] |->
                      IF p + i - 1 \in dst THEN Bytes(t)[p + i - c.address] ELSE user[ttbr0][p][i]]]]
        /\ heap' = Drop(t) /\ chunk' = [chunk EXCEPT ![t] = NoChunk] /\ Goto(t, "next")
    BY <1>2 DEF CopyToUser
  <2> QED BY <1>0, <2>1
<1>4. /\ program' = program /\ contents' = contents /\ position' = position /\ reader' = reader
      /\ header' = header /\ page' = page /\ allocated' = allocated
      /\ current' = current /\ ttbr0' = ttbr0
  BY DEF CopyToUser, fileVars, coreVars
<1>5. ASSUME NEW p \in VirtualPage
      PROVE  /\ new[p] \in {<<>>} \cup Page
             /\ new[p] = <<>> <=> user[t][p] = <<>>
             /\ user[t][p] # <<>> => \A i \in 1 .. PageSize :
                  new[p][i] = IF p + i - 1 \in dst THEN Bytes(t)[p + i - c.address] ELSE user[t][p][i]
  <2> DEFINE f == user[t][p]
             g == new[p]
  <2>1. g = [i \in DOMAIN f |-> IF p + i - 1 \in dst THEN Bytes(t)[p + i - c.address] ELSE f[i]]
    BY Zenon
  <2>2. f \in {<<>>} \cup Page /\ p \in Nat /\ PageSize \in Nat
    BY <1>0, TaskFacts, InPage, Constants
  <2> HIDE DEF f, g, new
  <2>3. CASE f = <<>>
    <3>1. DOMAIN f = {}
      BY <2>3, NoPage
    <3>2. DOMAIN g = {} /\ g = [i \in DOMAIN g |-> g[i]]
      BY <2>1, <3>1
    <3>3. g = <<>>
      BY <3>2, NoPage
    <3> QED BY <2>3, <3>3 DEF f, g
  <2>4. CASE f \in Page
    <3>1. DOMAIN f = 1 .. PageSize /\ \A i \in 1 .. PageSize : f[i] \in Nat
      BY <2>4 DEF Page
    <3>2. ASSUME NEW i \in 1 .. PageSize, p + i - 1 \in dst PROVE Bytes(t)[p + i - c.address] \in Nat
      <4>1. p + i - c.address \in 1 .. c.len
        BY <1>1, <2>2, <3>2
      <4> QED BY <1>1, <4>1
    <3>3. /\ \A i \in 1 .. PageSize :
               g[i] = IF p + i - 1 \in dst THEN Bytes(t)[p + i - c.address] ELSE f[i]
          /\ g = [i \in 1 .. PageSize |-> g[i]]
      BY <2>1, <3>1
    <3> HIDE DEF dst
    <3>4. \A i \in 1 .. PageSize : g[i] \in Nat
      BY <3>1, <3>2, <3>3
    <3>5. g \in Page
      BY <3>3, <3>4 DEF Page
    <3>6. g # <<>> /\ f # <<>>
      BY <2>4, <3>5, PageIsNotEmpty
    <3> QED BY <3>3, <3>5, <3>6, Zenon DEF f, g
  <2> QED BY <2>2, <2>3, <2>4
<1>6. new \in [VirtualPage -> {<<>>} \cup Page]
  <2>1. new = [p \in VirtualPage |-> new[p]]
    BY Zenon
  <2> HIDE DEF new
  <2> QED BY <1>5, <2>1
<1> HIDE DEF new, dst
<1>7. user' \in [Task -> [VirtualPage -> {<<>>} \cup Page]] /\ user'[t] = new
      /\ \A u \in Task \ {t} : user'[u] = user[u]
  BY <1>0, <1>3, <1>6 DEF ValueInv
<1>8. \A p \in VirtualPage :
        /\ user'[t][p] = <<>> <=> user[t][p] = <<>>
        /\ user[t][p] # <<>> => \A i \in 1 .. PageSize :
             user'[t][p][i] = IF p + i - 1 \in dst THEN Bytes(t)[p + i - c.address] ELSE user[t][p][i]
  BY <1>5, <1>7
<1> QED BY <1>0, <1>3, <1>4, <1>7, <1>8 DEF dst

\* The bytes that were copied are the last that came to their addresses.
LEMMA CopyToUserPreserves ==
  ASSUME Inv, NEW t \in Task, CopyToUser(t)
  PROVE  Preserves(t)
<1> DEFINE c   == chunk[t]
           q   == PageOf(c.address)
           h   == Segment(t)
           dst == c.address .. c.address + c.len - 1
<1>0. ValueInv /\ TaskInv(t)
  BY DEF Inv
<1>1. /\ pc[t] = "copy" /\ t = current
      /\ program' = program /\ contents' = contents /\ position' = position /\ reader' = reader
      /\ header' = header /\ page' = page /\ allocated' = allocated
      /\ current' = current /\ ttbr0' = ttbr0
      /\ heap' = Drop(t) /\ chunk' = [chunk EXCEPT ![t] = NoChunk] /\ Goto(t, "next")
      /\ user' \in [Task -> [VirtualPage -> {<<>>} \cup Page]]
      /\ \A u \in Task \ {t} : user'[u] = user[u]
      /\ \A p \in VirtualPage :
           /\ user'[t][p] = <<>> <=> user[t][p] = <<>>
           /\ user[t][p] # <<>> => \A i \in 1 .. PageSize :
                user'[t][p][i] = IF p + i - 1 \in dst THEN Bytes(t)[p + i - c.address] ELSE user[t][p][i]
  BY CopyWrites
<1>2. /\ q \in VirtualPage /\ q \in Nat /\ q <= c.address /\ c.address + c.len <= q + PageSize
      /\ 1 <= c.len /\ c.len = c.memory /\ c.len \in Nat /\ c.address \in Nat
      /\ \A a \in dst : a \in Nat /\ PageOf(a) = q
      /\ user[t][q] # <<>>
      /\ header[t] \in 1 .. Len(program.headers) /\ h \in ProgramHeader
      /\ h.load /\ h.virtual_address <= c.address
      /\ c.address + c.len = EndOf(h, page[t])
      /\ c.address + c.len <= h.virtual_address + h.memory_size
      /\ \A j \in 1 .. c.len : Bytes(t)[j] = SegByte(h, c.address - h.virtual_address + j - 1)
  BY <1>1, CopyPlace
<1>3. pc' \in [Task -> PcValues] /\ pc'[t] = "next" /\ \A u \in Task \ {t} : pc'[u] = pc[u]
  BY <1>0, <1>1, Moves DEF PcValues, Started
<1>4. /\ chunk' \in [Task -> Chunk] /\ chunk'[t] = NoChunk
      /\ \A u \in Task \ {t} : chunk'[u] = chunk[u]
  <2>1. NoChunk \in Chunk
    BY DEF NoChunk, Chunk
  <2> QED BY <1>0, <1>1, <2>1 DEF ValueInv
<1>5. pc[t] \in Loading /\ pc'[t] \notin Loading /\ pc[t] \in Started /\ pc'[t] \in Started
      /\ pc'[t] \notin Fetching
  BY <1>1, <1>3 DEF Loading, Started, Fetching
<1>6. heap' \in Memory /\ \A u \in Task \ {t} : SameBlock(u)
  BY <1>1, <1>5, DropFacts DEF SameBlock
<1>7. Others(t)
  BY <1>0, <1>1, <1>3, <1>4, <1>6 DEF Others, SameTask, ValueInv
<1>8. ValueInv'
  BY <1>0, <1>1, <1>3, <1>4, <1>6 DEF ValueInv, PcValues
<1>9. OwnBlock(t) /\ ChunkInv(t)' /\ BlockInv(t)'
  BY <1>5 DEF OwnBlock, ChunkInv, BlockInv
<1>10. PlaceInv(t)'
  BY <1>4 DEF PlaceInv, NoChunk, Max
<1>11. ReaderInv(t)'
  BY <1>0, <1>1, <1>3, <1>5 DEF TaskInv, ReaderInv
<1>12. Segment(t)' = h /\ h = program.headers[header[t]] /\ Frontier(t) = c.address
       /\ Frontier(t)' = c.address + c.len
  <2>1. Segment(t)' = h /\ h = program.headers[header[t]] /\ Frontier(t) = c.address
    BY <1>1, <1>5 DEF Segment, Frontier
  <2>2. Frontier(t)' = EndOf(h, page[t])
    BY <1>1, <1>5, <2>1 DEF Frontier, EndOf
  <2> QED BY <1>2, <2>1, <2>2
<1> HIDE DEF h, q, c
<1>13. header[t] \in Nat /\ Len(program.headers) \in Nat
  BY <1>0, TaskFacts, ProgramFacts
<1>14. ASSUME NEW a \in Nat, a \in dst
       PROVE  /\ Done(t, a)' = Done(t, a) \cup {header[t]}
              /\ \A m \in Done(t, a)' : m <= header[t]
  <2>1. c.address <= a /\ a < c.address + c.len
    BY <1>2, <1>14
  <2>2. h.virtual_address \in Nat /\ h.memory_size \in Nat
    BY <1>2, HeaderFacts
  <2>3. Covers(h, a)
    BY <1>2, <2>1, <2>2 DEF Covers
  <2>4. \A n : n \in Done(t, a)' <=>
          /\ n \in 1 .. Len(program.headers) /\ Covers(program.headers[n], a)
          /\ (n < header[t] \/ n = header[t])
    BY <1>1, <1>12, <2>1 DEF Done, Covers
  <2>5. \A n : n \in Done(t, a) <=>
          /\ n \in 1 .. Len(program.headers) /\ Covers(program.headers[n], a) /\ n < header[t]
    BY <1>2, <1>12, <2>1 DEF Done
  <2>6. \A n : n \in Done(t, a)' <=> n \in Done(t, a) \/ n = header[t]
    BY <1>2, <1>12, <2>3, <2>4, <2>5
  <2>7. \A m \in Done(t, a)' : m <= header[t]
    BY <1>13, <2>4
  <2> QED BY <2>6, <2>7
<1>15. ASSUME NEW a \in Nat, a \notin dst PROVE Done(t, a)' = Done(t, a)
  <2>1. a < c.address <=> a < c.address + c.len
    BY <1>2, <1>15
  <2> QED BY <1>1, <1>12, <2>1 DEF Done, Covers
<1>16. ASSUME NEW p \in VirtualPage PROVE user'[t][p] # <<>> <=> Mapped(t, p)'
  <2>0. p \in Nat /\ PageSize \in Nat \ {0}
    BY InPage, Constants
  <2>1. user[t][p] # <<>> <=> Mapped(t, p)
    BY <1>0, <1>5 DEF TaskInv, UserInv
  <2>2. Mapped(t, p) <=> p = q \/ \E a \in p .. p + PageSize - 1 : Done(t, a) # {}
    BY <1>1 DEF Mapped, q, c
  <2>3. Mapped(t, p)' <=> \E a \in p .. p + PageSize - 1 : Done(t, a)' # {}
    BY <1>3 DEF Mapped
  <2>4. ASSUME NEW a \in p .. p + PageSize - 1, Done(t, a) # {} PROVE Done(t, a)' # {}
    BY <1>14, <1>15, <2>0, <2>4
  <2>5. ASSUME NEW a \in p .. p + PageSize - 1, Done(t, a)' # {}, Done(t, a) = {} PROVE p = q
    <3>1. a \in Nat /\ a \in dst
      BY <1>15, <2>0, <2>5
    <3>2. PageOf(a) = p
      BY <2>0, <2>5, <3>1, InPage
    <3> QED BY <1>2, <3>1, <3>2
  <2>6. ASSUME p = q PROVE \E a \in p .. p + PageSize - 1 : Done(t, a)' # {}
    <3> PICK a \in Nat : a = c.address
      BY <1>2
    <3>1. a \in dst /\ a \in p .. p + PageSize - 1
      BY <1>2, <2>0, <2>6
    <3>2. header[t] \in Done(t, a)'
      BY <1>14, <3>1
    <3> QED BY <3>1, <3>2
  <2>7. (\E a \in p .. p + PageSize - 1 : Done(t, a)' # {}) <=>
          p = q \/ \E a \in p .. p + PageSize - 1 : Done(t, a) # {}
    BY <2>4, <2>5, <2>6
  <2> QED BY <1>1, <2>1, <2>2, <2>3, <2>7
<1>17. ASSUME NEW p \in VirtualPage, user'[t][p] # <<>>, NEW i \in 1 .. PageSize
       PROVE  IsByte(Done(t, p + i - 1), p + i - 1, user[t][p][i])'
  <2>0. p \in Nat /\ p + i - 1 \in Nat
    BY InPage, Constants
  <2>1. user[t][p] # <<>>
    BY <1>1, <1>17
  <2> PICK a \in Nat : a = p + i - 1
    BY <2>0
  <2>2. IsByte(Done(t, a), a, user[t][p][i])
    BY <1>0, <1>5, <2>1 DEF TaskInv, UserInv
  <2>3. CASE a \notin dst
    <3>1. user'[t][p][i] = user[t][p][i] /\ Done(t, a)' = Done(t, a)
      BY <1>1, <1>15, <2>1, <2>3
    <3> QED BY <1>1, <2>2, <3>1 DEF IsByte, SegByte
  <2>4. CASE a \in dst
    <3>1. header[t] \in Done(t, a)' /\ \A m \in Done(t, a)' : m <= header[t]
      BY <1>14, <2>4
    <3>2. user'[t][p][i] = Bytes(t)[p + i - c.address]
      BY <1>1, <2>1, <2>4
    <3> PICK j \in Int : j = p + i - c.address
      BY <1>2, <2>0
    <3>3. j \in 1 .. c.len /\ a - h.virtual_address = c.address - h.virtual_address + j - 1
      <4>1. h.virtual_address \in Nat /\ c.address \in Nat /\ c.len \in Nat
        BY <1>2, HeaderFacts
      <4>2. j = a + 1 - c.address
        BY <2>0, <4>1
      <4>3. c.address <= a /\ a < c.address + c.len
        BY <2>4, <4>1
      <4> QED BY <4>1, <4>2, <4>3
    <3>4. user'[t][p][i] = SegByte(h, a - h.virtual_address)
      BY <1>2, <3>2, <3>3
    <3>5. program' = program /\ h = program.headers[header[t]]
      BY <1>1, <1>12
    <3>6. user'[t][p][i] = SegByte(program.headers[header[t]], a - program.headers[header[t]].virtual_address)
      BY <3>4, <3>5
    <3>7. IsByte(Done(t, a), a, user[t][p][i])'
      BY <1>1, <3>1, <3>5, <3>6 DEF IsByte, SegByte
    <3> QED BY <3>7
  <2> QED BY <2>3, <2>4
<1>18. UserInv(t)'
  BY <1>5, <1>16, <1>17 DEF UserInv
<1> QED BY <1>7, <1>8, <1>9, <1>10, <1>11, <1>18 DEF Preserves, TaskInv

-------------------------------------------------------------------------------
(***************************************************************************)
(* The invariant holds.                                                    *)
(***************************************************************************)
LEMMA InstallPreserves ==
  ASSUME Inv, Install
  PROVE  Inv'
<1>0. ValueInv /\ \A t \in Task : pc[t] = "boot" /\ TaskInv(t)
  BY DEF Inv, Install
<1>1. /\ program' = program /\ position' = position /\ reader' = reader
      /\ header' = header /\ page' = page /\ chunk' = chunk /\ heap' = heap /\ allocated' = allocated
      /\ user' = user /\ current' = current /\ ttbr0' = ttbr0
  BY DEF Install, loadVars, heapVars, coreVars
<1>2. pc' = [t \in Task |-> "idle"]
  BY DEF Install
<1> DEFINE L   == program.len
           buf == [i \in 1 .. L |-> i]
<1>3. L \in Nat
  BY <1>0, ProgramFacts
<1>4. buf \in [1 .. L -> Nat] /\ Len(buf) = L /\ buf \in Seq(Nat)
  <2>1. buf \in [1 .. L -> Nat]
    OBVIOUS
  <2> QED BY <1>3, <2>1, LenOf
<1>5. contents' = buf
  <2>0. \E t \in Task : TRUE
    BY <1>0 DEF Inv, CoreInv
  <2>1. contents = <<>>
    BY <1>0, <2>0 DEF Inv, FileInv
  <2>2. contents' = WriteAt(<<>>, 0, buf)
    BY <2>1 DEF Install
  <2> DEFINE grown == IF 0 + Len(buf) > Len(<<>>) THEN Resize(<<>>, 0 + Len(buf)) ELSE <<>>
  <2>3. Len(grown) = L
    <3>1. CASE L = 0
      BY <1>4, <3>1
    <3>2. CASE L > 0
      <4>1. grown = Resize(<<>>, L)
        BY <1>3, <1>4, <3>2
      <4>2. Resize(<<>>, L) \in [1 .. L -> {0}]
        BY <1>3 DEF Resize
      <4>3. Len(Resize(<<>>, L)) = L
        BY <1>3, <4>2, LenOf
      <4> QED BY <4>1, <4>3
    <3> QED BY <1>3, <3>1, <3>2
  <2>4. WriteAt(<<>>, 0, buf) =
          [i \in 1 .. Len(grown) |-> IF i \in 0 + 1 .. 0 + Len(buf) THEN buf[i - 0] ELSE grown[i]]
    BY Zenon DEF WriteAt
  <2> HIDE DEF grown
  <2>5. contents' = [i \in 1 .. L |-> IF i \in 1 .. L THEN buf[i] ELSE grown[i]]
    BY <1>3, <1>4, <2>2, <2>3, <2>4
  <2> QED BY <1>3, <2>5
<1>6. ValueInv'
  <2>1. pc' \in [Task -> Fetching \cup Started \cup {"err", "panic"}]
    BY <1>2 DEF Fetching
  <2>2. contents' \in Seq(Nat)
    BY <1>4, <1>5
  <2> HIDE DEF buf
  <2> QED BY <1>0, <1>1, <2>1, <2>2 DEF ValueInv
<1>7. CoreInv'
  BY <1>0, <1>1, <1>2 DEF Inv, CoreInv, Exhausted
<1>8. FileInv'
  BY <1>1, <1>2, <1>5 DEF FileInv
<1>9. ASSUME NEW t \in Task PROVE TaskInv(t)' /\ pc'[t] \notin Loading
  <2>1. pc[t] = "boot" /\ pc'[t] = "idle" /\ TaskInv(t) /\ pc[t] \in Fetching
    BY <1>0, <1>2 DEF Fetching
  <2>2. pc'[t] \notin Loading \cup Started
    BY <2>1 DEF Loading, Started
  <2>3. ReaderInv(t)' /\ PlaceInv(t)'
    BY <1>1, <2>1, <2>2 DEF TaskInv, ReaderInv, PlaceInv
  <2>4. UserInv(t)'
    BY <1>1, <2>1, <2>2 DEF TaskInv, UserInv
  <2> QED BY <2>2, <2>3, <2>4 DEF TaskInv, ChunkInv, BlockInv
<1> QED BY <1>6, <1>7, <1>8, <1>9 DEF Inv, Apart

LEMMA ContextSwitchPreserves ==
  ASSUME Inv, NEW t \in Task, ContextSwitch(t)
  PROVE  Inv'
<1>0. ValueInv /\ CoreInv /\ ~Halted /\ current' = t /\ ttbr0' = t
  BY DEF Inv, ContextSwitch
<1>1. /\ program' = program /\ contents' = contents /\ pc' = pc /\ position' = position
      /\ reader' = reader /\ header' = header /\ page' = page /\ chunk' = chunk
      /\ heap' = heap /\ allocated' = allocated /\ user' = user
  BY DEF ContextSwitch, fileVars, loadVars, heapVars
<1>2. ValueInv'
  BY <1>0, <1>1 DEF ValueInv
<1>3. CoreInv'
  BY <1>0, <1>1 DEF CoreInv, Halted, Exhausted
<1>4. FileInv'
  BY <1>1 DEF Inv, FileInv
<1>5. ASSUME NEW u \in Task PROVE TaskInv(u)'
  BY <1>0, <1>1, <1>5, Bystander DEF Inv, SameTask, SameBlock, ValueInv
<1>6. \A u, w \in Task : u # w => Apart(u, w)'
  BY <1>1 DEF Inv, Apart
<1> QED BY <1>2, <1>3, <1>4, <1>5, <1>6 DEF Inv

LEMMA Frozen == Inv /\ UNCHANGED vars => Inv'
<1> SUFFICES ASSUME Inv, UNCHANGED vars PROVE Inv'
  OBVIOUS
<1>1. /\ program' = program /\ contents' = contents /\ pc' = pc /\ position' = position
      /\ reader' = reader /\ header' = header /\ page' = page /\ chunk' = chunk
      /\ heap' = heap /\ allocated' = allocated /\ user' = user /\ current' = current /\ ttbr0' = ttbr0
  BY DEF vars, fileVars, loadVars, heapVars, coreVars
<1>2. ValueInv /\ ValueInv' /\ CoreInv' /\ FileInv'
  BY <1>1 DEF Inv, ValueInv, CoreInv, FileInv, Exhausted
<1>3. ASSUME NEW u \in Task PROVE TaskInv(u)'
  BY <1>1, <1>2, <1>3, Bystander DEF Inv, SameTask, SameBlock, ValueInv
<1>4. \A u, w \in Task : u # w => Apart(u, w)'
  BY <1>1 DEF Inv, Apart
<1> QED BY <1>2, <1>3, <1>4 DEF Inv

LEMMA EveryStep ==
  ASSUME Inv, NEW t \in Task, Step(t)
  PROVE  Preserves(t)
BY OpenPreserves, ReadHeaderPreserves, ReadProgramHeaderPreserves, HeadersDonePreserves,
   NextSegmentPreserves, NextPagePreserves, PadPreserves, ReadPastEndPreserves,
   AllocChunkPreserves, CopyToUserPreserves, AllocStackPreserves DEF Step

LEMMA NextInv == Inv /\ [Next]_vars => Inv'
<1> SUFFICES ASSUME Inv, [Next]_vars PROVE Inv'
  OBVIOUS
<1>1. CASE Install
  BY <1>1, InstallPreserves
<1>2. ASSUME NEW t \in Task, Step(t) PROVE Inv'
  <2>1. Preserves(t)
    BY <1>2, EveryStep
  <2> QED BY <1>2, <2>1, StepPreserves
<1>3. ASSUME NEW t \in Task, ContextSwitch(t) PROVE Inv'
  BY <1>3, ContextSwitchPreserves
<1>4. CASE UNCHANGED vars
  BY <1>4, Frozen
<1> QED BY <1>1, <1>2, <1>3, <1>4 DEF Next

\* While tasks load programs, what each of them has read, holds in the heap and
\* has mapped is what its place in LoadablePages says, and no vector of one task
\* is in the way of another.
THEOREM InvariantHolds == Spec => []Inv
BY InitInv, NextInv, PTL DEF Spec

-------------------------------------------------------------------------------
(***************************************************************************)
(* What follows from it.                                                   *)
(***************************************************************************)
\* The loader's state keeps its types, and no chunk that LoadablePages::next
\* returns crosses a page boundary, so the one alloc_page that execute makes for
\* it maps all of it.
THEOREM TypeCorrect == Spec => []TypeOK
<1>1. Inv => TypeOK
  <2> SUFFICES ASSUME Inv PROVE TypeOK
    OBVIOUS
  <2>1. ValueInv /\ CoreInv
    BY DEF Inv
  <2>2. heap \in Seq(Nat) /\ Len(heap) = N
    BY <2>1, LenOf, Constants DEF ValueInv, Memory
  <2>3. ASSUME NEW t \in Task, NEW p \in VirtualPage PROVE Len(user[t][p]) \in {0, PageSize}
    <3>1. CASE user[t][p] = <<>>
      BY <3>1
    <3>2. CASE user[t][p] \in Page
      BY <3>2, LenOf, Constants DEF Page
    <3> QED BY <2>1, <3>1, <3>2, TaskFacts
  <2>4. \A t \in Task :
          PageOf(chunk[t].address) = PageOf(chunk[t].address + Max(chunk[t].memory, 1) - 1)
    BY DEF Inv, TaskInv, PlaceInv
  <2>5. pc \in [Task -> {"boot", "idle", "header", "headers", "next", "pad", "alloc",
                         "copy", "user", "err", "panic"}]
    <3>1. Fetching \cup Started \cup {"err", "panic"} =
            {"boot", "idle", "header", "headers", "next", "pad", "alloc", "copy", "user", "err", "panic"}
      BY DEF Fetching, Started
    <3> QED BY <2>1, <3>1 DEF ValueInv
  <2> QED BY <2>1, <2>2, <2>3, <2>4, <2>5 DEF TypeOK, ValueInv, CoreInv
<1> QED BY <1>1, InvariantHolds, PTL

\* The last of the segments that cover an address is the one that ImageByte takes.
LEMMA LastByte ==
  ASSUME ValueInv, NEW a \in Nat, NEW b,
         IsByte({n \in 1 .. Len(program.headers) : Covers(program.headers[n], a)}, a, b)
  PROVE  b = ImageByte(a)
<1> DEFINE hs == {n \in DOMAIN program.headers : Covers(program.headers[n], a)}
           w  == CHOOSE n \in hs : \A m \in hs : m <= n
<1>1. /\ DOMAIN program.headers = 1 .. Len(program.headers) /\ Len(program.headers) \in Nat
  BY ProgramFacts
<1>2. IsByte(hs, a, b) /\ hs \subseteq Nat
  BY <1>1
<1>3. ImageByte(a) = IF hs # {} THEN SegByte(program.headers[w], a - program.headers[w].virtual_address) ELSE 0
  BY DEF ImageByte, SegByte
<1> HIDE DEF hs
<1>4. CASE hs = {} /\ b = 0
  BY <1>3, <1>4
<1>5. ASSUME NEW n \in hs, \A m \in hs : m <= n,
             b = SegByte(program.headers[n], a - program.headers[n].virtual_address)
      PROVE  b = ImageByte(a)
  <2>1. w \in hs /\ \A m \in hs : m <= w
    BY <1>5
  <2>2. w \in Nat /\ n \in Nat /\ w <= n /\ n <= w
    BY <1>2, <1>5, <2>1
  <2> HIDE DEF w
  <2>3. w = n
    BY <2>2
  <2>4. hs # {}
    BY <1>5
  <2> QED BY <1>3, <1>5, <2>3, <2>4
<1> QED BY <1>2, <1>4, <1>5 DEF IsByte

\* execute enters a program only with exactly the memory that its file describes,
\* however many tasks load at the same time and wherever the timer interrupts them.
THEOREM ImageAlwaysLoaded == Spec => []ImageLoaded
<1>1. Inv => ImageLoaded
  <2> SUFFICES ASSUME Inv, NEW t \in Task, pc[t] = "user"
               PROVE  /\ \A p \in VirtualPage : user[t][p] # <<>> <=> p \in ImagePages
                      /\ \A p \in ImagePages : \A i \in 1 .. PageSize :
                           user[t][p][i] = ImageByte(p + i - 1)
    BY DEF ImageLoaded
  <2>1. ValueInv /\ UserInv(t) /\ ReaderInv(t) /\ pc[t] \in Started
    BY DEF Inv, TaskInv, Started
  <2>2. header[t] > Len(program.headers) /\ header[t] \in Nat /\ Len(program.headers) \in Nat
        /\ DOMAIN program.headers = 1 .. Len(program.headers)
    BY <2>1, TaskFacts, ProgramFacts DEF ReaderInv
  <2>3. \A a : Done(t, a) = {n \in 1 .. Len(program.headers) : Covers(program.headers[n], a)}
    BY <2>2 DEF Done
  <2>4. ASSUME NEW p \in VirtualPage PROVE user[t][p] # <<>> <=> p \in ImagePages
    <3>1. user[t][p] # <<>> <=> Mapped(t, p)
      BY <2>1 DEF UserInv
    <3>2. Mapped(t, p) <=>
            p = STACK_INIT - PageSize \/ \E a \in p .. p + PageSize - 1 : Done(t, a) # {}
      BY DEF Mapped
    <3>3. \A a : Done(t, a) # {} <=> \E n \in DOMAIN program.headers : Covers(program.headers[n], a)
      BY <2>2, <2>3
    <3> QED BY <3>1, <3>2, <3>3 DEF ImagePages
  <2>5. ASSUME NEW p \in ImagePages, NEW i \in 1 .. PageSize
        PROVE  user[t][p][i] = ImageByte(p + i - 1)
    <3>1. p \in VirtualPage
      BY StackPage DEF ImagePages
    <3>2. user[t][p] # <<>>
      BY <2>4, <3>1
    <3>3. IsByte(Done(t, p + i - 1), p + i - 1, user[t][p][i])
      BY <2>1, <3>1, <3>2 DEF UserInv
    <3>4. p + i - 1 \in Nat
      BY <3>1, InPage, Constants
    <3> QED BY <2>1, <2>3, <3>3, <3>4, LastByte
  <2> QED BY <2>4, <2>5
<1> QED BY <1>1, InvariantHolds, PTL

\* Which steps panic: those that the allocator returns a null pointer to, and a
\* read beyond the end of the file.
LEMMA WhyPanics ==
  ASSUME Inv, NEW t \in Task, Step(t), pc'[t] = "panic"
  PROVE  Exhausted(allocated') \/ ReadPastEnd(t)
<1>0. pc \in [Task -> PcValues] /\ TaskInv(t)
  BY DEF Inv, ValueInv, PcValues
<1>1. \A p : Goto(t, p) => pc'[t] = p
  BY <1>0 DEF Goto
<1>2. \A r, p : Allocates(t, r, p) => p = "panic" \/ Exhausted(allocated')
  BY <1>1 DEF Allocates
<1>3. CASE Open(t)
  BY <1>1, <1>3 DEF Open
<1>4. CASE ReadHeader(t)
  BY <1>2, <1>4 DEF ReadHeader
<1>5. CASE ReadProgramHeader(t)
  BY <1>2, <1>5 DEF ReadProgramHeader
<1>6. CASE HeadersDone(t)
  BY <1>1, <1>6 DEF HeadersDone
<1>7. CASE NextSegment(t)
  BY <1>7 DEF NextSegment, InHeaders, At
<1>8. CASE NextPage(t)
  BY <1>2, <1>8 DEF NextPage
<1>9. CASE Pad(t)
  BY <1>1, <1>2, <1>9 DEF Pad
<1>10. CASE AllocChunk(t)
  BY <1>1, <1>10 DEF AllocChunk, AllocPage, AllocPageFails
<1>11. CASE CopyToUser(t)
  <2>1. Goto(t, "next")
    BY <1>11, CopyWrites
  <2> QED BY <1>1, <2>1
<1>12. CASE AllocStack(t)
  BY <1>1, <1>12 DEF AllocStack, AllocPage, AllocPageFails
<1> QED BY <1>3, <1>4, <1>5, <1>6, <1>7, <1>8, <1>9, <1>10, <1>11, <1>12 DEF Step

\* Only a file whose headers leave it is read beyond its end.
LEMMA WellFormedReads ==
  ASSUME Inv, NEW t \in Task, ReadPastEnd(t)
  PROVE  ~WellFormed
<1> SUFFICES ASSUME WellFormed PROVE FALSE
  OBVIOUS
<1>0. ValueInv /\ ReaderInv(t)
  BY DEF Inv, TaskInv
<1>1. /\ program.program_header_offset <= program.len
      /\ \A n \in DOMAIN program.headers :
           program.headers[n].file_offset + program.headers[n].file_size <= program.len
  BY DEF WellFormed
<1>2. CASE At(t, "headers") /\ ReadPanics(position[t])
  <2>1. Len(contents) = program.len /\ program.len \in Nat /\ position[t] \in Nat
    BY <1>0, <1>2, FileIsThere, TaskFacts DEF At
  <2> QED BY <1>0, <1>1, <1>2, <2>1 DEF ReaderInv, At, ReadPanics
<1>3. CASE InHeaders(t) /\ ReadPanics(FileRange(Header(t), page[t]).start)
  <2> DEFINE h == program.headers[header[t]]
  <2>1. pc[t] = "next" /\ pc[t] \in Started /\ header[t] <= Len(reader[t])
    BY <1>3 DEF InHeaders, At, Started
  <2>2. Len(contents) = program.len /\ program.len \in Nat
    BY <2>1, FileIsThere
  <2>3. reader[t] = program.headers /\ header[t] >= 1 /\ header[t] \in Nat /\ page[t] \in Nat
    BY <1>0, <2>1, TaskFacts DEF ReaderInv
  <2>4. header[t] \in 1 .. Len(program.headers) /\ header[t] \in DOMAIN program.headers
    BY <1>0, <2>1, <2>3, ProgramFacts
  <2>5. h \in ProgramHeader /\ h.file_offset + h.file_size <= program.len /\ Header(t) = h
    BY <1>0, <1>1, <2>3, <2>4, ProgramFacts DEF Header
  <2> HIDE DEF h
  <2>6. h.file_offset \in Nat /\ h.file_size \in Nat /\ OffsetStart(h, page[t]) \in Nat
    BY <2>3, <2>5, HeaderFacts, OffsetFacts
  <2>7. FileRange(h, page[t]).start = h.file_offset + Min(OffsetStart(h, page[t]), h.file_size)
    BY DEF FileRange
  <2>8. FileRange(h, page[t]).start <= program.len /\ FileRange(h, page[t]).start \in Nat
    BY <2>2, <2>5, <2>6, <2>7 DEF Min
  <2> QED BY <1>3, <2>2, <2>5, <2>8 DEF ReadPanics
<1> QED BY <1>2, <1>3 DEF ReadPastEnd

\* Loading a file whose headers stay inside of it panics only when the heap's end
\* is reached: Tmpfs::read is never asked for a range that it cannot slice, and
\* copy_to_user never writes where nothing is mapped.
THEOREM NeverPanics == Spec => []WellFormedNeverPanics
<1>1. Init => WellFormedNeverPanics
  <2> SUFFICES ASSUME Init PROVE \A t \in Task : pc[t] # "panic"
    BY DEF WellFormedNeverPanics
  <2> QED BY DEF Init
<1>2. Inv /\ WellFormedNeverPanics /\ [Next]_vars => WellFormedNeverPanics'
  <2> SUFFICES ASSUME Inv, WellFormedNeverPanics, [Next]_vars PROVE WellFormedNeverPanics'
    OBVIOUS
  <2>1. CASE Install
    <3>1. \A t \in Task : pc'[t] = "idle"
      BY <2>1 DEF Install
    <3> QED BY <3>1 DEF WellFormedNeverPanics
  <2>2. ASSUME NEW t \in Task, Step(t) PROVE WellFormedNeverPanics'
    <3>1. Preserves(t)
      BY <2>2, EveryStep
    <3>2. /\ program' = program /\ allocated' \in Nat /\ allocated \in Nat /\ allocated <= allocated'
          /\ \A u \in Task \ {t} : pc'[u] = pc[u]
      BY <3>1 DEF Preserves, Others, SameTask, Inv, ValueInv
    <3>3. WellFormed' = WellFormed /\ (Exhausted(allocated) => Exhausted(allocated'))
      BY <3>2, Constants DEF WellFormed, Exhausted
    <3>4. pc'[t] = "panic" => ~WellFormed \/ Exhausted(allocated')
      BY <2>2, WhyPanics, WellFormedReads
    <3>5. \A u \in Task : pc'[u] = "panic" => ~WellFormed \/ Exhausted(allocated')
      BY <3>2, <3>3, <3>4 DEF WellFormedNeverPanics
    <3> QED BY <3>3, <3>5 DEF WellFormedNeverPanics, Exhausted
  <2>3. ASSUME NEW t \in Task, ContextSwitch(t) PROVE WellFormedNeverPanics'
    BY <2>3 DEF WellFormedNeverPanics, WellFormed, Exhausted, ContextSwitch, fileVars, heapVars
  <2>4. CASE UNCHANGED vars
    BY <2>4 DEF WellFormedNeverPanics, WellFormed, Exhausted, vars, fileVars, heapVars
  <2> QED BY <2>1, <2>2, <2>3, <2>4 DEF Next
<1> QED BY <1>1, <1>2, InvariantHolds, PTL DEF Spec
===============================================================================
