---------------------------------- MODULE Heap --------------------------------
(***************************************************************************)
(* The kernel's heap: N bytes that are handed out in ascending order and   *)
(* never taken back.  The heap is a sequence of bytes and allocated is how *)
(* many of them are spoken for.                                            *)
(***************************************************************************)
EXTENDS Integers, Sequences

CONSTANTS
  N,            \* bytes in the heap
  HEAP_START    \* the address of its first byte

ASSUME HeapAssumption == N \in Nat /\ HEAP_START \in Nat

\* pointer.align_offset: how far it is to the next multiple of align.
AlignOffset(ptr, align) == (align - (ptr % align)) % align

\* Where alloc() places a block when so many bytes are spoken for.
BlockStart(allocated, align) == allocated + AlignOffset(HEAP_START + allocated, align)

\* Mutant of Reserved: the size of the block is not reserved.
ReservedAlignmentOnly(allocated, align, size) == BlockStart(allocated, align)

\* How many are then, whether or not the block fits.
Reserved(allocated, align, size) == BlockStart(allocated, align) + size

\* alloc() returns a null pointer.
Exhausted(allocated) == allocated > N

\* The bytes of a block, and the heap after the block's owner has written them.
Block(heap, start, len) == SubSeq(heap, start + 1, start + len)
Fill(heap, start, bytes) ==
  [i \in 1 .. N |-> IF i \in start + 1 .. start + Len(bytes) THEN bytes[i - start] ELSE heap[i]]

\* dealloc() clears the block.
Dealloc(heap, start, len) == Fill(heap, start, [i \in 1 .. len |-> 0])
===============================================================================
