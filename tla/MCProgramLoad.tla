----------------------------- MODULE MCProgramLoad ----------------------------
(***************************************************************************)
(* TLC instance of ProgramLoad: pages of three bytes and a file of a two-  *)
(* byte header, one byte per program header, and data.  One segment of     *)
(* every place and size in a range, pairs of segments that share a page,   *)
(* abut, overlap or lie apart, one that leaves the user addresses, and     *)
(* files that are foreign, cut short or point beyond their end.            *)
(***************************************************************************)
EXTENDS ProgramLoad

CONSTANTS t1, t2

Segment(load, offset, address, file, memory) ==
  [load |-> load, file_offset |-> offset, virtual_address |-> address,
   file_size |-> file, memory_size |-> memory]

File(len, valid, offset, headers) ==
  [len |-> len, valid |-> valid, program_header_offset |-> offset, headers |-> headers]

Single == {Segment(TRUE, offset, address, file, memory) :
             offset \in {3}, address \in 3 .. 5, file \in {0, 1, 4}, memory \in {0, 2, 6}}

A == Segment(TRUE, 4, 0, 2, 2)
B == Segment(TRUE, 6, 2, 2, 4)
C == Segment(TRUE, 5, 4, 3, 3)
D == Segment(FALSE, 4, 0, 3, 3)
E == Segment(TRUE, 4, 16, 1, 3)

Pairs == {<<A, B>>, <<B, A>>, <<B, C>>, <<A, C>>, <<D, A>>}

MCPrograms ==
  {File(7, TRUE, 2, <<h>>) : h \in Single} \cup
  {File(8, TRUE, 2, hs) : hs \in Pairs} \cup
  {File(8, TRUE, 2, <<E>>), File(1, TRUE, 2, <<>>), File(10, FALSE, 2, <<>>), File(2, TRUE, 2, <<Segment(TRUE, 0, 0, 1, 1)>>),
   File(4, TRUE, 5, <<Segment(TRUE, 0, 0, 1, 1)>>), File(4, TRUE, 5, <<>>),
   File(4, TRUE, 2, <<Segment(TRUE, 3, 0, 4, 4)>>), File(4, TRUE, 2, <<Segment(TRUE, 5, 0, 0, 1)>>)}
===============================================================================
