------------------------------- MODULE AddressMap -----------------------------
(***************************************************************************)
(* What the memory contexts promise: every address space is a partial map  *)
(* from virtual to physical pages that only grows, and no physical page is *)
(* in two places.                                                          *)
(***************************************************************************)
CONSTANTS Context, VirtualPage, PhysicalPage

VARIABLE map   \* what a virtual page is mapped to: no page, or one

Init == map = [c \in Context |-> [v \in VirtualPage |-> {}]]

Mapped == UNION {map[c][v] : c \in Context, v \in VirtualPage}

\* A virtual page of an address space gets a physical page that is new.
MapPage(c, v) ==
  /\ map[c][v] = {}
  /\ \E p \in map'[c][v] :
       p \in PhysicalPage \ Mapped /\ map' = [map EXCEPT ![c][v] = {p}]

Next == \E c \in Context, v \in VirtualPage : MapPage(c, v)

Spec == Init /\ [][Next]_map
===============================================================================
