---------------------------- MODULE MCMemoryContext ---------------------------
(***************************************************************************)
(* TLC instance of MemoryContext: tables of three rows and pages of two    *)
(* bytes, so that a user address space has 81 pages and the kernel's map   *)
(* 27.  Two addresses share the level 2 table but not the level 3 table,   *)
(* and one lies outside of the address space.  Beside the kernel's own     *)
(* tables there are seven pages: enough for one context to map one address *)
(* and for a second call, or another context, to give up at every level.   *)
(***************************************************************************)
EXTENDS MemoryContext, TLC

CONSTANTS t1, t2, c1, c2

Symmetry  == Permutations({t1, t2}) \cup Permutations({c1, c2})
MCAddress == {2, 17, VA_SIZE}
===============================================================================
