---------------------------- MODULE MCPageAllocator ---------------------------
(***************************************************************************)
(* TLC instances of PageAllocator: two threads, pages of three bytes, a    *)
(* memory of three pages and a bit, and every layout of at most two        *)
(* reserved ranges (as kernel_init passes), one of which may lie inside a  *)
(* page, cover several, straddle two or reach beyond the end of memory.    *)
(***************************************************************************)
EXTENDS PageAllocator

CONSTANTS t1, t2

MCThread == {t1, t2}
MCRange  == {r \in [start : 0 .. 9, end : 1 .. 11] : r.start < r.end}
MCLayout == {{q, r} : q, r \in MCRange}
===============================================================================
