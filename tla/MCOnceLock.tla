------------------------------- MODULE MCOnceLock -----------------------------
(* The TLC instance of OnceLock: two threads race, with two values to store. *)
EXTENDS OnceLock

CONSTANTS t1, t2, v1, v2

MCThread == {t1, t2}
MCValue  == {v1, v2}
===============================================================================
