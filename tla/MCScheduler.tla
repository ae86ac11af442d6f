------------------------------ MODULE MCScheduler -----------------------------
(* TLC instances of Scheduler: three tasks, as kernel_init creates them     *)
(* (kinit and two kthreads).                                                *)
EXTENDS Scheduler
===============================================================================
