----------------------------- MODULE MCKernelLocks ----------------------------
(* TLC instances of KernelLocks: kinit and the two kthreads of kernel_init.  *)
EXTENDS KernelLocks

MCKthreads == <<"k1", "k2">>
===============================================================================
