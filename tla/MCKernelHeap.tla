------------------------------ MODULE MCKernelHeap ------------------------------
(* KernelHeap for TLC: heap size and clients are in the configs.           *)
EXTENDS KernelHeap
=============================================================================
