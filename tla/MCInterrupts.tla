----------------------------- MODULE MCInterrupts -----------------------------
(* Interrupts, with the scheduler it extends, for TLC: the ring size and    *)
(* what the processes do are in the configs.                                *)
EXTENDS Interrupts
=============================================================================
