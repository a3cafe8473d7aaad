---------------------------- MODULE MCBufferCache ----------------------------
(***************************************************************************)
(* The buffer cache with the code's budget of two blocks, on two stores of *)
(* two blocks: four blocks compete for two entries.                        *)
(***************************************************************************)
EXTENDS BufferCache
==============================================================================
