--------------------------- MODULE MCFrameAllocator ---------------------------
(* Small machines for FrameAllocator.                                      *)
EXTENDS FrameInvariant

Entry(base, length, usable) == [base |-> base, length |-> length, usable |-> usable]

(* A lone frame, a reserved hole, then adjacent usable regions: runs of     *)
(* free frames come before, after and across a gap.  An int counts two      *)
(* pages here: of the last two entries it leaves the first frame, and none. *)
MCMemMap ==
  <<Entry(1, 1, TRUE), Entry(2, 1, FALSE), Entry(3, 2, TRUE),
    Entry(5, 5, TRUE), Entry(10, 3, TRUE)>>
=============================================================================
