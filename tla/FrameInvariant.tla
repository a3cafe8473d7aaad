---------------------------- MODULE FrameInvariant ----------------------------
(***************************************************************************)
(* The inductive invariant of FrameAllocator: ListExact and NoDoubleOwner  *)
(* say what holds between calls and inside them; the conjuncts below say,  *)
(* for each loop of phys.c, what is known at the head of the loop.         *)
(***************************************************************************)
EXTENDS FrameAllocator

Inserting == pc \in {"insert", "walk"}
Pending   == IF Inserting THEN {to_ins} ELSE {}

(* The loop that is running, or waiting for frame_insert to return.        *)
Booting == pc = "boot" \/ (Inserting /\ caller = "boot")
Freeing == pc = "free" \/ (Inserting /\ caller = "free")

(* x64_init_physical_memory: what is still to come lies below every frame  *)
(* that was already inserted.                                              *)
BootInv ==
  Booting =>
    /\ owned = {}
    /\ byte >= 0 => ent > 0 /\ MemMap[ent].usable /\ byte < MemMap[ent].length
    /\ \A f \in pool \cup Pending, j \in 1 .. ent :
         MemMap[j].usable =>
           /\ j < ent => MemMap[j].base + MemMap[j].length <= f
           /\ j = ent => MemMap[j].base + byte < f

(* frame_insert: the frame is a new one, or comes from the client.         *)
InsertInv ==
  Inserting =>
    /\ to_ins \in Frame /\ to_ins \notin pool
    /\ caller # "boot" => to_ins \in owned

(* The search in frame_insert: last and curr are neighbours in the list,   *)
(* and the frame belongs after last.                                       *)
WalkInv ==
  pc = "walk" =>
    /\ curr \in pool
    /\ last = NULL => \A g \in pool : curr <= g
    /\ last # NULL => /\ last \in pool /\ last < curr /\ last < to_ins
                      /\ \A g \in pool : g <= last \/ curr <= g

(* pffree_consecutive: the frames still to be freed are the client's.      *)
FreeInv ==
  Freeing => \A i \in b .. cnt - 1 : first + i \in owned \ Pending

(* pfalloc_consecutive: set_start .. set_start+so_far-1 are free, too few, *)
(* and end just before curr; no long enough run starts lower.              *)
LastOfRun == set_start + so_far - 1
ScanInv ==
  pc = "scan" =>
    /\ n \in Requests /\ n # 1
    /\ so_far >= 1 /\ (n = 0 \/ so_far < n)
    /\ set_start \in pool /\ Run(set_start, so_far) \subseteq pool
    /\ curr = next[LastOfRun]
    /\ \A t \in pool : t < set_start /\ n > 0 => ~(Run(t, n) \subseteq pool)

(* The inductive invariant: the list is exact at every step of every loop, *)
(* also in the middle of an insertion or a search, and each loop knows     *)
(* where it is (its own conjunct below).                                   *)
IInv ==
  /\ TypeOK /\ ListExact /\ NoDoubleOwner
  /\ BootInv /\ InsertInv /\ WalkInv /\ FreeInv /\ ScanInv
=============================================================================
