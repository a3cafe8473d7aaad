---------------------------- MODULE SectorStore ----------------------------
(***************************************************************************)
(* What a block store promises to the buffer cache: one sector request at  *)
(* a time; a read that succeeds returns what the disk holds, a write that  *)
(* succeeds is on the disk, and nothing else is written.  A request that   *)
(* fails may leave its drive in the middle of it; until the drive is done, *)
(* nothing is promised about that drive.                                   *)
(***************************************************************************)
EXTENDS Integers

CONSTANTS Drive, Sector, Data

VARIABLES
    disk,   \* [Drive -> [Sector -> Data]]
    req,    \* the request in progress, op "none" when there is none
    done,   \* the data and the success of the last answer
    stray   \* the drives still in the middle of a request given up

None == [op |-> "none", d |-> 0, at |-> 0, x |-> 0]

Init ==
    /\ disk \in [Drive -> [Sector -> Data]]
    /\ req = None
    /\ done = [x |-> 0, ok |-> FALSE]
    /\ stray = {}

Begin ==
    /\ req = None
    /\ \E op \in {"rd", "wr"}, d \in Drive, s \in Sector, x \in Data :
            req' = [op |-> op, d |-> d, at |-> s, x |-> x]
    /\ UNCHANGED <<disk, done>>
    /\ stray' \subseteq stray

\* A write reaches the disk: the one in progress, or one that was given up.
Save ==
    /\ \/ req.op = "wr" /\ disk' = [disk EXCEPT ![req.d][req.at] = req.x]
       \/ \E d \in stray, s \in Sector, x \in Data : disk' = [disk EXCEPT ![d][s] = x]
    /\ stray' \subseteq stray
    /\ UNCHANGED <<req, done>>

\* A drive that was given up comes to rest.
Settle ==
    /\ stray' \subseteq stray
    /\ UNCHANGED <<disk, req, done>>

Answer ==
    /\ req # None
    /\ \E x \in Data, ok \in BOOLEAN :
        /\ done' = [x |-> x, ok |-> ok]
        /\ ok /\ req.d \notin stray =>
                disk[req.d][req.at] = IF req.op = "rd" THEN x ELSE req.x
        /\ stray' \subseteq stray \cup (IF ok THEN {} ELSE {req.d})
    /\ req' = None
    /\ UNCHANGED disk

Next == Begin \/ Save \/ Settle \/ Answer

vars == <<disk, req, done, stray>>

Spec == Init /\ [][Next]_vars
=============================================================================
