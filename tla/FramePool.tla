------------------------------ MODULE FramePool ------------------------------
(***************************************************************************)
(* What the page frame allocator promises, with no list in sight: a set of *)
(* free frames, the frames its clients hold, and the outcome of the last   *)
(* allocation.  A frame is its page number; 0 is the NULL pointer.         *)
(***************************************************************************)
EXTENDS Integers

CONSTANTS Frame,     \* page numbers that can be frames
          Requests   \* run lengths that clients ask for

VARIABLES free,      \* frames the pool can hand out
          held,      \* frames handed out and not given back
          result     \* [n, ret] of the last allocation that returned

poolVars == <<free, held, result>>

Run(s, n) == s .. (s + n - 1)

(* s starts a run of n free frames. A run of no frames never counts.       *)
StartsRun(s, n) == n > 0 /\ s \in free /\ Run(s, n) \subseteq free

PoolInit == free = {} /\ held = {} /\ result = [n |-> 0, ret |-> 0]

(* The boot code puts a new frame in the pool.                             *)
Donate(f) ==
  /\ f \notin free \cup held
  /\ free' = free \cup {f}
  /\ UNCHANGED <<held, result>>

(* The lowest run that is long enough leaves the pool as a whole.          *)
Grant(n, s) ==
  /\ StartsRun(s, n)
  /\ \A t \in free : StartsRun(t, n) => s <= t
  /\ free' = free \ Run(s, n)
  /\ held' = held \cup Run(s, n)
  /\ result' = [n |-> n, ret |-> s]

(* NULL is the answer only when there is no such run.                      *)
Refuse(n) ==
  /\ \A s \in free : ~StartsRun(s, n)
  /\ result' = [n |-> n, ret |-> 0]
  /\ UNCHANGED <<free, held>>

Release(f) ==
  /\ f \in held
  /\ free' = free \cup {f}
  /\ held' = held \ {f}
  /\ UNCHANGED result

(* pfalloc_one asks for a run of one.                                      *)
PoolNext ==
  \/ \E f \in Frame : Donate(f) \/ Release(f)
  \/ \E n \in Requests \cup {1} : Refuse(n) \/ \E s \in Frame : Grant(n, s)

PoolSpec == PoolInit /\ [][PoolNext]_poolVars
=============================================================================
