---------------------------- MODULE FrameAllocator ----------------------------
(***************************************************************************)
(* The page frame allocator (kernel/src/arch/x64/memory/phys.c).           *)
(*                                                                         *)
(* Free frames form a doubly linked list in ascending order of address.    *)
(* The links are stored in the free frames themselves, so a client that    *)
(* owns a frame overwrites them.  Addresses are page numbers: 0 is NULL,   *)
(* Junk is whatever a frame holds that the allocator did not write.  Every *)
(* iteration of a loop of the code is a step of its own.                   *)
(***************************************************************************)
EXTENDS Integers, Sequences, FiniteSets

CONSTANTS
  N,          \* highest page number of the machine
  MemMap,     \* the boot loader's map: <<[base, length, usable], ...>> in pages
  IntPages,   \* pages that fit below INT_MAX (2^19 for a 32 bit int)
  Requests    \* values of n that clients pass

NULL == 0
Junk == -1
Frame == 1 .. N

ASSUME NAssumption == N \in Nat
ASSUME IntAssumption == IntPages \in Nat \ {0}
ASSUME RequestsAssumption == Requests \subseteq Nat
(* The boot protocol: usable entries are in range and do not overlap.      *)
ASSUME MemMapAssumption ==
  /\ MemMap \in Seq([base : Nat \ {0}, length : Nat, usable : BOOLEAN])
  /\ \A i \in 1 .. Len(MemMap) :
       MemMap[i].usable => MemMap[i].base + MemMap[i].length - 1 <= N
  /\ \A i, j \in 1 .. Len(MemMap) :
       /\ MemMap[i].usable /\ MemMap[j].usable /\ i < j
       => MemMap[i].base + MemMap[i].length <= MemMap[j].base

VARIABLES
  frame_list, free_frames,   \* the statics of phys.c
  next, prev,                \* struct frame_marker at the start of each frame
  pc,                        \* which loop is running; "idle" between calls
  ent, byte,                 \* x64_init_physical_memory: entry, page offset
  first, b, cnt,             \* pffree_consecutive: pf_first, b, n
  to_ins, curr, last,        \* frame_insert: to_ins, curr, and its local prev
  caller,                    \* the loop that called frame_insert
  set_start, so_far, n,      \* pfalloc_consecutive
  result,                    \* argument and value of the last allocation
  pool, owned                \* history: frames put in the list, frames handed out

listVars == <<frame_list, free_frames, next, prev>>
bootVars == <<ent, byte>>
freeVars == <<first, b, cnt>>
insVars  == <<to_ins, curr, last, caller>>
scanVars == <<set_start, so_far, n>>
ghosts   == <<pool, owned>>
vars == <<listVars, pc, bootVars, freeVars, insVars, scanVars, result, ghosts>>

(* `int byte = ent->length - ARCH_PAGE_SIZE`: the 64 bit length is cut to  *)
(* an int, so a long entry starts at a wrong, possibly negative, offset.   *)
ToInt(pages) == ((pages + IntPages) % (2 * IntPages)) - IntPages

(* Faulty variant: the first entry is left out.                            *)
FirstByteSkipsFirst(i) == IF i > 1 /\ MemMap[i].usable THEN ToInt(MemMap[i].length - 1) ELSE -1

FirstByte(i) == IF i > 0 /\ MemMap[i].usable THEN ToInt(MemMap[i].length - 1) ELSE -1

Init ==
  /\ frame_list = NULL /\ free_frames = 0
  /\ next = [f \in Frame |-> Junk] /\ prev = [f \in Frame |-> Junk]
  /\ pc = "boot"
  /\ ent = Len(MemMap) /\ byte = FirstByte(Len(MemMap))
  /\ first = NULL /\ b = 0 /\ cnt = 0
  /\ to_ins = NULL /\ curr = NULL /\ last = NULL /\ caller = "boot"
  /\ set_start = NULL /\ so_far = 0 /\ n = 0
  /\ result = [n |-> 0, ret |-> NULL]
  /\ pool = {} /\ owned = {}

-----------------------------------------------------------------------------
(* x64_init_physical_memory: entries and frames from high to low.          *)

CallInsert(f, from) ==
  /\ to_ins' = f /\ caller' = from
  /\ pc' = "insert"
  /\ UNCHANGED <<curr, last>>

BootFrame ==
  /\ pc = "boot" /\ byte >= 0
  /\ CallInsert(MemMap[ent].base + byte, "boot")
  /\ byte' = byte - 1
  /\ UNCHANGED <<listVars, ent, freeVars, scanVars, result, ghosts>>

BootEntry ==
  /\ pc = "boot" /\ byte < 0 /\ ent > 0
  /\ ent' = ent - 1
  /\ byte' = FirstByte(ent - 1)
  /\ UNCHANGED <<listVars, pc, freeVars, insVars, scanVars, result, ghosts>>

BootDone ==
  /\ pc = "boot" /\ byte < 0 /\ ent = 0
  /\ pc' = "idle"
  /\ UNCHANGED <<listVars, bootVars, freeVars, insVars, scanVars, result, ghosts>>

-----------------------------------------------------------------------------
(* frame_insert.                                                           *)

InsertedNoCount ==   \* faulty variant: free_frames is not counted up
  /\ pc' = caller
  /\ pool' = pool \cup {to_ins}
  /\ owned' = owned \ {to_ins}
  /\ to_ins' = NULL /\ curr' = NULL /\ last' = NULL /\ caller' = "idle"
  /\ UNCHANGED <<free_frames, bootVars, freeVars, scanVars, result>>

Inserted ==   \* what every return of frame_insert does; its locals are gone
  /\ free_frames' = free_frames + 1
  /\ pc' = caller
  /\ pool' = pool \cup {to_ins}
  /\ owned' = owned \ {to_ins}
  /\ to_ins' = NULL /\ curr' = NULL /\ last' = NULL /\ caller' = "idle"
  /\ UNCHANGED <<bootVars, freeVars, scanVars, result>>

InsertEmpty ==
  /\ pc = "insert" /\ frame_list = NULL
  /\ next' = [next EXCEPT ![to_ins] = NULL]
  /\ prev' = [prev EXCEPT ![to_ins] = NULL]
  /\ frame_list' = to_ins
  /\ Inserted

InsertWalk ==
  /\ pc = "insert" /\ frame_list # NULL
  /\ curr' = frame_list /\ last' = NULL
  /\ pc' = "walk"
  /\ UNCHANGED <<listVars, bootVars, freeVars, to_ins, caller, scanVars, result, ghosts>>

InsertBeforeOneWay ==   \* faulty variant: curr->prev is not set
  /\ pc = "walk" /\ to_ins < curr
  /\ prev' = [prev EXCEPT ![to_ins] = last]
  /\ IF last # NULL
       THEN /\ next' = [next EXCEPT ![to_ins] = curr, ![last] = to_ins]
            /\ UNCHANGED frame_list
       ELSE /\ next' = [next EXCEPT ![to_ins] = curr]
            /\ frame_list' = to_ins
  /\ Inserted

InsertBefore ==
  /\ pc = "walk" /\ to_ins < curr
  /\ prev' = [prev EXCEPT ![curr] = to_ins, ![to_ins] = last]
  /\ IF last # NULL
       THEN /\ next' = [next EXCEPT ![to_ins] = curr, ![last] = to_ins]
            /\ UNCHANGED frame_list
       ELSE /\ next' = [next EXCEPT ![to_ins] = curr]
            /\ frame_list' = to_ins
  /\ Inserted

InsertAtEnd ==
  /\ pc = "walk" /\ to_ins >= curr /\ next[curr] = NULL
  /\ next' = [next EXCEPT ![curr] = to_ins, ![to_ins] = NULL]
  /\ prev' = [prev EXCEPT ![to_ins] = curr]
  /\ UNCHANGED frame_list
  /\ Inserted

WalkOnInPlace ==   \* faulty variant: the cursor does not move
  /\ pc = "walk" /\ to_ins >= curr /\ next[curr] # NULL
  /\ last' = curr
  /\ UNCHANGED <<listVars, pc, bootVars, freeVars, to_ins, curr, caller, scanVars, result, ghosts>>

WalkOn ==   \* the loop never runs off the list, so the KPANIC after it is dead code
  /\ pc = "walk" /\ to_ins >= curr /\ next[curr] # NULL
  /\ last' = curr /\ curr' = next[curr]
  /\ UNCHANGED <<listVars, pc, bootVars, freeVars, to_ins, caller, scanVars, result, ghosts>>

-----------------------------------------------------------------------------
(* Allocation.                                                             *)

Run(s, k) == s .. (s + k - 1)

Return(k, r) ==   \* the locals of the scan are gone
  /\ result' = [n |-> k, ret |-> r]
  /\ pc' = "idle"
  /\ curr' = NULL /\ set_start' = NULL /\ so_far' = 0 /\ n' = 0

PopHead ==   \* the body of pfalloc_one
  IF frame_list = NULL
    THEN Return(1, NULL) /\ UNCHANGED <<listVars, ghosts>>
    ELSE /\ Return(1, frame_list)
         /\ prev' = IF next[frame_list] # NULL
                      THEN [prev EXCEPT ![next[frame_list]] = NULL] ELSE prev
         /\ frame_list' = next[frame_list]
         /\ free_frames' = free_frames - 1
         /\ pool' = pool \ {frame_list}
         /\ owned' = owned \cup {frame_list}
         /\ UNCHANGED next

PfallocOne ==
  /\ pc = "idle"
  /\ PopHead
  /\ UNCHANGED <<bootVars, freeVars, to_ins, last, caller>>

PfallocConsecutive(k) ==
  /\ pc = "idle"
  /\ IF frame_list = NULL
       THEN Return(k, NULL) /\ UNCHANGED <<listVars, ghosts>>
       ELSE IF k = 1
         THEN PopHead
         ELSE /\ pc' = "scan"
              /\ set_start' = frame_list /\ so_far' = 1 /\ n' = k
              /\ curr' = next[frame_list]
              /\ UNCHANGED <<listVars, result, ghosts>>
  /\ UNCHANGED <<bootVars, freeVars, to_ins, last, caller>>

AdjacentUntested == curr > prev[curr]   \* faulty variant: any next frame will do

Adjacent == curr = prev[curr] + 1

ScanExtend ==   \* the run grows but is not long enough yet
  /\ pc = "scan" /\ curr # NULL /\ Adjacent /\ so_far + 1 # n
  /\ so_far' = so_far + 1
  /\ curr' = next[curr]
  /\ UNCHANGED <<listVars, pc, bootVars, freeVars, to_ins, last, caller,
                 set_start, n, result, ghosts>>

(* Faulty variants: the new run counts as two; its start is not recorded.  *)
ScanRestartAtTwo ==
  /\ pc = "scan" /\ curr # NULL /\ ~Adjacent
  /\ set_start' = curr /\ so_far' = 2
  /\ curr' = next[curr]
  /\ UNCHANGED <<listVars, pc, bootVars, freeVars, to_ins, last, caller, n, result, ghosts>>

ScanRestart ==  \* a gap: the run starts again at curr
  /\ pc = "scan" /\ curr # NULL /\ ~Adjacent
  /\ set_start' = curr /\ so_far' = 1
  /\ curr' = next[curr]
  /\ UNCHANGED <<listVars, pc, bootVars, freeVars, to_ins, last, caller, n, result, ghosts>>

ScanFound ==    \* cut set_start .. curr out of the list; the caller gets n frames
  /\ pc = "scan" /\ curr # NULL /\ Adjacent /\ so_far + 1 = n
  /\ IF prev[set_start] # NULL
       THEN /\ next' = [next EXCEPT ![prev[set_start]] = next[curr]]
            /\ UNCHANGED frame_list
       ELSE frame_list' = next[curr] /\ UNCHANGED next
  /\ prev' = IF next[curr] # NULL
               THEN [prev EXCEPT ![next[curr]] = prev[set_start]] ELSE prev
  /\ free_frames' = free_frames - n
  /\ pool' = pool \ (set_start .. curr)
  /\ owned' = owned \cup Run(set_start, n)
  /\ Return(n, set_start)
  /\ UNCHANGED <<bootVars, freeVars, to_ins, last, caller>>

ScanFail ==
  /\ pc = "scan" /\ curr = NULL
  /\ Return(n, NULL)
  /\ UNCHANGED <<listVars, bootVars, freeVars, to_ins, last, caller, ghosts>>

-----------------------------------------------------------------------------
(* Freeing. A client frees only frames it owns.                            *)

PffreeOne(f) ==
  /\ pc = "idle" /\ f \in owned
  /\ CallInsert(f, "idle")
  /\ UNCHANGED <<listVars, bootVars, freeVars, scanVars, result, ghosts>>

PffreeConsecutive(f, k) ==
  /\ pc = "idle" /\ f \in owned /\ Run(f, k) \subseteq owned
  /\ pc' = "free" /\ first' = f /\ cnt' = k /\ b' = 0
  /\ UNCHANGED <<listVars, bootVars, insVars, scanVars, result, ghosts>>

FreeNext ==
  /\ pc = "free" /\ b < cnt
  /\ CallInsert(first + b, "free")
  /\ b' = b + 1
  /\ UNCHANGED <<listVars, bootVars, first, cnt, scanVars, result, ghosts>>

FreeDone ==
  /\ pc = "free" /\ b >= cnt
  /\ pc' = "idle" /\ first' = NULL /\ b' = 0 /\ cnt' = 0
  /\ UNCHANGED <<listVars, bootVars, insVars, scanVars, result, ghosts>>

(* The owner of a frame writes to it, over the stale frame_marker.         *)
ClientWrite(f) ==
  /\ pc = "idle" /\ f \in owned
  /\ next' = [next EXCEPT ![f] = Junk]
  /\ prev' = [prev EXCEPT ![f] = Junk]
  /\ UNCHANGED <<frame_list, free_frames, pc, bootVars, freeVars, insVars, scanVars,
                 result, ghosts>>

-----------------------------------------------------------------------------
Boot   == BootFrame \/ BootEntry \/ BootDone
Insert == InsertEmpty \/ InsertWalk \/ InsertBefore \/ InsertAtEnd \/ WalkOn
Scan   == ScanExtend \/ ScanRestart \/ ScanFound \/ ScanFail
Free   == FreeNext \/ FreeDone
Running == Boot \/ Insert \/ Scan \/ Free    \* the kernel is inside a call

Call ==
  \/ PfallocOne
  \/ \E k \in Requests : PfallocConsecutive(k)
  \/ \E f \in Frame : PffreeOne(f) \/ ClientWrite(f)
  \/ \E f \in Frame, k \in Requests : PffreeConsecutive(f, k)

Next == Running \/ Call

Spec == Init /\ [][Next]_vars

(* A call that has begun goes on: the kernel runs it with nothing else to  *)
(* do.  Clients need not call.                                             *)
FairSpec == Spec /\ WF_vars(Running)

-----------------------------------------------------------------------------
(* Type invariant: links, cursors and counters have the values their C     *)
(* types allow, and every pointer the code follows is a frame or NULL.     *)
TypeOK ==
  /\ frame_list \in Frame \cup {NULL} /\ free_frames \in Int
  /\ next \in [Frame -> Frame \cup {NULL, Junk}]
  /\ prev \in [Frame -> Frame \cup {NULL, Junk}]
  /\ pc \in {"boot", "idle", "insert", "walk", "scan", "free"}
  /\ ent \in 0 .. Len(MemMap) /\ byte \in Int
  /\ first \in Frame \cup {NULL} /\ b \in Nat /\ cnt \in Nat
  /\ to_ins \in Frame \cup {NULL} /\ caller \in {"boot", "idle", "free"}
  /\ curr \in Frame \cup {NULL} /\ last \in Frame \cup {NULL}
  /\ set_start \in Frame \cup {NULL} /\ so_far \in Nat /\ n \in Nat
  /\ result \in [n : Nat, ret : Frame \cup {NULL}]
  /\ pool \subseteq Frame /\ owned \subseteq Frame

(* The list is exactly the pool, in ascending order, and doubly linked:    *)
(* frame_list is the lowest free frame and next and prev of a free frame   *)
(* are its neighbours in the pool (frame_insert and both unlinkings).      *)
HeadExact ==
  IF frame_list = NULL THEN pool = {}
  ELSE frame_list \in pool /\ \A g \in pool : frame_list <= g
NextExact ==
  \A f \in pool :
    IF next[f] = NULL THEN \A g \in pool : g <= f
    ELSE next[f] \in pool /\ f < next[f] /\ \A g \in pool : g <= f \/ next[f] <= g
PrevExact ==
  \A f \in pool :
    IF prev[f] = NULL THEN \A g \in pool : f <= g
    ELSE prev[f] \in pool /\ prev[f] < f /\ \A g \in pool : g <= prev[f] \/ f <= g
ListExact == HeadExact /\ NextExact /\ PrevExact

(* No frame is both in the list and owned by a client: what                *)
(* pfalloc_consecutive cuts out is exactly the run of n frames that its    *)
(* caller takes it for, and pffree puts each frame back once.              *)
NoDoubleOwner == pool \cap owned = {}

(* free_frames counts the list.                                            *)
CountExact == free_frames = Cardinality(pool)

(* Once booted, the frames of a usable entry whose length an int can hold  *)
(* are in the list or with a client, whatever longer entries lie around    *)
(* it, and frames of no other kind ever are: the cut of a longer entry's   *)
(* length (x64_init_physical_memory) loses frames of that entry, but none  *)
(* of another, and lists none that is not the kernel's to use.             *)
Usable == {i \in 1 .. Len(MemMap) : MemMap[i].usable}
FramesOf(i) == Run(MemMap[i].base, MemMap[i].length)
LossConfined ==
  pc = "idle" =>
    /\ pool \cup owned \subseteq UNION {FramesOf(i) : i \in Usable}
    /\ \A i \in Usable :
         MemMap[i].length <= IntPages => FramesOf(i) \subseteq pool \cup owned

(* Every call returns: no loop of the allocator runs for ever.             *)
CallsReturn == (pc # "idle") ~> (pc = "idle")

(* The list implements the pool of frames of FramePool: an allocation of n *)
(* takes the lowest run of n frames and fails only when there is none.     *)
Pool == INSTANCE FramePool WITH free <- pool, held <- owned
RefinesPool == Pool!PoolSpec
=============================================================================
