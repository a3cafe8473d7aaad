------------------------- MODULE FrameAllocatorProofs -------------------------
(***************************************************************************)
(* Proofs about FrameAllocator, for every machine size, memory map and set *)
(* of request lengths: the free list stays exact, no frame has two owners, *)
(* and the list implements FramePool.                                      *)
(***************************************************************************)
EXTENDS FrameInvariant, FiniteSetTheorems, TLAPS

(* The truncation of an offset to an int (ToInt) never makes it larger, so *)
(* the boot loop never starts beyond the last frame of an entry.           *)
LEMMA ToIntBound ==
  ASSUME NEW x \in Int, x >= -1
  PROVE  ToInt(x) \in Int /\ ToInt(x) <= x
  <1>1. x + IntPages \in Nat /\ 2 * IntPages \in Nat \ {0}
    BY IntAssumption
  <1>2. ASSUME NEW y \in Nat, NEW m \in Nat \ {0}
        PROVE  y % m \in Nat /\ y % m <= y
    OBVIOUS
  <1>3. (x + IntPages) % (2 * IntPages) \in Nat
        /\ (x + IntPages) % (2 * IntPages) <= x + IntPages
    BY <1>1, <1>2
  <1> QED
    BY <1>3, IntAssumption DEF ToInt

(* The entries of the memory map are records of their type.                *)
LEMMA EntryType ==
  ASSUME NEW i \in 1 .. Len(MemMap)
  PROVE  MemMap[i].base \in Nat \ {0} /\ MemMap[i].length \in Nat
  <1> DEFINE E == [base : Nat \ {0}, length : Nat, usable : BOOLEAN]
  <1>1. MemMap \in Seq(E)
    BY MemMapAssumption
  <1>2. MemMap[i] \in E
    <2> HIDE DEF E
    <2> QED
      BY <1>1
  <1> QED
    BY <1>2

(* FirstByte of an entry: an offset inside the entry, or negative.         *)
LEMMA FirstByteBound ==
  ASSUME NEW i \in 0 .. Len(MemMap)
  PROVE  /\ FirstByte(i) \in Int
         /\ FirstByte(i) >= 0 => i > 0 /\ MemMap[i].usable
         /\ i > 0 /\ MemMap[i].usable => FirstByte(i) < MemMap[i].length
  <1>1. CASE i > 0 /\ MemMap[i].usable
    <2>1. MemMap[i].length \in Nat
      BY <1>1, EntryType
    <2>2. ToInt(MemMap[i].length - 1) \in Int
          /\ ToInt(MemMap[i].length - 1) <= MemMap[i].length - 1
      BY <2>1, ToIntBound
    <2> QED
      BY <1>1, <2>1, <2>2 DEF FirstByte
  <1>2. CASE ~(i > 0 /\ MemMap[i].usable)
    BY <1>2 DEF FirstByte
  <1> QED
    BY <1>1, <1>2

(* The entries of the memory map, as the boot loop uses them.              *)
LEMMA MapEntry ==
  ASSUME NEW i \in 1 .. Len(MemMap), MemMap[i].usable
  PROVE  /\ MemMap[i].base \in Nat \ {0} /\ MemMap[i].length \in Nat
         /\ MemMap[i].base + MemMap[i].length - 1 <= N
         /\ \A j \in 1 .. Len(MemMap) :
              MemMap[j].usable /\ j < i =>
                 /\ MemMap[j].base \in Nat /\ MemMap[j].length \in Nat
                 /\ MemMap[j].base + MemMap[j].length <= MemMap[i].base
  BY ZenonT(30), MemMapAssumption, EntryType

-----------------------------------------------------------------------------
(* The initial state.                                                      *)
LEMMA InitIInv == Init => IInv
  <1> SUFFICES ASSUME Init PROVE IInv
    OBVIOUS
  <1>0. Len(MemMap) \in Nat
    BY MemMapAssumption
  <1>1. TypeOK
    BY <1>0, FirstByteBound, NAssumption DEF Init, TypeOK, NULL, Junk, Frame
  <1>2. ListExact /\ NoDoubleOwner
    BY DEF Init, ListExact, HeadExact, NextExact, PrevExact, NoDoubleOwner, NULL
  <1>3. BootInv
    BY <1>0, FirstByteBound DEF Init, BootInv, Booting, Pending, Inserting
  <1>4. InsertInv /\ WalkInv /\ FreeInv /\ ScanInv
    BY DEF Init, InsertInv, Inserting, WalkInv, FreeInv, Freeing, ScanInv
  <1> QED
    BY <1>1, <1>2, <1>3, <1>4 DEF IInv

-----------------------------------------------------------------------------
(* A step that leaves the list and the owners alone keeps what is said of  *)
(* them.                                                                   *)
LEMMA ListStutter ==
  ASSUME ListExact, NoDoubleOwner, UNCHANGED <<frame_list, next, prev, pool, owned>>
  PROVE  ListExact' /\ NoDoubleOwner'
  BY DEF ListExact, HeadExact, NextExact, PrevExact, NoDoubleOwner

(* x64_init_physical_memory.                                               *)
LEMMA BootStep ==
  ASSUME IInv, Boot
  PROVE  IInv'
  <1> USE DEF IInv
  <1>1. CASE BootFrame
    <2> DEFINE f == MemMap[ent].base + byte
    <2>0. pc = "boot" /\ byte >= 0 /\ Booting /\ pc' = "insert" /\ to_ins' = f
          /\ caller' = "boot" /\ byte' = byte - 1
          /\ UNCHANGED <<listVars, ent, freeVars, scanVars, result, ghosts, curr, last>>
      BY <1>1 DEF BootFrame, CallInsert, Booting
    <2>1. ent \in 1 .. Len(MemMap) /\ MemMap[ent].usable /\ byte \in Nat
          /\ byte < MemMap[ent].length /\ owned = {}
      BY <2>0, MemMapAssumption DEF BootInv, TypeOK
    <2>2. f \in Frame /\ MemMap[ent].base \in Nat
      BY <2>1, MapEntry, NAssumption DEF Frame
    <2>3. f \notin pool
      BY <2>0, <2>1, <2>2 DEF BootInv, Frame
    <2>4. TypeOK'
      BY <2>0, <2>1, <2>2 DEF TypeOK, listVars, freeVars, scanVars, ghosts
    <2>5. ListExact' /\ NoDoubleOwner'
      BY <2>0, ListStutter DEF listVars, ghosts
    <2>6. BootInv'
      <3>1. owned' = {} /\ (byte' >= 0 => ent' > 0 /\ MemMap[ent'].usable
                                           /\ byte' < MemMap[ent'].length)
        BY <2>0, <2>1, <2>2, EntryType DEF ghosts
      <3>2. ASSUME NEW g \in pool \cup {f}, NEW j \in 1 .. ent, MemMap[j].usable
            PROVE  /\ j < ent => MemMap[j].base + MemMap[j].length <= g
                   /\ j = ent => MemMap[j].base + byte - 1 < g
        <4>1. CASE g \in pool
          <5>1. /\ j < ent => MemMap[j].base + MemMap[j].length <= g
                /\ j = ent => MemMap[j].base + byte < g
            BY <4>1, <3>2, <2>0 DEF BootInv
          <5>2. g \in Int
            BY <4>1 DEF TypeOK, Frame
          <5> QED
            BY <5>1, <5>2, <2>1, <2>2
        <4>2. CASE g = f
          <5>1. j \in 1 .. Len(MemMap)
            BY <2>1, MemMapAssumption
          <5>2. MemMap[j].base \in Nat /\ MemMap[j].length \in Nat
            BY <5>1, EntryType
          <5>3. CASE j < ent
            <6>1. MemMap[j].base + MemMap[j].length <= MemMap[ent].base
              BY <5>1, <5>3, <3>2, <2>1, MapEntry
            <6>2. MemMap[ent].base <= g /\ MemMap[ent].base \in Int /\ g \in Int
              BY <4>2, <2>1, <2>2
            <6>3. MemMap[j].base + MemMap[j].length \in Int
              BY <5>2
            <6>4. MemMap[j].base + MemMap[j].length <= g
              BY <6>1, <6>2, <6>3
            <6> QED
              BY <6>4, <5>3, <2>1
          <5>4. CASE j = ent
            BY <5>4, <4>2, <2>1, <2>2
          <5> QED
            BY <5>3, <5>4, <2>1
        <4> QED
          BY <4>1, <4>2
      <3>3. pool' = pool /\ ent' = ent /\ Pending' = {f}
        BY <2>0 DEF Pending, Inserting, ghosts
      <3>4. ASSUME NEW j \in 1 .. ent, MemMap[j].usable
            PROVE  MemMap[j].base + byte - 1 = MemMap[j].base + byte'
        BY <2>0, <2>1, <3>4, EntryType
      <3> QED
        BY <3>1, <3>2, <3>3, <3>4 DEF BootInv
    <2>7. InsertInv'
      BY <2>0, <2>2, <2>3 DEF InsertInv, Inserting, ghosts
    <2>8. WalkInv' /\ FreeInv' /\ ScanInv'
      BY <2>0 DEF WalkInv, FreeInv, Freeing, Inserting, ScanInv
    <2> QED
      BY <2>4, <2>5, <2>6, <2>7, <2>8
  <1>2. CASE BootEntry
    <2>0. pc = "boot" /\ byte < 0 /\ ent > 0 /\ Booting /\ pc' = "boot"
          /\ ent' = ent - 1 /\ byte' = FirstByte(ent - 1)
          /\ UNCHANGED <<listVars, freeVars, insVars, scanVars, result, ghosts>>
      BY <1>2 DEF BootEntry, Booting
    <2>1. ent - 1 \in 0 .. Len(MemMap) /\ ent \in 1 .. Len(MemMap)
      BY <2>0, MemMapAssumption DEF TypeOK
    <2>2. TypeOK'
      BY <2>0, <2>1, FirstByteBound
      DEF TypeOK, listVars, freeVars, insVars, scanVars, ghosts
    <2>3. ListExact' /\ NoDoubleOwner'
      BY <2>0, ListStutter DEF listVars, ghosts
    <2>4. BootInv'
      <3>1. owned' = {} /\ (byte' >= 0 => ent' > 0 /\ MemMap[ent'].usable
                                           /\ byte' < MemMap[ent'].length)
        BY <2>0, <2>1, FirstByteBound DEF BootInv, ghosts
      <3>2. ASSUME NEW g \in pool, NEW j \in 1 .. ent - 1, MemMap[j].usable
            PROVE  /\ MemMap[j].base + MemMap[j].length <= g
                   /\ j = ent - 1 => MemMap[j].base + byte' < g
        <4>1. j \in 1 .. Len(MemMap) /\ j \in 1 .. ent /\ j < ent
          BY <2>1
        <4>2. MemMap[j].base + MemMap[j].length <= g
          BY <2>0, <3>2, <4>1 DEF BootInv
        <4>3. MemMap[j].base \in Nat /\ MemMap[j].length \in Nat /\ g \in Nat
          BY <4>1, EntryType, NAssumption DEF TypeOK, Frame
        <4>4. ASSUME j = ent - 1
              PROVE  byte' \in Int /\ byte' < MemMap[j].length
          BY <2>0, <2>1, <3>2, <4>1, <4>4, FirstByteBound
        <4> QED
          BY <4>2, <4>3, <4>4
      <3>3. pool' = pool /\ Pending' = {}
        BY <2>0 DEF Pending, Inserting, ghosts
      <3> QED
        BY <2>0, <3>1, <3>2, <3>3 DEF BootInv
    <2>5. InsertInv' /\ WalkInv' /\ FreeInv' /\ ScanInv'
      BY <2>0 DEF InsertInv, WalkInv, FreeInv, Freeing, Inserting, ScanInv
    <2> QED
      BY <2>2, <2>3, <2>4, <2>5
  <1>3. CASE BootDone
    <2>0. pc' = "idle"
          /\ UNCHANGED <<listVars, bootVars, freeVars, insVars, scanVars, result, ghosts>>
      BY <1>3 DEF BootDone
    <2>1. TypeOK'
      BY <2>0 DEF TypeOK, listVars, bootVars, freeVars, insVars, scanVars, ghosts
    <2>2. ListExact' /\ NoDoubleOwner'
      BY <2>0, ListStutter DEF listVars, ghosts
    <2>3. BootInv' /\ InsertInv' /\ WalkInv' /\ FreeInv' /\ ScanInv'
      BY <2>0 DEF BootInv, Booting, InsertInv, WalkInv, FreeInv, Freeing, Inserting, ScanInv
    <2> QED
      BY <2>1, <2>2, <2>3
  <1> QED
    BY <1>1, <1>2, <1>3 DEF Boot

-----------------------------------------------------------------------------
(* What the returns of frame_insert have in common: control goes back to   *)
(* the caller's loop, and the frame is in the pool and no longer pending.  *)
LEMMA InsertedStep ==
  ASSUME IInv, Inserting, Inserted
  PROVE  /\ NoDoubleOwner' /\ BootInv' /\ InsertInv' /\ WalkInv' /\ FreeInv' /\ ScanInv'
         /\ UNCHANGED <<bootVars, freeVars, scanVars, result>>
         /\ pool' = pool \cup {to_ins} /\ owned' \subseteq owned
         /\ free_frames' = free_frames + 1
         /\ to_ins' = NULL /\ curr' = NULL /\ last' = NULL
         /\ caller' = "idle" /\ pc' \in {"boot", "idle", "free"}
  <1>0. /\ UNCHANGED <<bootVars, freeVars, scanVars, result>>
        /\ pool' = pool \cup {to_ins} /\ owned' = owned \ {to_ins}
        /\ free_frames' = free_frames + 1
        /\ to_ins' = NULL /\ curr' = NULL /\ last' = NULL
        /\ caller' = "idle" /\ pc' = caller
    BY DEF Inserted
  <1>1. pc' \in {"boot", "idle", "free"} /\ ~ Inserting'
    BY <1>0 DEF IInv, TypeOK, Inserting
  <1>2. NoDoubleOwner'
    BY <1>0 DEF IInv, NoDoubleOwner
  <1>3. Pending' = {} /\ Pending = {to_ins}
    BY <1>1 DEF Pending
  <1>4. BootInv'
    <2>1. Booting' => Booting /\ pool' \cup Pending' = pool \cup Pending
      BY <1>0, <1>1, <1>3 DEF Booting
    <2> QED
      BY <2>1, <1>0 DEF IInv, BootInv, bootVars
  <1>5. FreeInv'
    <2>1. Freeing' => Freeing /\ owned' \ Pending' = owned \ Pending
      BY <1>0, <1>1, <1>3 DEF Freeing
    <2> QED
      BY <2>1, <1>0 DEF IInv, FreeInv, freeVars
  <1>6. InsertInv' /\ WalkInv' /\ ScanInv'
    BY <1>1 DEF InsertInv, WalkInv, ScanInv
  <1> QED
    BY <1>0, <1>1, <1>2, <1>4, <1>5, <1>6

Links == [Frame -> Frame \cup {NULL, Junk}]

\* Setting one link keeps the type of the links.
LEMMA LinkType ==
  ASSUME NEW g \in Links, NEW x, NEW v \in Frame \cup {NULL}
  PROVE  [g EXCEPT ![x] = v] \in Links
  BY ZenonT(30) DEF Links

\* A return of frame_insert keeps the types.
LEMMA InsertedType ==
  ASSUME IInv, Inserting, Inserted, next' \in Links, prev' \in Links,
         frame_list' \in Frame \cup {NULL}
  PROVE  TypeOK'
  <1>1. TypeOK /\ to_ins \in Frame
    BY DEF IInv, InsertInv
  <1>2. /\ free_frames' = free_frames + 1 /\ pc' = caller
        /\ pool' = pool \cup {to_ins} /\ owned' = owned \ {to_ins}
        /\ to_ins' = NULL /\ curr' = NULL /\ last' = NULL /\ caller' = "idle"
        /\ ent' = ent /\ byte' = byte /\ first' = first /\ b' = b /\ cnt' = cnt
        /\ set_start' = set_start /\ so_far' = so_far /\ n' = n /\ result' = result
    BY DEF Inserted, bootVars, freeVars, scanVars
  <1>3. free_frames' \in Int /\ pool' \subseteq Frame /\ owned' \subseteq Frame
    BY <1>1, <1>2 DEF TypeOK
  <1>4. pc' \in {"boot", "idle", "insert", "walk", "scan", "free"}
    BY <1>1, <1>2 DEF TypeOK
  <1> QED
    BY <1>1, <1>2, <1>3, <1>4 DEF TypeOK, Links

(* frame_insert.                                                           *)
LEMMA InsertStep ==
  ASSUME IInv, Insert
  PROVE  IInv'
  <1> USE DEF NULL, Junk
  <1>f. /\ \A g \in pool : g \in Frame /\ g \in Int /\ g > 0
        /\ \A g \in Frame : g \in Int /\ g > 0
    BY NAssumption DEF IInv, TypeOK, Frame
  <1>1. CASE InsertEmpty
    <2>1. Inserting /\ Inserted /\ pool = {} /\ to_ins \in Frame
      BY <1>1 DEF InsertEmpty, Inserting, IInv, ListExact, HeadExact, InsertInv
    <2>2. /\ next' = [next EXCEPT ![to_ins] = NULL]
          /\ prev' = [prev EXCEPT ![to_ins] = NULL]
          /\ frame_list' = to_ins /\ pool' = {to_ins}
      BY <1>1, <2>1, InsertedStep DEF InsertEmpty
    <2>3. TypeOK'
      BY <2>1, <2>2, InsertedStep DEF IInv, TypeOK, bootVars, freeVars, scanVars
    <2>4. next'[to_ins] = NULL /\ prev'[to_ins] = NULL
      BY <2>1, <2>2 DEF IInv, TypeOK
    <2>5. ListExact'
      BY <1>f, <2>1, <2>2, <2>4 DEF ListExact, HeadExact, NextExact, PrevExact
    <2> QED
      BY <2>1, <2>3, <2>5, InsertedStep DEF IInv
  <1>2. CASE InsertWalk
    <2>0. /\ pc = "insert" /\ frame_list # NULL /\ pc' = "walk"
          /\ curr' = frame_list /\ last' = NULL
          /\ UNCHANGED <<listVars, bootVars, freeVars, to_ins, caller, scanVars, result, ghosts>>
      BY <1>2 DEF InsertWalk
    <2>1. TypeOK'
      BY <2>0 DEF IInv, TypeOK, listVars, bootVars, freeVars, scanVars, ghosts
    <2>2. ListExact' /\ NoDoubleOwner'
      BY <2>0, ListStutter DEF IInv, listVars, ghosts
    <2>3. WalkInv'
      BY SMTT(30), <2>0 DEF IInv, ListExact, HeadExact, WalkInv, ghosts
    <2>4. BootInv' /\ InsertInv' /\ FreeInv' /\ ScanInv'
      BY <2>0 DEF IInv, BootInv, Booting, InsertInv, FreeInv, Freeing, Pending, Inserting,
                  ScanInv, ghosts, bootVars, freeVars
    <2> QED
      BY <2>1, <2>2, <2>3, <2>4 DEF IInv
  <1>3. CASE InsertBefore
    <2>1. /\ Inserting /\ Inserted /\ to_ins \in Frame /\ to_ins \notin pool /\ to_ins < curr
          /\ curr \in pool
          /\ last = NULL => \A g \in pool : curr <= g
          /\ last # NULL => /\ last \in pool /\ last < curr /\ last < to_ins
                            /\ \A g \in pool : g <= last \/ curr <= g
      BY SMTT(30), <1>3 DEF InsertBefore, Inserting, IInv, InsertInv, WalkInv
    <2>2. /\ prev' = [prev EXCEPT ![curr] = to_ins, ![to_ins] = last]
          /\ last # NULL => /\ next' = [next EXCEPT ![to_ins] = curr, ![last] = to_ins]
                            /\ frame_list' = frame_list
          /\ last = NULL => /\ next' = [next EXCEPT ![to_ins] = curr]
                            /\ frame_list' = to_ins
          /\ pool' = pool \cup {to_ins}
      BY <1>3, <2>1, InsertedStep DEF InsertBefore
    <2>3. TypeOK'
      <3>1. next \in Links /\ prev \in Links /\ last \in Frame \cup {NULL}
            /\ curr \in Frame /\ to_ins \in Frame /\ frame_list \in Frame \cup {NULL}
        BY <1>f, <2>1 DEF IInv, TypeOK, Links
      <3>2. [prev EXCEPT ![curr] = to_ins] \in Links /\ [next EXCEPT ![to_ins] = curr] \in Links
        BY <3>1, LinkType
      <3>3. prev' \in Links
        BY ZenonT(30), <3>1, <3>2, <2>2, LinkType
      <3>4. next' \in Links /\ frame_list' \in Frame \cup {NULL}
        BY <3>1, <3>2, <2>2, LinkType
      <3> QED
        BY <3>3, <3>4, <2>1, InsertedType
    <2>4. /\ prev'[curr] = to_ins /\ prev'[to_ins] = last /\ next'[to_ins] = curr
          /\ last # NULL => next'[last] = to_ins
          /\ \A f \in pool : f # curr => prev'[f] = prev[f]
          /\ \A f \in pool : f # last => next'[f] = next[f]
          /\ pool' = pool \cup {to_ins}
      BY <1>f, <2>1, <2>2 DEF IInv, TypeOK
    <2>5. HeadExact'
      BY <1>f, <2>1, <2>2 DEF IInv, TypeOK, ListExact, HeadExact
    <2>6. NextExact'
      <3> SUFFICES ASSUME NEW f \in pool'
                   PROVE  IF next'[f] = NULL THEN \A g \in pool' : g <= f
                          ELSE /\ next'[f] \in pool' /\ f < next'[f]
                               /\ \A g \in pool' : g <= f \/ next'[f] <= g
        BY DEF NextExact
      <3>1. CASE f = to_ins
        BY <3>1, <1>f, <2>1, <2>4
      <3>2. CASE f = last
        BY <3>2, <1>f, <2>1, <2>4
      <3>3. CASE f \in pool /\ f # last
        BY <3>3, <1>f, <2>1, <2>4 DEF IInv, ListExact, NextExact
      <3> QED
        BY <3>1, <3>2, <3>3, <2>2
    <2>7. PrevExact'
      <3> SUFFICES ASSUME NEW f \in pool'
                   PROVE  IF prev'[f] = NULL THEN \A g \in pool' : f <= g
                          ELSE /\ prev'[f] \in pool' /\ prev'[f] < f
                               /\ \A g \in pool' : g <= prev'[f] \/ f <= g
        BY DEF PrevExact
      <3>1. CASE f = to_ins
        BY <3>1, <1>f, <2>1, <2>4
      <3>2. CASE f = curr
        BY <3>2, <1>f, <2>1, <2>4
      <3>3. CASE f \in pool /\ f # curr
        BY <3>3, <1>f, <2>1, <2>4 DEF IInv, ListExact, PrevExact
      <3> QED
        BY ZenonT(30), <3>1, <3>2, <3>3, <2>2
    <2> QED
      BY <2>1, <2>3, <2>5, <2>6, <2>7, InsertedStep DEF IInv, ListExact
  <1>4. CASE InsertAtEnd
    <2>1. /\ Inserting /\ Inserted /\ to_ins \in Frame /\ to_ins \notin pool
          /\ curr \in pool /\ curr < to_ins /\ next[curr] = NULL
      BY <1>4, <1>f DEF InsertAtEnd, Inserting, IInv, InsertInv, WalkInv
    <2>2. /\ next' = [next EXCEPT ![curr] = to_ins, ![to_ins] = NULL]
          /\ prev' = [prev EXCEPT ![to_ins] = curr]
          /\ frame_list' = frame_list /\ pool' = pool \cup {to_ins}
      BY <1>4, <2>1, InsertedStep DEF InsertAtEnd
    <2>3. TypeOK'
      <3>1. next \in Links /\ prev \in Links /\ curr \in Frame /\ to_ins \in Frame
        BY <1>f, <2>1 DEF IInv, TypeOK, Links
      <3>2. [next EXCEPT ![curr] = to_ins] \in Links
        BY ZenonT(30), <3>1, LinkType
      <3>3. next' \in Links /\ prev' \in Links
        BY ZenonT(30), <3>1, <3>2, <2>2, LinkType
      <3>4. frame_list' \in Frame \cup {NULL}
        BY <2>2 DEF IInv, TypeOK
      <3> QED
        BY <3>3, <3>4, <2>1, InsertedType
    <2>4. /\ next'[curr] = to_ins /\ next'[to_ins] = NULL /\ prev'[to_ins] = curr
          /\ \A f \in pool : prev'[f] = prev[f]
          /\ \A f \in pool : f # curr => next'[f] = next[f]
          /\ pool' = pool \cup {to_ins}
      BY <1>f, <2>1, <2>2 DEF IInv, TypeOK
    <2>5. \A g \in pool : g <= curr
      BY SMTT(30), <2>1 DEF IInv, ListExact, NextExact
    <2>6. HeadExact'
      BY <1>f, <2>1, <2>2, <2>5 DEF IInv, TypeOK, ListExact, HeadExact
    <2>7. NextExact'
      <3> SUFFICES ASSUME NEW f \in pool'
                   PROVE  IF next'[f] = NULL THEN \A g \in pool' : g <= f
                          ELSE /\ next'[f] \in pool' /\ f < next'[f]
                               /\ \A g \in pool' : g <= f \/ next'[f] <= g
        BY DEF NextExact
      <3>1. CASE f = to_ins
        BY <3>1, <1>f, <2>1, <2>4, <2>5
      <3>2. CASE f = curr
        BY <3>2, <1>f, <2>1, <2>4, <2>5
      <3>3. CASE f \in pool /\ f # curr
        BY <3>3, <1>f, <2>1, <2>4, <2>5 DEF IInv, ListExact, NextExact
      <3> QED
        BY ZenonT(30), <3>1, <3>2, <3>3, <2>2
    <2>8. PrevExact'
      <3> SUFFICES ASSUME NEW f \in pool'
                   PROVE  IF prev'[f] = NULL THEN \A g \in pool' : f <= g
                          ELSE /\ prev'[f] \in pool' /\ prev'[f] < f
                               /\ \A g \in pool' : g <= prev'[f] \/ f <= g
        BY DEF PrevExact
      <3>1. CASE f = to_ins
        BY <3>1, <1>f, <2>1, <2>4, <2>5
      <3>2. CASE f \in pool
        BY <3>2, <1>f, <2>1, <2>4, <2>5 DEF IInv, ListExact, PrevExact
      <3> QED
        BY <3>1, <3>2, <2>2
    <2> QED
      BY <2>1, <2>3, <2>6, <2>7, <2>8, InsertedStep DEF IInv, ListExact
  <1>5. CASE WalkOn
    <2>0. /\ pc = "walk" /\ to_ins >= curr /\ next[curr] # NULL
          /\ last' = curr /\ curr' = next[curr]
          /\ UNCHANGED <<listVars, pc, bootVars, freeVars, to_ins, caller, scanVars, result,
                         ghosts>>
      BY <1>5 DEF WalkOn
    <2>1. /\ curr \in pool /\ next[curr] \in pool /\ curr < next[curr]
          /\ to_ins \in Frame /\ to_ins \notin pool
          /\ \A g \in pool : g <= curr \/ next[curr] <= g
      BY <2>0 DEF IInv, WalkInv, InsertInv, Inserting, ListExact, NextExact
    <2>2. TypeOK'
      BY <1>f, <2>0, <2>1 DEF IInv, TypeOK, listVars, bootVars, freeVars, scanVars, ghosts
    <2>3. ListExact' /\ NoDoubleOwner'
      BY <2>0, ListStutter DEF IInv, listVars, ghosts
    <2>4. WalkInv'
      BY SMTT(30), <1>f, <2>0, <2>1 DEF WalkInv, ghosts
    <2>5. BootInv' /\ InsertInv' /\ FreeInv' /\ ScanInv'
      BY <2>0 DEF IInv, BootInv, Booting, InsertInv, FreeInv, Freeing, Pending, Inserting,
                  ScanInv, ghosts, bootVars, freeVars
    <2> QED
      BY <2>2, <2>3, <2>4, <2>5 DEF IInv
  <1> QED
    BY <1>1, <1>2, <1>3, <1>4, <1>5 DEF Insert

-----------------------------------------------------------------------------
(* With no call running the loop invariants say nothing.                   *)
LEMMA IdleInvs ==
  ASSUME pc' = "idle"
  PROVE  BootInv' /\ InsertInv' /\ WalkInv' /\ FreeInv' /\ ScanInv'
  BY DEF BootInv, Booting, InsertInv, WalkInv, FreeInv, Freeing, Inserting, ScanInv

(* pfalloc_one on a list that is not empty: the second frame becomes the   *)
(* head of an exact list.                                                  *)
LEMMA PopHeadStep ==
  ASSUME IInv, PopHead, UNCHANGED <<bootVars, freeVars, to_ins, last, caller>>
  PROVE  IInv'
  <1> USE DEF NULL, Junk
  <1>f. \A g \in pool : g \in Frame /\ g \in Int /\ g > 0
    BY NAssumption DEF IInv, TypeOK, Frame
  <1>r. /\ pc' = "idle" /\ curr' = NULL /\ set_start' = NULL /\ so_far' = 0 /\ n' = 0
        /\ result' \in [n : Nat, ret : Frame \cup {NULL}]
    BY DEF PopHead, Return, IInv, TypeOK
  <1>1. CASE frame_list = NULL
    <2>1. UNCHANGED <<listVars, ghosts>>
      BY <1>1 DEF PopHead
    <2>2. TypeOK'
      BY <1>r, <2>1 DEF IInv, TypeOK, listVars, bootVars, freeVars, ghosts
    <2>3. ListExact' /\ NoDoubleOwner'
      BY <2>1, ListStutter DEF IInv, listVars, ghosts
    <2> QED
      BY <1>r, <2>2, <2>3, IdleInvs DEF IInv
  <1>2. CASE frame_list # NULL
    <2> DEFINE h == frame_list
               m == next[frame_list]
    <2>1. /\ prev' = IF m # NULL THEN [prev EXCEPT ![m] = NULL] ELSE prev
          /\ frame_list' = m /\ next' = next
          /\ pool' = pool \ {h} /\ owned' = owned \cup {h}
          /\ free_frames' = free_frames - 1
      BY <1>2 DEF PopHead
    <2>2. /\ h \in pool /\ \A g \in pool : h <= g
          /\ m = NULL => \A g \in pool : g <= h
          /\ m # NULL => m \in pool /\ h < m /\ \A g \in pool : g <= h \/ m <= g
      BY SMTT(30), <1>2 DEF IInv, ListExact, HeadExact, NextExact
    <2>3. TypeOK'
      <3>1. /\ prev' \in [Frame -> Frame \cup {NULL, Junk}]
            /\ frame_list' \in Frame \cup {NULL}
        BY <1>f, <2>1, <2>2 DEF IInv, TypeOK
      <3> QED
        BY <1>f, <1>r, <2>1, <2>2, <3>1 DEF IInv, TypeOK, bootVars, freeVars
    <2>4. /\ m # NULL => prev'[m] = NULL
          /\ \A f \in pool : f # m => prev'[f] = prev[f]
      BY <1>f, <2>1, <2>2 DEF IInv, TypeOK
    <2>5. HeadExact'
      BY SMTT(30), <1>f, <2>1, <2>2 DEF HeadExact
    <2>6. NextExact'
      BY <1>f, <2>1, <2>2 DEF IInv, ListExact, NextExact
    <2>7. PrevExact'
      <3> SUFFICES ASSUME NEW f \in pool, f # h
                   PROVE  IF prev'[f] = NULL THEN \A g \in pool \ {h} : f <= g
                          ELSE /\ prev'[f] \in pool \ {h} /\ prev'[f] < f
                               /\ \A g \in pool \ {h} : g <= prev'[f] \/ f <= g
        BY <2>1 DEF PrevExact
      <3>1. CASE f = m
        BY <3>1, <1>f, <2>2, <2>4
      <3>2. CASE f # m
        BY <3>2, <1>f, <2>2, <2>4 DEF IInv, ListExact, PrevExact
      <3> QED
        BY SMTT(30), <3>1, <3>2
    <2>8. NoDoubleOwner'
      BY <2>1 DEF IInv, NoDoubleOwner
    <2> QED
      BY <1>r, <2>3, <2>5, <2>6, <2>7, <2>8, IdleInvs DEF IInv, ListExact
  <1> QED
    BY <1>1, <1>2

(* The entry of pfalloc_consecutive.                                       *)
LEMMA PfallocConsecutiveStep ==
  ASSUME IInv, NEW k \in Requests, PfallocConsecutive(k)
  PROVE  IInv'
  <1> USE DEF NULL
  <1>f. \A g \in pool : g \in Frame /\ g \in Int /\ g > 0
    BY NAssumption DEF IInv, TypeOK, Frame
  <1>k. k \in Nat
    BY RequestsAssumption
  <1>1. CASE frame_list = NULL
    <2>1. /\ pc' = "idle" /\ curr' = NULL /\ set_start' = NULL /\ so_far' = 0 /\ n' = 0
          /\ result' \in [n : Nat, ret : Frame \cup {NULL}]
          /\ UNCHANGED <<listVars, ghosts, bootVars, freeVars, to_ins, last, caller>>
      BY <1>1, <1>k DEF PfallocConsecutive, Return
    <2>2. TypeOK'
      BY <2>1 DEF IInv, TypeOK, listVars, bootVars, freeVars, ghosts
    <2>3. ListExact' /\ NoDoubleOwner'
      BY <2>1, ListStutter DEF IInv, listVars, ghosts
    <2> QED
      BY <2>1, <2>2, <2>3, IdleInvs DEF IInv
  <1>2. CASE frame_list # NULL /\ k = 1
    BY <1>2, PopHeadStep DEF PfallocConsecutive
  <1>3. CASE frame_list # NULL /\ k # 1
    <2>1. /\ pc' = "scan" /\ set_start' = frame_list /\ so_far' = 1 /\ n' = k
          /\ curr' = next[frame_list]
          /\ UNCHANGED <<listVars, result, ghosts, bootVars, freeVars, to_ins, last, caller>>
      BY <1>3 DEF PfallocConsecutive
    <2>2. /\ frame_list \in pool /\ \A g \in pool : frame_list <= g
          /\ next[frame_list] \in Frame \cup {NULL}
      BY SMTT(30), <1>3, <1>f DEF IInv, ListExact, HeadExact, NextExact
    <2>3. TypeOK'
      BY <1>f, <1>k, <2>1, <2>2 DEF IInv, TypeOK, listVars, bootVars, freeVars, ghosts
    <2>4. ListExact' /\ NoDoubleOwner'
      BY <2>1, ListStutter DEF IInv, listVars, ghosts
    <2>5. ScanInv'
      <3>1. Run(frame_list, 1) = {frame_list} /\ LastOfRun' = frame_list
        BY <1>f, <2>1, <2>2 DEF Run, LastOfRun
      <3>2. \A t \in pool : ~(t < frame_list)
        BY <1>f, <2>2
      <3>3. k = 0 \/ 1 < k
        BY <1>3, <1>k
      <3> QED
        BY <1>3, <2>1, <2>2, <3>1, <3>2, <3>3 DEF ScanInv, listVars, ghosts
    <2>6. BootInv' /\ InsertInv' /\ WalkInv' /\ FreeInv'
      BY <2>1 DEF BootInv, Booting, InsertInv, WalkInv, FreeInv, Freeing, Inserting
    <2> QED
      BY <2>3, <2>4, <2>5, <2>6 DEF IInv
  <1> QED
    BY <1>1, <1>2, <1>3

(* The calls that free, up to their first insertion, and the writes of a   *)
(* client.                                                                 *)
LEMMA FreeCallStep ==
  ASSUME IInv, NEW f \in Frame,
         PffreeOne(f) \/ ClientWrite(f) \/ \E k \in Requests : PffreeConsecutive(f, k)
  PROVE  IInv'
  <1> USE DEF NULL, Junk
  <1>1. CASE PffreeOne(f)
    <2>0. /\ f \in owned /\ pc' = "insert" /\ to_ins' = f /\ caller' = "idle"
          /\ UNCHANGED <<listVars, bootVars, freeVars, scanVars, result, ghosts, curr, last>>
      BY <1>1 DEF PffreeOne, CallInsert
    <2>1. TypeOK'
      BY <2>0 DEF IInv, TypeOK, listVars, bootVars, freeVars, scanVars, ghosts
    <2>2. ListExact' /\ NoDoubleOwner'
      BY <2>0, ListStutter DEF IInv, listVars, ghosts
    <2>3. InsertInv'
      BY <2>0 DEF IInv, NoDoubleOwner, InsertInv, ghosts
    <2>4. BootInv' /\ WalkInv' /\ FreeInv' /\ ScanInv'
      BY ZenonT(30), <2>0 DEF BootInv, Booting, WalkInv, FreeInv, Freeing, Inserting, ScanInv
    <2> QED
      BY <2>1, <2>2, <2>3, <2>4 DEF IInv
  <1>2. CASE ClientWrite(f)
    <2>0. /\ f \in owned /\ pc' = "idle"
          /\ next' = [next EXCEPT ![f] = Junk] /\ prev' = [prev EXCEPT ![f] = Junk]
          /\ UNCHANGED <<frame_list, free_frames, bootVars, freeVars, insVars, scanVars,
                         result, ghosts>>
      BY SMTT(30), <1>2 DEF ClientWrite
    <2>1. TypeOK'
      BY SMTT(30), <2>0 DEF IInv, TypeOK, insVars, bootVars, freeVars, scanVars, ghosts
    <2>2. \A g \in pool : next'[g] = next[g] /\ prev'[g] = prev[g]
      BY <2>0 DEF IInv, TypeOK, NoDoubleOwner
    <2>3. ListExact' /\ NoDoubleOwner'
      BY <2>0, <2>2 DEF IInv, ListExact, HeadExact, NextExact, PrevExact, NoDoubleOwner,
                       ghosts
    <2> QED
      BY <2>0, <2>1, <2>3, IdleInvs DEF IInv
  <1>3. ASSUME NEW k \in Requests, PffreeConsecutive(f, k)
        PROVE  IInv'
    <2>0. /\ Run(f, k) \subseteq owned /\ pc' = "free" /\ first' = f /\ cnt' = k /\ b' = 0
          /\ UNCHANGED <<listVars, bootVars, insVars, scanVars, result, ghosts>>
          /\ k \in Nat
      BY SMTT(30), <1>3, RequestsAssumption DEF PffreeConsecutive
    <2>1. TypeOK'
      BY <2>0 DEF IInv, TypeOK, listVars, bootVars, insVars, scanVars, ghosts
    <2>2. ListExact' /\ NoDoubleOwner'
      BY <2>0, ListStutter DEF IInv, listVars, ghosts
    <2>3. FreeInv'
      <3>1. ASSUME NEW i \in 0 .. k - 1
            PROVE  f + i \in owned
        BY <2>0, NAssumption DEF Run, Frame
      <3>2. Pending' = {}
        BY <2>0 DEF Pending, Inserting
      <3> QED
        BY <2>0, <3>1, <3>2 DEF FreeInv, ghosts
    <2>4. BootInv' /\ InsertInv' /\ WalkInv' /\ ScanInv'
      BY ZenonT(30), <2>0 DEF BootInv, Booting, InsertInv, WalkInv, Inserting, ScanInv
    <2> QED
      BY <2>1, <2>2, <2>3, <2>4 DEF IInv
  <1> QED
    BY <1>1, <1>2, <1>3

(* The loop of pffree_consecutive.                                         *)
LEMMA FreeStep ==
  ASSUME IInv, Free
  PROVE  IInv'
  <1> USE DEF NULL
  <1>1. CASE FreeNext
    <2>0. /\ pc = "free" /\ b < cnt /\ pc' = "insert" /\ to_ins' = first + b
          /\ caller' = "free" /\ b' = b + 1
          /\ UNCHANGED <<listVars, bootVars, first, cnt, scanVars, result, ghosts, curr, last>>
      BY <1>1 DEF FreeNext, CallInsert
    <2>1. b \in Nat /\ cnt \in Nat /\ first \in Int
      BY NAssumption DEF IInv, TypeOK, Frame
    <2>2. \A i \in b .. cnt - 1 : first + i \in owned
      BY <2>0 DEF IInv, FreeInv, Freeing
    <2>3. first + b \in owned /\ first + b \in Frame /\ first + b \notin pool
      BY SMTT(30), <2>0, <2>1, <2>2 DEF IInv, TypeOK, NoDoubleOwner
    <2>4. TypeOK'
      BY <2>0, <2>1, <2>3 DEF IInv, TypeOK, listVars, bootVars, scanVars, ghosts
    <2>5. ListExact' /\ NoDoubleOwner'
      BY <2>0, ListStutter DEF IInv, listVars, ghosts
    <2>6. FreeInv'
      <3>1. Pending' = {first + b}
        BY <2>0 DEF Pending, Inserting
      <3>2. ASSUME NEW i \in b + 1 .. cnt - 1
            PROVE  first + i \in owned \ {first + b}
        BY <2>1, <2>2
      <3> QED
        BY <2>0, <3>1, <3>2 DEF FreeInv, ghosts
    <2>7. InsertInv'
      BY <2>0, <2>3 DEF InsertInv, ghosts
    <2>8. BootInv' /\ WalkInv' /\ ScanInv'
      BY <2>0 DEF BootInv, Booting, WalkInv, Inserting, ScanInv
    <2> QED
      BY <2>4, <2>5, <2>6, <2>7, <2>8 DEF IInv
  <1>2. CASE FreeDone
    <2>0. /\ pc' = "idle" /\ first' = NULL /\ b' = 0 /\ cnt' = 0
          /\ UNCHANGED <<listVars, bootVars, insVars, scanVars, result, ghosts>>
      BY SMTT(30), <1>2 DEF FreeDone
    <2>1. TypeOK'
      BY <2>0 DEF IInv, TypeOK, listVars, bootVars, insVars, scanVars, ghosts
    <2>2. ListExact' /\ NoDoubleOwner'
      BY <2>0, ListStutter DEF IInv, listVars, ghosts
    <2> QED
      BY <2>0, <2>1, <2>2, IdleInvs DEF IInv
  <1> QED
    BY <1>1, <1>2 DEF Free

-----------------------------------------------------------------------------
(* The scan of pfalloc_consecutive: curr follows the end of the run in the *)
(* list, and its prev link is that end.                                    *)
LEMMA ScanFacts ==
  ASSUME IInv, pc = "scan"
  PROVE  /\ \A g \in pool : g \in Frame /\ g \in Int /\ g > 0
         /\ n \in Nat /\ n # 1 /\ so_far \in Nat /\ so_far >= 1 /\ (n = 0 \/ so_far < n)
         /\ set_start \in pool /\ LastOfRun \in pool
         /\ \A i \in set_start .. LastOfRun : i \in pool
         /\ curr = NULL => \A g \in pool : g <= LastOfRun
         /\ curr # NULL => /\ curr \in pool /\ LastOfRun < curr /\ prev[curr] = LastOfRun
                           /\ \A g \in pool : g <= LastOfRun \/ curr <= g
         /\ \A t \in pool : t < set_start /\ n > 0 => ~(Run(t, n) \subseteq pool)
  <1> USE DEF NULL
  <1>1. \A g \in pool : g \in Frame /\ g \in Int /\ g > 0
    BY SMTT(30), NAssumption DEF IInv, TypeOK, Frame
  <1>2. /\ n \in Nat /\ n # 1 /\ so_far \in Nat /\ so_far >= 1 /\ (n = 0 \/ so_far < n)
        /\ set_start \in pool /\ Run(set_start, so_far) \subseteq pool
        /\ curr = next[LastOfRun]
        /\ \A t \in pool : t < set_start /\ n > 0 => ~(Run(t, n) \subseteq pool)
    BY DEF IInv, TypeOK, ScanInv
  <1>3. LastOfRun \in pool /\ \A i \in set_start .. LastOfRun : i \in pool
    BY <1>1, <1>2 DEF Run, LastOfRun
  <1>4. /\ curr = NULL => \A g \in pool : g <= LastOfRun
        /\ curr # NULL => /\ curr \in pool /\ LastOfRun < curr
                          /\ \A g \in pool : g <= LastOfRun \/ curr <= g
    BY <1>2, <1>3 DEF IInv, ListExact, NextExact
  <1>5. curr # NULL => prev[curr] = LastOfRun
    BY <1>1, <1>3, <1>4 DEF IInv, ListExact, PrevExact
  <1> QED
    BY <1>1, <1>2, <1>3, <1>4, <1>5

(* If the frame after the run is not free, no run that is long enough      *)
(* starts in the run either.                                               *)
LEMMA NoLongRun ==
  ASSUME IInv, pc = "scan", LastOfRun + 1 \notin pool,
         NEW t \in pool, t <= LastOfRun, n > 0
  PROVE  ~(Run(t, n) \subseteq pool)
  <1>1. CASE t < set_start
    BY <1>1, ScanFacts
  <1>2. CASE t >= set_start
    <2>1. t \in Int /\ set_start \in Int /\ n \in Nat /\ so_far \in Nat /\ so_far < n
      BY ScanFacts
    <2>2. LastOfRun + 1 \in Run(t, n)
      BY <1>2, <2>1 DEF Run, LastOfRun
    <2> QED
      BY <2>2
  <1> QED
    BY <1>1, <1>2, ScanFacts

(* The search keeps the invariant: it is at the end of a run of free       *)
(* frames, and no run that is long enough lies below it.                   *)
LEMMA ScanStep ==
  ASSUME IInv, Scan
  PROVE  IInv'
  <1> USE DEF NULL, Junk
  <1>0. pc = "scan"
    BY DEF Scan, ScanExtend, ScanRestart, ScanFound, ScanFail
  <1> DEFINE e == LastOfRun
  <1>s. /\ e \in Int /\ set_start \in Int /\ so_far \in Nat /\ n \in Nat
        /\ e = set_start + so_far - 1
    BY <1>0, ScanFacts DEF LastOfRun
  <1>1. CASE ScanExtend
    <2>0. /\ curr # NULL /\ Adjacent /\ so_far + 1 # n /\ so_far' = so_far + 1
          /\ curr' = next[curr]
          /\ UNCHANGED <<listVars, pc, bootVars, freeVars, to_ins, last, caller, set_start, n,
                         result, ghosts>>
      BY <1>1 DEF ScanExtend
    <2>1. curr \in pool /\ curr = e + 1
      BY <1>0, <2>0, ScanFacts DEF Adjacent
    <2>2. next[curr] \in Frame \cup {NULL}
      BY ZenonT(30), <2>1, <1>0, ScanFacts DEF IInv, ListExact, NextExact
    <2>3. TypeOK'
      BY SMTT(30), <2>0, <2>2 DEF IInv, TypeOK, listVars, bootVars, freeVars, ghosts
    <2>4. ListExact' /\ NoDoubleOwner'
      BY <2>0, ListStutter DEF IInv, listVars, ghosts
    <2>5. ScanInv'
      <3>1. Run(set_start, so_far + 1) \subseteq pool /\ LastOfRun' = curr
        BY <1>0, <1>s, <2>0, <2>1, ScanFacts DEF Run, LastOfRun
      <3>2. so_far + 1 >= 1 /\ (n = 0 \/ so_far + 1 < n)
        BY SMTT(30), <1>0, <2>0, ScanFacts
      <3> QED
        BY <1>0, <2>0, <3>1, <3>2 DEF IInv, ScanInv, listVars, ghosts
    <2>6. BootInv' /\ InsertInv' /\ WalkInv' /\ FreeInv'
      BY <1>0, <2>0 DEF BootInv, Booting, InsertInv, WalkInv, FreeInv, Freeing, Inserting
    <2> QED
      BY <2>3, <2>4, <2>5, <2>6 DEF IInv
  <1>2. CASE ScanRestart
    <2>0. /\ curr # NULL /\ ~Adjacent /\ set_start' = curr /\ so_far' = 1
          /\ curr' = next[curr]
          /\ UNCHANGED <<listVars, pc, bootVars, freeVars, to_ins, last, caller, n, result,
                         ghosts>>
      BY <1>2 DEF ScanRestart
    <2>1. /\ curr \in pool /\ curr \in Int /\ e < curr
          /\ \A g \in pool : g <= e \/ curr <= g
      BY <1>0, <2>0, ScanFacts
    <2>2. e + 1 \notin pool
      BY <1>0, <1>s, <2>0, <2>1, ScanFacts DEF Adjacent
    <2>3. next[curr] \in Frame \cup {NULL}
      BY ZenonT(30), <2>1, <1>0, ScanFacts DEF IInv, ListExact, NextExact
    <2>4. TypeOK'
      BY <1>0, <2>0, <2>1, <2>3, ScanFacts DEF IInv, TypeOK, listVars, bootVars, freeVars, ghosts
    <2>5. ListExact' /\ NoDoubleOwner'
      BY <2>0, ListStutter DEF IInv, listVars, ghosts
    <2>6. ScanInv'
      <3>1. Run(curr, 1) = {curr} /\ LastOfRun' = curr
        BY <2>0, <2>1 DEF Run, LastOfRun
      <3>2. n = 0 \/ 1 < n
        BY <1>0, ScanFacts
      <3>3. ASSUME NEW t \in pool, t < curr, n > 0
            PROVE  ~(Run(t, n) \subseteq pool)
        <4>1. t <= e
          BY SMTT(30), <3>3, <2>1, <1>0, <1>s, ScanFacts
        <4> QED
          BY <4>1, <3>3, <1>0, <2>2, NoLongRun
      <3> QED
        <4>1. n \in Requests /\ n # 1
          BY <1>0 DEF IInv, ScanInv
        <4>2. /\ pool' = pool /\ next' = next /\ n' = n /\ set_start' = curr /\ so_far' = 1
              /\ curr' = next[curr]
          BY <2>0 DEF listVars, ghosts
        <4>3. \A t \in pool : t < curr /\ n > 0 => ~(Run(t, n) \subseteq pool)
          BY <3>3
        <4> QED
          <5>1. n' \in Requests /\ n' # 1 /\ so_far' >= 1 /\ (n' = 0 \/ so_far' < n')
            BY <4>1, <4>2, <3>2
          <5>2. set_start' \in pool' /\ Run(set_start', so_far') \subseteq pool'
            BY <4>2, <2>1, <3>1
          <5>3. curr' = next'[LastOfRun']
            BY <4>2, <3>1
          <5>4. \A t \in pool' : t < set_start' /\ n' > 0 => ~(Run(t, n') \subseteq pool')
            BY <4>2, <4>3
          <5> QED
            BY <5>1, <5>2, <5>3, <5>4 DEF ScanInv
    <2>7. BootInv' /\ InsertInv' /\ WalkInv' /\ FreeInv'
      BY SMTT(30), <1>0, <2>0 DEF BootInv, Booting, InsertInv, WalkInv, FreeInv, Freeing, Inserting
    <2> QED
      BY <2>4, <2>5, <2>6, <2>7 DEF IInv
  <1>3. CASE ScanFound
    <2> DEFINE p == prev[set_start]
               q == next[curr]
    <2>0. /\ curr # NULL /\ Adjacent /\ so_far + 1 = n
          /\ p # NULL => next' = [next EXCEPT ![p] = q] /\ frame_list' = frame_list
          /\ p = NULL => next' = next /\ frame_list' = q
          /\ prev' = IF q # NULL THEN [prev EXCEPT ![q] = p] ELSE prev
          /\ free_frames' = free_frames - n
          /\ pool' = pool \ (set_start .. curr) /\ owned' = owned \cup Run(set_start, n)
          /\ pc' = "idle" /\ curr' = NULL /\ set_start' = NULL /\ so_far' = 0 /\ n' = 0
          /\ result' = [n |-> n, ret |-> set_start]
          /\ UNCHANGED <<bootVars, freeVars, to_ins, last, caller>>
      BY <1>3 DEF ScanFound, Return
    <2>f. \A g \in pool : g \in Frame /\ g \in Int /\ g > 0
      BY <1>0, ScanFacts
    <2>1. /\ set_start \in pool /\ curr \in pool /\ curr = e + 1 /\ set_start < curr
          /\ \A i \in set_start .. curr : i \in pool
      <3>1. /\ set_start \in pool /\ curr \in pool /\ prev[curr] = e
            /\ \A i \in set_start .. e : i \in pool
        BY ZenonT(30), <1>0, <2>0, ScanFacts
      <3>2. curr = e + 1 /\ so_far >= 1
        BY <1>0, <2>0, <3>1, ScanFacts DEF Adjacent
      <3>3. set_start < curr
        BY <1>s, <3>2
      <3>4. ASSUME NEW i \in set_start .. curr PROVE i \in pool
        <4>1. i = curr \/ i \in set_start .. e
          BY <1>s, <3>2
        <4> QED
          BY <3>1, <4>1
      <3> QED
        BY SMTT(30), <3>1, <3>2, <3>3, <3>4
    <2>c. /\ set_start \in pool /\ curr \in pool /\ set_start < curr
          /\ set_start \in Int /\ curr \in Int
      BY <2>f, <2>1
    <2>2. Run(set_start, n) = set_start .. curr
      BY SMTT(30), <1>s, <2>0, <2>1 DEF Run
    <2>3. pool' = pool \ (set_start .. curr) /\ owned' = owned \cup (set_start .. curr)
      BY <2>0, <2>2
    <2>4. /\ p = NULL => \A g \in pool : set_start <= g
          /\ p # NULL => /\ p \in pool /\ p < set_start
                         /\ \A g \in pool : g <= p \/ set_start <= g
          /\ q = NULL => \A g \in pool : g <= curr
          /\ q # NULL => /\ q \in pool /\ curr < q
                         /\ \A g \in pool : g <= curr \/ q <= g
      BY <2>1 DEF IInv, ListExact, NextExact, PrevExact
    <2>5. TypeOK'
      <3>0. /\ next \in Links /\ prev \in Links /\ frame_list \in Frame \cup {NULL}
            /\ p \in Frame \cup {NULL} /\ q \in Frame \cup {NULL}
        BY <2>f, <2>4 DEF IInv, TypeOK, Links
      <3>1. next' \in Links /\ prev' \in Links /\ frame_list' \in Frame \cup {NULL}
        <4>1. next' \in Links /\ frame_list' \in Frame \cup {NULL}
          <5>1. [next EXCEPT ![p] = q] \in Links
            BY SMTT(30), <3>0, LinkType
          <5>2. /\ next' = next \/ next' = [next EXCEPT ![p] = q]
                /\ frame_list' = frame_list \/ frame_list' = q
            BY <2>0
          <5> QED
            BY <3>0, <5>1, <5>2
        <4>2. prev' \in Links
          <5>1. [prev EXCEPT ![q] = p] \in Links
            BY ZenonT(30), <3>0, LinkType
          <5>2. prev' = prev \/ prev' = [prev EXCEPT ![q] = p]
            BY <2>0
          <5> QED
            BY <3>0, <5>1, <5>2
        <4> QED
          BY <4>1, <4>2
      <3>2. pool' \subseteq Frame /\ owned' \subseteq Frame
        BY ZenonT(30), <2>f, <2>1, <2>3 DEF IInv, TypeOK
      <3>3. result' \in [n : Nat, ret : Frame \cup {NULL}] /\ free_frames' \in Int
        <4>1. set_start \in Frame /\ free_frames \in Int
          BY <2>f, <2>c DEF IInv, TypeOK
        <4>2. free_frames' \in Int
          BY <1>s, <2>0, <4>1
        <4>3. result' \in [n : Nat, ret : Frame \cup {NULL}]
          BY <1>s, <2>0, <4>1
        <4> QED
          BY <4>2, <4>3
      <3> QED
        BY ZenonT(30), <2>0, <3>1, <3>2, <3>3 DEF IInv, TypeOK, Links, bootVars, freeVars
    <2>6. /\ p # NULL => next'[p] = q
          /\ \A f \in pool : f # p => next'[f] = next[f]
          /\ q # NULL => prev'[q] = p
          /\ \A f \in pool : f # q => prev'[f] = prev[f]
      <3>1. /\ next \in [Frame -> Frame \cup {NULL, Junk}]
            /\ prev \in [Frame -> Frame \cup {NULL, Junk}]
        BY ZenonT(30) DEF IInv, TypeOK
      <3>2. /\ p # NULL => next'[p] = q
            /\ \A f \in pool : f # p => next'[f] = next[f]
        BY SMTT(30), <2>f, <2>0, <2>4, <3>1
      <3>3. /\ q # NULL => prev'[q] = p
            /\ \A f \in pool : f # q => prev'[f] = prev[f]
        BY <2>f, <2>0, <2>4, <3>1
      <3> QED
        BY <3>2, <3>3
    <2>h. HeadExact'
      <3>1. CASE p = NULL
        <4>1. frame_list' = q
          BY <3>1, <2>0
        <4>2. \A g \in pool' : g \in pool /\ curr < g
          BY <3>1, <2>f, <2>1, <2>3, <2>4
        <4>3. CASE q = NULL
          <5>1. \A g \in pool : g \in Int /\ g <= curr
            BY <4>3, <2>f, <2>4
          <5>2. ASSUME NEW g \in pool' PROVE FALSE
            <6>1. g \in pool /\ curr < g
              BY <4>2
            <6> QED
              BY <5>1, <6>1, <2>c
          <5>3. pool' = {}
            BY <5>2
          <5> QED
            BY <4>1, <4>3, <5>3 DEF HeadExact
        <4>4. CASE q # NULL
          <5>1. q \in pool' /\ q # NULL
            <6>1. q \in pool /\ q \in Int /\ curr < q
              BY <4>4, <2>f, <2>4
            <6> QED
              BY <6>1, <4>4, <2>c, <2>3
          <5>2. ASSUME NEW g \in pool' PROVE q <= g
            <6>1. g \in pool /\ curr < g
              BY <4>2
            <6>2. g \in Int /\ (g <= curr \/ q <= g)
              BY <4>4, <6>1, <2>f, <2>4
            <6> QED
              BY <6>1, <6>2, <2>c
          <5> QED
            BY <4>1, <5>1, <5>2 DEF HeadExact
        <4> QED
          BY <4>3, <4>4
      <3>2. CASE p # NULL
        <4>1. frame_list \in pool /\ \A g \in pool : frame_list <= g
          BY <3>2, <2>f, <2>4 DEF IInv, ListExact, HeadExact
        <4> QED
          <5>1. frame_list' = frame_list /\ frame_list # NULL
            BY <3>2, <4>1, <2>f, <2>0
          <5>2. p \in pool /\ p < set_start
            BY <3>2, <2>4
          <5>3. frame_list \in pool'
            <6>1. frame_list <= p /\ frame_list \in Int /\ p \in Int
              BY <4>1, <5>2, <2>f
            <6>2. frame_list < set_start
              BY <6>1, <5>2, <2>c
            <6> QED
              BY <6>1, <6>2, <4>1, <2>c, <2>3
          <5> QED
            BY SMTT(30), <4>1, <5>1, <5>3, <2>3 DEF HeadExact
      <3> QED
        BY <3>1, <3>2
    <2>7. ASSUME NEW f \in pool, f \notin set_start .. curr
          PROVE  f < set_start \/ curr < f
      BY <2>7, <2>f, <2>1
    <2>i. set_start \in Int /\ curr \in Int /\ set_start < curr
      BY <2>f, <2>1
    <2> HIDE DEF p, q
    <2>n. NextExact'
      <3> SUFFICES ASSUME NEW f \in pool, f \notin set_start .. curr
                   PROVE  IF next'[f] = NULL
                          THEN \A g \in pool \ (set_start .. curr) : g <= f
                          ELSE /\ next'[f] \in pool \ (set_start .. curr) /\ f < next'[f]
                               /\ \A g \in pool \ (set_start .. curr) : g <= f \/ next'[f] <= g
        BY SMTT(30), <2>3 DEF NextExact
      <3>1. CASE f = p
        BY SMTT(30), <3>1, <2>f, <2>i, <2>4, <2>6, <2>7
      <3>2. CASE f # p
        <4>1. IF next[f] = NULL THEN \A g \in pool : g <= f
              ELSE next[f] \in pool /\ f < next[f] /\ \A g \in pool : g <= f \/ next[f] <= g
          BY DEF IInv, ListExact, NextExact
        <4>2. next[f] # NULL => next[f] \notin set_start .. curr
          <5>1. CASE f < set_start
            <6>1. p \in pool /\ p < set_start /\ f < p
              BY <3>2, <5>1, <2>f, <2>i, <2>4
            <6>2. next[f] # NULL => next[f] <= p /\ next[f] \in Int
              BY <4>1, <6>1, <2>f
            <6> QED
              BY <6>1, <6>2, <2>f, <2>i
          <5>2. CASE curr < f
            BY <5>2, <4>1, <2>f, <2>i
          <5> QED
            BY <5>1, <5>2, <2>7
        <4> QED
          BY <3>2, <4>1, <4>2, <2>6
      <3> QED
        BY <3>1, <3>2
    <2>p. PrevExact'
      <3> SUFFICES ASSUME NEW f \in pool, f \notin set_start .. curr
                   PROVE  IF prev'[f] = NULL
                          THEN \A g \in pool \ (set_start .. curr) : f <= g
                          ELSE /\ prev'[f] \in pool \ (set_start .. curr) /\ prev'[f] < f
                               /\ \A g \in pool \ (set_start .. curr) : g <= prev'[f] \/ f <= g
        BY SMTT(30), <2>3 DEF PrevExact
      <3>1. CASE f = q
        BY <3>1, <2>f, <2>i, <2>4, <2>6, <2>7
      <3>2. CASE f # q
        <4>1. IF prev[f] = NULL THEN \A g \in pool : f <= g
              ELSE prev[f] \in pool /\ prev[f] < f /\ \A g \in pool : g <= prev[f] \/ f <= g
          BY DEF IInv, ListExact, PrevExact
        <4>2. prev[f] # NULL => prev[f] \notin set_start .. curr
          <5>1. CASE f < set_start
            BY <5>1, <4>1, <2>f, <2>i
          <5>2. CASE curr < f
            <6>1. q \in pool /\ curr < q /\ q < f
              BY <3>2, <5>2, <2>f, <2>i, <2>4
            <6>2. prev[f] # NULL => q <= prev[f] /\ prev[f] \in Int
              BY <4>1, <6>1, <2>f
            <6> QED
              BY <6>1, <6>2, <2>f, <2>i
          <5> QED
            BY <5>1, <5>2, <2>7
        <4> QED
          BY <3>2, <4>1, <4>2, <2>6
      <3> QED
        BY <3>1, <3>2
    <2>o. NoDoubleOwner'
      BY <2>3 DEF IInv, NoDoubleOwner
    <2> QED
      <3>1. BootInv' /\ InsertInv' /\ WalkInv' /\ FreeInv' /\ ScanInv'
        BY <2>0, IdleInvs
      <3> QED
        BY ZenonT(30), <3>1, <2>5, <2>h, <2>n, <2>p, <2>o DEF IInv, ListExact
  <1>4. CASE ScanFail
    <2>0. /\ pc' = "idle" /\ curr' = NULL /\ set_start' = NULL /\ so_far' = 0 /\ n' = 0
          /\ result' = [n |-> n, ret |-> NULL]
          /\ UNCHANGED <<listVars, bootVars, freeVars, to_ins, last, caller, ghosts>>
      BY SMTT(30), <1>4 DEF ScanFail, Return
    <2>1. TypeOK'
      BY <2>0 DEF IInv, TypeOK, listVars, bootVars, freeVars, ghosts
    <2>2. ListExact' /\ NoDoubleOwner'
      BY <2>0, ListStutter DEF IInv, listVars, ghosts
    <2> QED
      BY <2>0, <2>1, <2>2, IdleInvs DEF IInv
  <1> QED
    BY <1>1, <1>2, <1>3, <1>4 DEF Scan

-----------------------------------------------------------------------------
(* Every step of the allocator and of its clients keeps the invariant.     *)
LEMMA NextIInv ==
  ASSUME IInv, [Next]_vars
  PROVE  IInv'
  <1>1. CASE Running
    BY <1>1, BootStep, InsertStep, ScanStep, FreeStep DEF Running
  <1>2. CASE PfallocOne
    BY <1>2, PopHeadStep DEF PfallocOne
  <1>3. CASE \E k \in Requests : PfallocConsecutive(k)
    BY <1>3, PfallocConsecutiveStep
  <1>4. CASE \E f \in Frame : PffreeOne(f) \/ ClientWrite(f)
    BY <1>4, FreeCallStep
  <1>5. CASE \E f \in Frame, k \in Requests : PffreeConsecutive(f, k)
    BY SMTT(30), <1>5, FreeCallStep
  <1>6. CASE UNCHANGED vars
    <2> USE <1>6 DEF vars, listVars, bootVars, freeVars, insVars, scanVars, ghosts, IInv
    <2>1. TypeOK'
      <3>1. TypeOK
        OBVIOUS
      <3> QED
        BY ZenonT(30), <3>1 DEF TypeOK
    <2>2. ListExact' /\ NoDoubleOwner'
      <3>1. ListExact /\ NoDoubleOwner
        OBVIOUS
      <3> QED
        BY SMTT(30), <3>1, ListStutter
    <2>3. BootInv' /\ InsertInv'
      BY ZenonT(30) DEF BootInv, Booting, Inserting, Pending, InsertInv
    <2>4. WalkInv' /\ FreeInv'
      BY SMTT(30) DEF WalkInv, FreeInv, Freeing, Inserting, Pending
    <2>5. ScanInv'
      BY DEF ScanInv, LastOfRun, Run
    <2> QED
      BY <2>1, <2>2, <2>3, <2>4, <2>5
  <1> QED
    BY <1>1, <1>2, <1>3, <1>4, <1>5, <1>6 DEF Next, Call

(* The inductive invariant holds in every reachable state.                 *)
THEOREM InvariantHolds == Spec => []IInv
  <1>1. Init => IInv
    BY InitIInv
  <1>2. IInv /\ [Next]_vars => IInv'
    BY NextIInv
  <1> QED
    BY <1>1, <1>2, PTL DEF Spec

(* Type correctness, in particular: no NULL or stale link is ever followed *)
(* as if it were a frame.                                                  *)
THEOREM TypeCorrect == Spec => []TypeOK
  <1>1. IInv => TypeOK
    BY DEF IInv
  <1> QED
    BY <1>1, InvariantHolds, PTL

(* For every machine, map and sequence of calls, the list is the pool in   *)
(* ascending order, doubly linked, between any two steps of phys.c.        *)
THEOREM ListCorrect == Spec => []ListExact
  <1>1. IInv => ListExact
    BY DEF IInv
  <1> QED
    BY <1>1, InvariantHolds, PTL

(* No frame is ever free and in use at once.                               *)
THEOREM OwnershipCorrect == Spec => []NoDoubleOwner
  <1>1. IInv => NoDoubleOwner
    BY DEF IInv
  <1> QED
    BY <1>1, InvariantHolds, PTL

-----------------------------------------------------------------------------
(* What the steps do to the pool, its clients and the last result: the     *)
(* facts that the count and the refinement are about.                      *)

(* A frame goes into the list: a new one at boot, or one that its owner    *)
(* gives back.                                                             *)
PutBack ==
  /\ to_ins \in Frame /\ to_ins \notin pool
  /\ (owned = {} \/ to_ins \in owned)
  /\ pool' = pool \cup {to_ins} /\ owned' = owned \ {to_ins}
  /\ free_frames' = free_frames + 1
  /\ UNCHANGED result

(* The lowest run of k free frames, from s on, goes to a client.           *)
HandOut(s, k) ==
  /\ k > 0 /\ s \in pool /\ Run(s, k) \subseteq pool
  /\ \A t \in pool : Run(t, k) \subseteq pool => s <= t
  /\ pool' = pool \ Run(s, k) /\ owned' = owned \cup Run(s, k)
  /\ free_frames' = free_frames - k
  /\ result' = [n |-> k, ret |-> s]

(* An allocation of k fails, and there is no run of k free frames.         *)
TurnDown(k) ==
  /\ k > 0 => \A t \in pool : ~(Run(t, k) \subseteq pool)
  /\ UNCHANGED <<pool, owned, free_frames>>
  /\ result' = [n |-> k, ret |-> NULL]

Quiet == UNCHANGED <<pool, owned, free_frames, result>>

(* pfalloc_one takes the lowest frame, or finds none.                      *)
LEMMA PopHeadEffect ==
  ASSUME IInv, PopHead
  PROVE  TurnDown(1) \/ HandOut(frame_list, 1)
  <1> USE DEF NULL
  <1>f. \A g \in pool : g \in Int
    BY NAssumption DEF IInv, TypeOK, Frame
  <1>1. CASE frame_list = NULL
    <2>1. pool = {}
      BY SMTT(30), <1>1 DEF IInv, ListExact, HeadExact
    <2> QED
      BY <1>1, <2>1 DEF PopHead, Return, TurnDown, listVars, ghosts
  <1>2. CASE frame_list # NULL
    <2>1. frame_list \in pool /\ \A g \in pool : frame_list <= g
      BY <1>2 DEF IInv, ListExact, HeadExact
    <2>2. Run(frame_list, 1) = {frame_list}
      BY <1>f, <2>1 DEF Run
    <2>3. /\ free_frames' = free_frames - 1 /\ result' = [n |-> 1, ret |-> frame_list]
          /\ pool' = pool \ {frame_list} /\ owned' = owned \cup {frame_list}
      BY <1>2 DEF PopHead, Return
    <2> QED
      BY <2>1, <2>2, <2>3 DEF HandOut
  <1> QED
    BY <1>1, <1>2

(* The end of the scan takes the lowest run that is long enough, or finds  *)
(* that there is none.                                                     *)
LEMMA ScanEffect ==
  ASSUME IInv, Scan
  PROVE  n \in Requests /\ (Quiet \/ TurnDown(n) \/ HandOut(set_start, n))
  <1>0. pc = "scan"
    BY DEF Scan, ScanExtend, ScanRestart, ScanFound, ScanFail
  <1>n. n \in Requests
    BY <1>0 DEF IInv, ScanInv
  <1>1. CASE ScanExtend \/ ScanRestart
    BY SMTT(30), <1>n, <1>1 DEF ScanExtend, ScanRestart, Quiet, listVars, ghosts
  <1>2. CASE ScanFound
    <2>1. /\ pool' = pool \ (set_start .. curr) /\ owned' = owned \cup Run(set_start, n)
          /\ free_frames' = free_frames - n
          /\ result' = [n |-> n, ret |-> set_start]
      BY <1>2 DEF ScanFound, Return
    <2>2. n > 0 /\ n = so_far + 1 /\ curr = LastOfRun + 1 /\ curr \in pool
      BY <1>0, <1>2, ScanFacts DEF ScanFound, Adjacent
    <2>3. Run(set_start, n) \subseteq pool
      <3> SUFFICES ASSUME NEW i \in Run(set_start, n) PROVE i \in pool
        OBVIOUS
      <3>1. i \in Int /\ set_start <= i /\ i <= set_start + n - 1
            /\ set_start \in Int /\ so_far \in Int /\ LastOfRun = set_start + so_far - 1
        BY <1>0, ScanFacts DEF Run, LastOfRun
      <3>2. i \in set_start .. LastOfRun \/ i = curr
        BY <2>2, <3>1
      <3> QED
        BY <1>0, <2>2, <3>2, ScanFacts
    <2>4. \A t \in pool : Run(t, n) \subseteq pool => set_start <= t
      <3> SUFFICES ASSUME NEW t \in pool, Run(t, n) \subseteq pool PROVE set_start <= t
        OBVIOUS
      <3>1. ~(t < set_start) /\ t \in Int /\ set_start \in Int
        BY ZenonT(30), <1>0, <2>2, ScanFacts
      <3> QED
        BY <3>1
    <2>5. Run(set_start, n) = set_start .. curr
      <3>1. set_start \in Int /\ so_far \in Int /\ LastOfRun = set_start + so_far - 1
        BY <1>0, ScanFacts DEF LastOfRun
      <3> QED
        BY <2>2, <3>1 DEF Run
    <2> QED
      BY ZenonT(30), <1>0, <1>n, <2>1, <2>2, <2>3, <2>4, <2>5, ScanFacts DEF HandOut
  <1>3. CASE ScanFail
    <2>1. /\ UNCHANGED <<pool, owned, free_frames>> /\ curr = NULL
          /\ result' = [n |-> n, ret |-> NULL]
      BY <1>3 DEF ScanFail, Return, listVars, ghosts
    <2>2. /\ LastOfRun \in Int /\ \A g \in pool : g \in Int /\ g <= LastOfRun
          /\ LastOfRun + 1 \notin pool
      <3>1. /\ LastOfRun \in pool
            /\ \A g \in pool : g \in Int /\ g <= LastOfRun
        BY <1>0, <2>1, ScanFacts
      <3> QED
        BY <3>1
    <2>3. n > 0 => \A t \in pool : ~(Run(t, n) \subseteq pool)
      BY <1>0, <2>2, NoLongRun
    <2> QED
      BY <1>n, <2>1, <2>3 DEF TurnDown
  <1> QED
    BY SMTT(30), <1>n, <1>1, <1>2, <1>3 DEF Scan

(* Every return of frame_insert puts the frame back; the walk is quiet.    *)
LEMMA InsertEffect ==
  ASSUME IInv, Insert
  PROVE  Quiet \/ PutBack
  <1>1. CASE InsertWalk \/ WalkOn
    BY <1>1 DEF InsertWalk, WalkOn, Quiet, listVars, ghosts
  <1>2. CASE InsertEmpty \/ InsertBefore \/ InsertAtEnd
    <2>1. Inserting /\ Inserted
      BY <1>2 DEF InsertEmpty, InsertBefore, InsertAtEnd, Inserting
    <2>2. to_ins \in Frame /\ to_ins \notin pool /\ (owned = {} \/ to_ins \in owned)
      BY <2>1 DEF IInv, InsertInv, BootInv, Booting
    <2> QED
      BY <2>1, <2>2 DEF Inserted, PutBack
  <1> QED
    BY SMTT(30), <1>1, <1>2 DEF Insert

(* The effects of all steps.                                               *)
LEMMA Effects ==
  ASSUME IInv, [Next]_vars
  PROVE  \/ Quiet \/ PutBack
         \/ \E k \in Requests \cup {1} :
              k \in Nat /\ (TurnDown(k) \/ \E s \in Frame : HandOut(s, k))
  <1>f. /\ \A g \in pool : g \in Frame
        /\ \A k \in Requests \cup {1} : k \in Nat
    BY RequestsAssumption DEF IInv, TypeOK
  <1>h. ASSUME NEW s, NEW k, HandOut(s, k) PROVE s \in Frame
    BY SMTT(30), <1>f, <1>h DEF HandOut
  <1>1. CASE Boot \/ Free
    BY <1>1 DEF Boot, BootFrame, BootEntry, BootDone, Free, FreeNext, FreeDone, Quiet,
                listVars, ghosts
  <1>2. CASE Insert
    BY <1>2, InsertEffect
  <1>3. CASE Scan
    BY <1>3, <1>f, <1>h, ScanEffect
  <1>4. CASE PfallocOne
    BY <1>4, <1>f, <1>h, PopHeadEffect DEF PfallocOne
  <1>5. ASSUME NEW k \in Requests, PfallocConsecutive(k)
        PROVE  Quiet \/ TurnDown(k) \/ (k = 1 /\ HandOut(frame_list, 1))
    <2>1. CASE frame_list = NULL
      <3>1. pool = {}
        BY <2>1 DEF IInv, ListExact, HeadExact
      <3> QED
        BY ZenonT(30), <1>5, <2>1, <3>1 DEF PfallocConsecutive, Return, TurnDown, listVars, ghosts
    <2>2. CASE frame_list # NULL /\ k = 1
      BY <1>5, <2>2, PopHeadEffect DEF PfallocConsecutive
    <2>3. CASE frame_list # NULL /\ k # 1
      BY SMTT(30), <1>5, <2>3 DEF PfallocConsecutive, Quiet, listVars, ghosts
    <2> QED
      BY <2>1, <2>2, <2>3
  <1>6. CASE \E f \in Frame : PffreeOne(f) \/ ClientWrite(f)
    BY <1>6 DEF PffreeOne, ClientWrite, Quiet, listVars, ghosts
  <1>7. CASE \E f \in Frame, k \in Requests : PffreeConsecutive(f, k)
    BY <1>7 DEF PffreeConsecutive, Quiet, listVars, ghosts
  <1>8. CASE UNCHANGED vars
    BY <1>8 DEF vars, Quiet, listVars, ghosts
  <1> QED
    BY <1>f, <1>h, <1>1, <1>2, <1>3, <1>4, <1>5, <1>6, <1>7, <1>8
    DEF Next, Running, Call

-----------------------------------------------------------------------------
(* free_frames is the length of the list after every step.                 *)
THEOREM CountCorrect == Spec => []CountExact
  <1>1. Init => CountExact
    BY FS_EmptySet DEF Init, CountExact
  <1>2. ASSUME IInv, CountExact, [Next]_vars
        PROVE  CountExact'
    <2>1. IsFiniteSet(pool) /\ Cardinality(pool) \in Nat
      <3>1. IsFiniteSet(Frame)
        BY NAssumption, FS_Interval DEF Frame
      <3> QED
        BY <1>2, <3>1, FS_Subset, FS_CardinalityType DEF IInv, TypeOK
    <2>2. CASE Quiet
      BY <1>2, <2>2 DEF Quiet, CountExact
    <2>3. CASE PutBack
      <3>1. Cardinality(pool \cup {to_ins}) = Cardinality(pool) + 1
        BY ZenonT(30), <2>1, <2>3, FS_AddElement DEF PutBack
      <3> QED
        BY <1>2, <2>3, <3>1 DEF PutBack, CountExact
    <2>4. ASSUME NEW k \in Nat, TurnDown(k) PROVE CountExact'
      BY <1>2, <2>4 DEF TurnDown, CountExact
    <2>5. ASSUME NEW k \in Nat, NEW s \in Frame, HandOut(s, k) PROVE CountExact'
      <3>1. /\ k > 0 /\ s \in Int /\ Run(s, k) \subseteq pool
            /\ pool' = pool \ Run(s, k) /\ free_frames' = free_frames - k
        BY <2>5, NAssumption DEF HandOut, Frame
      <3>2. Cardinality(Run(s, k)) = k
        <4>1. s + k - 1 \in Int /\ ~(s > s + k - 1) /\ (s + k - 1) - s + 1 = k
          BY <3>1
        <4> QED
          BY <3>1, <4>1, FS_Interval DEF Run
      <3>3. pool \cap Run(s, k) = Run(s, k)
        BY <3>1
      <3>4. Cardinality(pool \ Run(s, k)) = Cardinality(pool) - Cardinality(pool \cap Run(s, k))
        BY ZenonT(30), <2>1, FS_Difference
      <3> QED
        BY <1>2, <3>1, <3>2, <3>3, <3>4 DEF CountExact
    <2> QED
      BY SMTT(30), <1>2, <2>2, <2>3, <2>4, <2>5, Effects
  <1> QED
    BY <1>1, <1>2, InvariantHolds, PTL DEF Spec

(* The list of phys.c implements the pool of FramePool: an allocation of k *)
(* frames gives the lowest run of k free frames, fails only when there is  *)
(* none, and a frame that is freed is free again.                          *)
THEOREM Refinement == Spec => RefinesPool
  <1>1. Init => Pool!PoolInit
    BY DEF Init, Pool!PoolInit, NULL
  <1>2. ASSUME IInv, [Next]_vars
        PROVE  [Pool!PoolNext]_(Pool!poolVars)
    <2>1. CASE Quiet
      BY <2>1 DEF Quiet, Pool!poolVars
    <2>2. CASE PutBack
      <3>1. CASE to_ins \in owned
        BY <2>2, <3>1 DEF PutBack, Pool!PoolNext, Pool!Release
      <3>2. CASE to_ins \notin owned
        BY <2>2, <3>2 DEF PutBack, Pool!PoolNext, Pool!Donate
      <3> QED
        BY <3>1, <3>2
    <2>3. ASSUME NEW k \in Requests \cup {1}, k \in Nat, TurnDown(k) PROVE Pool!PoolNext
      <3>1. Pool!Refuse(k)
        BY <2>3 DEF TurnDown, Pool!Refuse, Pool!StartsRun, Pool!Run, Run, NULL
      <3> QED
        BY <3>1 DEF Pool!PoolNext
    <2>4. ASSUME NEW k \in Requests \cup {1}, NEW s \in Frame, HandOut(s, k)
          PROVE  Pool!PoolNext
      <3>1. Pool!Grant(k, s)
        BY <2>4 DEF HandOut, Pool!Grant, Pool!StartsRun, Pool!Run, Run
      <3> QED
        BY SMTT(30), <3>1 DEF Pool!PoolNext
    <2> QED
      BY <1>2, <2>1, <2>2, <2>3, <2>4, Effects
  <1> QED
    BY <1>1, <1>2, InvariantHolds, PTL DEF Spec, RefinesPool, Pool!PoolSpec
=============================================================================
