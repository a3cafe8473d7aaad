---------------------------- MODULE SchedulerProofs ----------------------------
(***************************************************************************)
(* The ring of thread.c is a round robin queue, whatever MAX_PROCS is.     *)
(***************************************************************************)
EXTENDS Scheduler, SequenceTheorems, TLAPS

USE MaxProcsAssumption, TickAssumption DEF Tid

At(i) == sched_queue[Slot(i)]     \* the i-th waiting process

(* The table and the queue fill up together, from slot 0: the process that *)
(* main has created and not enqueued yet finds the queue with room.        *)
Filled ==
  /\ queued = 0 .. Count - 1
  /\ pc = "created" => tid = Count /\ tid \in Tid
  /\ \A t \in Tid : present[t] <=> t < Count \/ (pc = "created" /\ t = tid)

(* The timer runs one handle, at every tick, once there is a process.      *)
Started ==
  /\ handles = IF pc = "started" THEN <<SCHED_EVERY>> ELSE << >>
  /\ pc = "started" => Count > 0
  /\ pc # "started" => ticks = 0 /\ current_proc = -1

(* Whoever waits at place i has been passed over by those behind it.       *)
PassedOver == \A i \in 0 .. Count - 1 : age[At(i)] <= Count - 1 - i

SchedInv ==
  /\ SchedTypeOK /\ Filled /\ Started
  /\ RingExact /\ RunsOnlyQueued /\ PassedOver

-----------------------------------------------------------------------------
(* The indices of the ring. *)

Place(h, i) == (h + i) % MAX_PROCS

\* The index expression of the ring wraps at most once.
LEMMA Wrap ==
  ASSUME NEW h \in Tid, NEW i \in 0 .. MAX_PROCS
  PROVE  Place(h, i) = IF h + i < MAX_PROCS THEN h + i ELSE h + i - MAX_PROCS
  BY DEF Place

\* A place one further on, reached by moving the start or the offset.
LEMMA WrapOne ==
  ASSUME NEW h \in Tid, NEW i \in 0 .. MAX_PROCS - 1
  PROVE  /\ Place(h, i) \in Tid /\ Place(h, i + 1) \in Tid
         /\ Place(Place(h, i), 1) = Place(h, i + 1)
         /\ Place(Place(h, 1), i) = Place(h, i + 1)
<1>1. Place(h, i) = IF h + i < MAX_PROCS THEN h + i ELSE h + i - MAX_PROCS
  BY Wrap
<1>2. Place(h, i + 1) = IF h + (i + 1) < MAX_PROCS THEN h + (i + 1) ELSE h + (i + 1) - MAX_PROCS
  <2>1. i + 1 \in 0 .. MAX_PROCS
    OBVIOUS
  <2> QED
    BY <2>1, Wrap
<1>3. 1 \in 0 .. MAX_PROCS
  OBVIOUS
<1>4. Place(h, 1) = IF h + 1 < MAX_PROCS THEN h + 1 ELSE h + 1 - MAX_PROCS
  BY <1>3, Wrap
<1>5. Place(h, i) \in Tid /\ Place(h, i + 1) \in Tid /\ Place(h, 1) \in Tid
  BY <1>1, <1>2, <1>4
<1>6. Place(Place(h, i), 1) =
        IF Place(h, i) + 1 < MAX_PROCS THEN Place(h, i) + 1 ELSE Place(h, i) + 1 - MAX_PROCS
  BY <1>3, <1>5, Wrap
<1>7. Place(Place(h, 1), i) =
        IF Place(h, 1) + i < MAX_PROCS THEN Place(h, 1) + i ELSE Place(h, 1) + i - MAX_PROCS
  BY <1>5, Wrap
<1> QED
  BY <1>1, <1>2, <1>4, <1>5, <1>6, <1>7

\* Different places of the queue are different slots of the ring.
LEMMA SlotsApart ==
  ASSUME sq_head \in Tid, NEW i \in 0 .. MAX_PROCS - 1, NEW j \in 0 .. MAX_PROCS,
         i # j, i > 0 \/ j < MAX_PROCS
  PROVE  Slot(i) \in Tid /\ Slot(j) \in Tid /\ Slot(i) # Slot(j)
<1>1. Slot(i) = IF sq_head + i < MAX_PROCS THEN sq_head + i ELSE sq_head + i - MAX_PROCS
  BY Wrap DEF Slot, Place
<1>2. Slot(j) = IF sq_head + j < MAX_PROCS THEN sq_head + j ELSE sq_head + j - MAX_PROCS
  BY Wrap DEF Slot, Place
<1> QED
  BY <1>1, <1>2

\* sq_space_left counts the slots that are not taken.
LEMMA CountIs ==
  ASSUME SchedTypeOK
  PROVE  Count \in 0 .. MAX_PROCS /\ sq_space_left = MAX_PROCS - Count
  BY DEF SchedTypeOK, Count

-----------------------------------------------------------------------------
(* What enqueue_proc and schedule_set_current_proc do to the queue. *)

\* enqueue_proc: the new process stands last, the others where they stood.
LEMMA EnqueueEffect ==
  ASSUME SchedInv, EnqueueProc
  PROVE  /\ Count' = Count + 1 /\ Count < MAX_PROCS
         /\ \A i \in 0 .. Count : At(i)' = IF i = Count THEN tid ELSE At(i)
         /\ sched_queue' \in [Tid -> Tid \cup {-1}]
         /\ sq_tail' \in Tid /\ sq_space_left' \in 0 .. MAX_PROCS
         /\ (sq_tail = Slot(Count))'
<1>1. /\ SchedTypeOK /\ Count \in 0 .. MAX_PROCS - 1 /\ tid = Count
      /\ sq_space_left = MAX_PROCS - Count /\ sq_tail = Slot(Count) /\ sq_head \in Tid
  BY CountIs DEF SchedInv, Filled, RingExact, EnqueueProc, SchedTypeOK
<1>2. /\ sched_queue' = [sched_queue EXCEPT ![Slot(Count)] = tid]
      /\ sq_tail' = (Slot(Count) + 1) % MAX_PROCS
      /\ sq_space_left' = sq_space_left - 1 /\ sq_head' = sq_head
  BY <1>1 DEF EnqueueProc, sq_full
<1>3. Count' = Count + 1
  BY <1>1, <1>2 DEF Count
<1>4. \A i : Slot(i)' = Slot(i)
  BY <1>2 DEF Slot
<1>5. Slot(Count) \in Tid /\ \A i \in 0 .. Count - 1 : Slot(i) # Slot(Count)
  <2>1. Slot(Count) \in Tid
    BY <1>1, WrapOne DEF Slot, Place
  <2>2. ASSUME NEW i \in 0 .. Count - 1 PROVE Slot(i) # Slot(Count)
    BY <1>1, SlotsApart
  <2> QED
    BY <2>1, <2>2
<1>6. \A i \in 0 .. Count : At(i)' = IF i = Count THEN tid ELSE At(i)
  BY <1>1, <1>2, <1>4, <1>5 DEF At, SchedTypeOK
<1>7. sq_tail' = Slot(Count + 1)
  BY <1>1, <1>2, WrapOne DEF Slot, Place
<1>8. Slot(Count + 1) \in Tid
  BY <1>1, WrapOne DEF Slot, Place
<1> QED
  BY <1>1, <1>2, <1>3, <1>4, <1>5, <1>6, <1>7, <1>8 DEF SchedTypeOK

(* Each tick moves the first process to the back, also when the ring is    *)
(* full and the slot it goes to is the one it came from.                   *)
LEMMA TickEffect ==
  ASSUME SchedInv, TimerTick
  PROVE  /\ Count' = Count /\ Count > 0
         /\ \A i \in 0 .. Count - 1 : At(i)' = IF i = Count - 1 THEN At(0) ELSE At(i + 1)
         /\ current_proc' = At(0) /\ At(0) \in queued /\ Aged(At(0))
         /\ sched_queue' \in [Tid -> Tid \cup {-1}]
         /\ sq_head' \in Tid /\ sq_tail' \in Tid /\ sq_space_left' \in 0 .. MAX_PROCS
         /\ (sq_tail = Slot(Count))'
<1>1. /\ SchedTypeOK /\ Count \in 1 .. MAX_PROCS /\ pc = "started"
      /\ sq_space_left = MAX_PROCS - Count /\ sq_tail = Slot(Count) /\ sq_head \in Tid
      /\ queued = {At(i) : i \in 0 .. Count - 1} /\ queued \subseteq Tid
  <2>1. SchedTypeOK /\ pc = "started" /\ Count > 0 /\ sq_tail = Slot(Count)
    BY DEF SchedInv, Started, RingExact, TimerTick
  <2>2. queued = {At(i) : i \in 0 .. Count - 1}
    BY DEF SchedInv, RingExact, At
  <2>3. Count \in 0 .. MAX_PROCS /\ sq_space_left = MAX_PROCS - Count
    BY <2>1, CountIs
  <2>4. sq_head \in Tid /\ queued \subseteq Tid
    BY <2>1 DEF SchedTypeOK
  <2> QED
    BY <2>1, <2>2, <2>3, <2>4
<1>2. ScheduleSetCurrentProc
  <2>1. handles = <<1>> /\ ticks' \in Int
    BY <1>1 DEF SchedInv, Started, SCHED_EVERY, TimerTick, SchedTypeOK
  <2>2. \A n \in Int : n % 1 = 0
    OBVIOUS
  <2>3. Due(ticks')
    BY <2>1, <2>2 DEF Due
  <2> QED
    BY <2>3 DEF TimerTick
<1>3. sq_head = Slot(0) /\ ~sq_empty /\ At(0) \in queued
  <2>1. sq_head = Slot(0)
    BY <1>1 DEF Slot
  <2> QED
    BY <1>1, <2>1 DEF sq_empty
<1>4. /\ sq_head' = Slot(1)
      /\ sched_queue' = [sched_queue EXCEPT ![Slot(Count)] = At(0)]
      /\ sq_tail' = (Slot(Count) + 1) % MAX_PROCS
      /\ sq_space_left' = sq_space_left
      /\ current_proc' = At(0) /\ Aged(At(0))
  <2>1. sq_space_left + 1 # 0 /\ (sq_space_left + 1) - 1 = sq_space_left
    BY <1>1
  <2> QED
    BY <1>1, <1>2, <1>3, <2>1 DEF ScheduleSetCurrentProc, At, Slot
<1>5. Count' = Count
  BY <1>4 DEF Count
<1>6. /\ Slot(Count) \in Tid /\ Slot(1) \in Tid
      /\ \A i \in 0 .. Count - 1 : Slot(i)' = Slot(i + 1)
      /\ sq_tail' = Slot(Count)' /\ sq_tail' \in Tid
  <2>0. \A i : Slot(i) = Place(sq_head, i) /\ Slot(i)' = Place(sq_head', i)
    BY DEF Slot, Place
  <2>1. Slot(1) \in Tid /\ \A i \in 0 .. MAX_PROCS - 1 : Slot(i)' = Slot(i + 1) /\ Slot(i + 1) \in Tid
    <3>1. Slot(1) \in Tid
      <4>1. 0 \in 0 .. MAX_PROCS - 1 /\ 0 + 1 = 1
        OBVIOUS
      <4> QED
        BY <1>1, <2>0, <4>1, WrapOne
    <3> QED
      BY <1>1, <1>4, <2>0, <3>1, WrapOne
  <2>2. Slot(Count) \in Tid
    <3>1. Count - 1 \in 0 .. MAX_PROCS - 1 /\ (Count - 1) + 1 = Count
      BY <1>1
    <3> QED
      BY <2>1, <3>1
  <2>3. (Slot(Count) + 1) % MAX_PROCS = (Slot(1) + Count) % MAX_PROCS
    <3>1. Slot(Count) = IF sq_head + Count < MAX_PROCS THEN sq_head + Count ELSE sq_head + Count - MAX_PROCS
      BY <1>1, <2>0, Wrap
    <3>2. Slot(1) = IF sq_head + 1 < MAX_PROCS THEN sq_head + 1 ELSE sq_head + 1 - MAX_PROCS
      BY <1>1, <2>0, Wrap
    <3>3. Place(Slot(Count), 1) = IF Slot(Count) + 1 < MAX_PROCS THEN Slot(Count) + 1 ELSE Slot(Count) + 1 - MAX_PROCS
      BY <1>1, <2>2, Wrap
    <3>4. Place(Slot(1), Count) = IF Slot(1) + Count < MAX_PROCS THEN Slot(1) + Count ELSE Slot(1) + Count - MAX_PROCS
      BY <1>1, <2>1, Wrap
    <3>5. Place(Slot(Count), 1) = Place(Slot(1), Count)
      BY <1>1, <3>1, <3>2, <3>3, <3>4
    <3> QED
      BY <3>5 DEF Place
  <2>4. (Slot(Count) + 1) % MAX_PROCS \in Tid
    BY <2>2, WrapOne DEF Place
  <2>5. sq_tail' = Slot(Count)'
    BY <1>4, <1>5, <2>3 DEF Slot
  <2> QED
    BY <1>1, <1>4, <2>1, <2>2, <2>4, <2>5
<1>7. \A i \in 0 .. Count - 1 : At(i)' = IF i = Count - 1 THEN At(0) ELSE At(i + 1)
  <2> TAKE i \in 0 .. Count - 1
  <2>1. At(i)' = sched_queue'[Slot(i + 1)]
    BY <1>6 DEF At
  <2>2. CASE i = Count - 1
    <3>1. i + 1 = Count
      BY <1>1, <2>2
    <3> QED
      BY <1>1, <1>4, <1>6, <2>1, <2>2, <3>1 DEF SchedTypeOK
  <2>3. CASE i # Count - 1
    <3>1. i + 1 \in 1 .. MAX_PROCS - 1 /\ i + 1 # Count
      BY <1>1, <2>3
    <3>2. Slot(i + 1) \in Tid /\ Slot(i + 1) # Slot(Count)
      BY <1>1, <3>1, SlotsApart
    <3> QED
      BY <1>1, <1>4, <1>6, <2>1, <2>3, <3>2 DEF At, SchedTypeOK
  <2> QED
    BY <2>2, <2>3
<1>8. sched_queue' \in [Tid -> Tid \cup {-1}]
  BY <1>1, <1>3, <1>4, <1>6 DEF SchedTypeOK
<1> QED
  BY <1>1, <1>3, <1>4, <1>5, <1>6, <1>7, <1>8 DEF SchedTypeOK

-----------------------------------------------------------------------------
(* The invariant. *)

\* The invariant holds at boot.
LEMMA SchedInitInv == ASSUME SchedInit PROVE SchedInv
<1>1. SchedTypeOK
  BY DEF SchedInit, SchedTypeOK
<1>2. Count = 0
  BY DEF SchedInit, Count
<1>3. Slot(0) = 0
  BY DEF SchedInit, Slot
<1> QED
  BY <1>1, <1>2, <1>3 DEF SchedInit, SchedInv, Filled, Started, RingExact, RunsOnlyQueued, PassedOver

\* RingExact, in terms of the i-th waiting process.
LEMMA RingIs ==
  RingExact <=> /\ sq_tail = Slot(Count)
                /\ {At(i) : i \in 0 .. Count - 1} = queued
                /\ \A i, j \in 0 .. Count - 1 : At(i) = At(j) => i = j
  BY DEF RingExact, At

\* A step that leaves the ring alone.
LEMMA RingKept ==
  ASSUME SchedInv, UNCHANGED <<ringVars, queued, age>>
  PROVE  RingExact' /\ PassedOver' /\ Count' = Count
<1>1. UNCHANGED <<sched_queue, sq_head, sq_tail, sq_space_left, queued, age>>
  BY DEF ringVars
<1> QED
  BY <1>1 DEF SchedInv, RingExact, PassedOver, At, Slot, Count

\* create_process.
LEMMA CreateInv == ASSUME SchedInv, CreateProcess PROVE SchedInv'
<1>1. PICK t \in Tid : Free(t) /\ present' = [present EXCEPT ![t] = TRUE] /\ tid' = t
  BY DEF CreateProcess
<1>2. /\ pc = "boot" /\ pc' = "created" /\ SchedTypeOK /\ Count \in 0 .. MAX_PROCS
      /\ UNCHANGED <<ringVars, current_proc, ticks, handles, queued, age>>
  BY CountIs DEF SchedInv, CreateProcess
<1>3. t = Count
  BY <1>1, <1>2 DEF SchedInv, Filled, Free
<1>4. RingExact' /\ PassedOver' /\ Count' = Count
  BY <1>2, RingKept
<1>5. SchedTypeOK'
  BY <1>1, <1>2 DEF SchedTypeOK, ringVars
<1>6. Filled'
  BY <1>1, <1>2, <1>3, <1>4 DEF SchedInv, Filled, SchedTypeOK
<1>7. Started' /\ RunsOnlyQueued'
  BY <1>2 DEF SchedInv, Started, RunsOnlyQueued
<1> QED
  BY <1>4, <1>5, <1>6, <1>7 DEF SchedInv

\* enqueue_proc.
LEMMA EnqueueInv == ASSUME SchedInv, EnqueueProc PROVE SchedInv'
<1>1. /\ pc = "created" /\ pc' = "boot" /\ SchedTypeOK /\ tid = Count /\ tid \in Tid
      /\ queued = 0 .. Count - 1 /\ Count \in 0 .. MAX_PROCS - 1
      /\ queued' = queued \cup {tid} /\ age' = [age EXCEPT ![tid] = 0]
      /\ UNCHANGED <<present, sq_head, current_proc, ticks, handles, tid>>
  BY CountIs DEF SchedInv, EnqueueProc, Filled
<1>2. queued' = 0 .. Count /\ Count' = Count + 1
  BY <1>1, EnqueueEffect
<1>3. SchedTypeOK'
  BY <1>1, <1>2, EnqueueEffect DEF SchedTypeOK
<1>4. Filled'
  BY <1>1, <1>2 DEF SchedInv, Filled
<1>5. Started' /\ RunsOnlyQueued'
  BY <1>1 DEF SchedInv, Started, RunsOnlyQueued
<1>6. \A i \in 0 .. Count : At(i)' = IF i = Count THEN Count ELSE At(i)
  BY <1>1, EnqueueEffect
<1>7. \A i \in 0 .. Count - 1 : At(i) \in 0 .. Count - 1
  BY <1>1, RingIs DEF SchedInv
<1>8. RingExact'
  <2>1. {At(i)' : i \in 0 .. Count} = 0 .. Count
    <3>1. \A x \in 0 .. Count - 1 : \E i \in 0 .. Count - 1 : x = At(i)
      BY <1>1, RingIs DEF SchedInv
    <3>2. ASSUME NEW i \in 0 .. Count PROVE At(i)' \in 0 .. Count
      BY <1>1, <1>6, <1>7
    <3>3. ASSUME NEW x \in 0 .. Count PROVE \E i \in 0 .. Count : x = At(i)'
      <4>1. CASE x = Count
        BY <1>1, <1>6, <4>1
      <4>2. CASE x # Count
        <5>1. PICK i \in 0 .. Count - 1 : x = At(i)
          BY <1>1, <3>1, <4>2
        <5>2. i \in 0 .. Count /\ i # Count
          BY <1>1
        <5>3. x = At(i)'
          BY <1>6, <5>1, <5>2
        <5> QED
          BY <5>2, <5>3
      <4> QED
        BY <4>1, <4>2
    <3> QED
      BY <3>2, <3>3
  <2>2. \A i, j \in 0 .. Count : At(i)' = At(j)' => i = j
    BY <1>1, <1>6, <1>7, RingIs DEF SchedInv
  <2>3. Count' - 1 = Count
    BY <1>1, <1>2
  <2>4. (sq_tail = Slot(Count))'
    BY EnqueueEffect
  <2> QED
    BY <1>2, <2>1, <2>2, <2>3, <2>4 DEF RingExact, At
<1>9. PassedOver'
  <2>1. ASSUME NEW i \in 0 .. Count PROVE age'[At(i)'] <= Count - i
    <3>1. CASE i = Count
      BY <1>1, <1>6, <3>1 DEF SchedTypeOK
    <3>2. CASE i # Count
      <4>1. At(i)' = At(i) /\ At(i) \in 0 .. Count - 1
        BY <1>1, <1>6, <1>7, <3>2
      <4>2. age'[At(i)] = age[At(i)] /\ age[At(i)] \in Nat /\ age[At(i)] <= Count - 1 - i
        BY <1>1, <3>2, <4>1 DEF SchedInv, PassedOver, SchedTypeOK
      <4> QED
        BY <1>1, <4>1, <4>2
    <3> QED
      BY <3>1, <3>2
  <2>2. Count' - 1 = Count
    BY <1>1, <1>2
  <2> QED
    BY <2>1, <2>2 DEF PassedOver
<1> QED
  BY <1>3, <1>4, <1>5, <1>8, <1>9 DEF SchedInv

\* arch_start_running_procs.
LEMMA StartInv == ASSUME SchedInv, ArchStartRunningProcs PROVE SchedInv'
<1>1. /\ pc = "boot" /\ queued # {} /\ pc' = "started" /\ handles' = Append(handles, SCHED_EVERY)
      /\ UNCHANGED <<present, ringVars, current_proc, ticks, tid, queued, age>>
  BY DEF ArchStartRunningProcs
<1>2. RingExact' /\ PassedOver' /\ Count' = Count
  BY <1>1, RingKept
<1>3. handles' = <<SCHED_EVERY>>
  BY <1>1 DEF SchedInv, Started
<1>4. Count > 0 /\ Count \in 0 .. MAX_PROCS
  BY <1>1, CountIs DEF SchedInv, Filled
<1>5. SchedTypeOK'
  BY <1>1, <1>3 DEF SchedInv, SchedTypeOK, ringVars, SCHED_EVERY
<1>6. Filled' /\ Started' /\ RunsOnlyQueued'
  BY <1>1, <1>2, <1>3, <1>4 DEF SchedInv, Filled, Started, RunsOnlyQueued
<1> QED
  BY <1>2, <1>5, <1>6 DEF SchedInv

\* timer_tick, with the rotation it makes when its handle is due.
LEMMA TickInv == ASSUME SchedInv, TimerTick PROVE SchedInv'
<1>1. /\ pc = "started" /\ SchedTypeOK /\ ticks' = (ticks + 1) % TickWrap
      /\ UNCHANGED <<present, handles, pc, tid, queued>>
  BY DEF SchedInv, TimerTick
<1>2. /\ Count \in 1 .. MAX_PROCS /\ Count' = Count /\ current_proc' = At(0)
      /\ At(0) \in queued /\ Aged(At(0)) /\ queued = 0 .. Count - 1
      /\ \A i \in 0 .. Count - 1 : At(i)' = IF i = Count - 1 THEN At(0) ELSE At(i + 1)
  BY <1>1, TickEffect, CountIs DEF SchedInv, Filled
<1>3. SchedTypeOK'
  <2>1. ticks' \in Nat
    BY <1>1 DEF SchedTypeOK
  <2>2. age' \in [Tid -> Nat]
    BY <1>1, <1>2 DEF SchedTypeOK, Aged
  <2>3. current_proc' \in Tid \cup {-1}
    BY <1>1, <1>2 DEF SchedTypeOK
  <2> QED
    BY <1>1, <2>1, <2>2, <2>3, TickEffect DEF SchedTypeOK
<1>4. Filled' /\ Started'
  BY <1>1, <1>2 DEF SchedInv, Filled, Started
<1>5. RunsOnlyQueued'
  <2>1. current_proc' \in queued' /\ current_proc' \in 0 .. Count - 1 /\ current_proc' \in Tid
    BY <1>1, <1>2
  <2>2. present'[current_proc'] /\ current_proc' # -1
    BY <1>1, <1>2, <2>1 DEF SchedInv, Filled
  <2> QED
    BY <2>1, <2>2 DEF RunsOnlyQueued
<1>6. \A i \in 0 .. Count - 1 : At(i) \in queued
  BY RingIs DEF SchedInv
<1>7. RingExact'
  <2>1. ASSUME NEW i \in 0 .. Count - 1 PROVE At(i)' \in queued
    <3>1. CASE i = Count - 1
      BY <1>2, <3>1
    <3>2. CASE i # Count - 1
      <4>1. i + 1 \in 0 .. Count - 1
        BY <1>2, <3>2
      <4> QED
        BY <1>2, <1>6, <3>2, <4>1
    <3> QED
      BY <3>1, <3>2
  <2>2. ASSUME NEW x \in queued PROVE \E i \in 0 .. Count - 1 : x = At(i)'
    <3>1. PICK j \in 0 .. Count - 1 : x = At(j)
      BY RingIs DEF SchedInv
    <3>2. CASE j = 0
      <4>1. Count - 1 \in 0 .. Count - 1
        BY <1>2
      <4> QED
        BY <1>2, <3>1, <3>2, <4>1
    <3>3. CASE j # 0
      <4>1. j - 1 \in 0 .. Count - 1 /\ j - 1 # Count - 1 /\ (j - 1) + 1 = j
        BY <1>2, <3>3
      <4>2. At(j - 1)' = At(j)
        BY <1>2, <4>1
      <4> QED
        BY <3>1, <4>1, <4>2
    <3> QED
      BY <3>2, <3>3
  <2>3. {At(i)' : i \in 0 .. Count - 1} = queued
    BY <2>1, <2>2
  <2>4. ASSUME NEW i \in 0 .. Count - 1, NEW j \in 0 .. Count - 1, At(i)' = At(j)' PROVE i = j
    <3>1. \A k, l \in 0 .. Count - 1 : At(k) = At(l) => k = l
      BY RingIs DEF SchedInv
    <3> DEFINE from(k) == IF k = Count - 1 THEN 0 ELSE k + 1
    <3>2. /\ from(i) \in 0 .. Count - 1 /\ from(j) \in 0 .. Count - 1
          /\ At(i)' = At(from(i)) /\ At(j)' = At(from(j))
      BY <1>2
    <3>3. from(i) = from(j)
      BY <2>4, <3>1, <3>2
    <3> QED
      BY <1>2, <3>3
  <2>5. (sq_tail = Slot(Count))'
    BY TickEffect
  <2> QED
    BY <1>1, <1>2, <2>3, <2>4, <2>5 DEF RingExact, At
<1>8. PassedOver'
  <2>1. ASSUME NEW i \in 0 .. Count - 1 PROVE age'[At(i)'] <= Count - 1 - i
    <3>1. CASE i = Count - 1
      BY <1>1, <1>2, <3>1 DEF Aged, SchedTypeOK
    <3>2. CASE i # Count - 1
      <4>1. At(i)' = At(i + 1) /\ i + 1 \in 0 .. Count - 1
        BY <1>2, <3>2
      <4>2. At(i + 1) \in Tid /\ age[At(i + 1)] \in Nat /\ age[At(i + 1)] <= Count - 1 - (i + 1)
        BY <1>1, <1>6, <4>1 DEF SchedInv, PassedOver, SchedTypeOK
      <4>3. age'[At(i + 1)] = IF At(i + 1) = At(0) THEN 0 ELSE IF At(i + 1) \in queued THEN age[At(i + 1)] + 1 ELSE 0
        BY <1>2, <4>2 DEF Aged
      <4> QED
        BY <1>2, <4>1, <4>2, <4>3
    <3> QED
      BY <3>1, <3>2
  <2> QED
    BY <1>2, <2>1 DEF PassedOver
<1> QED
  BY <1>3, <1>4, <1>5, <1>7, <1>8 DEF SchedInv

\* Every step keeps the invariant.
LEMMA SchedNextInv == SchedInv /\ [SchedNext]_schedVars => SchedInv'
<1> SUFFICES ASSUME SchedInv, [SchedNext]_schedVars PROVE SchedInv'
  OBVIOUS
<1>1. CASE UNCHANGED schedVars
  <2>1. UNCHANGED <<ringVars, present, current_proc, ticks, handles, pc, tid, queued, age>>
    BY <1>1 DEF schedVars
  <2>2. RingExact' /\ PassedOver' /\ Count' = Count
    BY <2>1, RingKept
  <2>3. SchedTypeOK'
    BY <2>1 DEF SchedInv, SchedTypeOK, ringVars
  <2> QED
    BY <2>1, <2>2, <2>3 DEF SchedInv, Filled, Started, RunsOnlyQueued
<1> QED
  BY <1>1, CreateInv, EnqueueInv, StartInv, TickInv DEF SchedNext

(* SchedInv holds at every moment of the scheduler: the process table and  *)
(* the ring fill up together, and the ring holds each process once         *)
(* (create_process, enqueue_proc, schedule_set_current_proc).              *)
THEOREM SchedInvariant == SchedSpec => []SchedInv
<1>1. SchedInit => SchedInv
  BY SchedInitInv
<1> QED
  BY <1>1, SchedNextInv, PTL DEF SchedSpec

(* No process is lost from the ring or entered twice, whatever MAX_PROCS   *)
(* is, also when all slots are in use (enqueue_proc, dequeue_proc).        *)
THEOREM RingCorrect == SchedSpec => []RingExact
<1>1. SchedInv => RingExact
  BY DEF SchedInv
<1> QED
  BY <1>1, SchedInvariant, PTL

(* Only a process that exists and was enqueued is made current, and there  *)
(* always is one after the first tick (schedule_set_current_proc).         *)
THEOREM RunsCorrect == SchedSpec => []RunsOnlyQueued
<1>1. SchedInv => RunsOnlyQueued
  BY DEF SchedInv
<1> QED
  BY <1>1, SchedInvariant, PTL

(* No process waits for more turns than there are others in the ring       *)
(* (schedule_set_current_proc).                                            *)
THEOREM WaitBounded == SchedSpec => []BoundedWait
<1>1. ASSUME SchedInv PROVE BoundedWait
  <2>1. SchedTypeOK /\ Count \in 0 .. MAX_PROCS
    BY <1>1, CountIs DEF SchedInv
  <2>2. ASSUME NEW t \in queued PROVE age[t] < Count
    <3>1. PICK i \in 0 .. Count - 1 : t = At(i)
      BY <1>1, RingIs DEF SchedInv
    <3>2. age[t] \in Nat /\ age[t] <= Count - 1 - i
      BY <1>1, <2>1, <3>1 DEF SchedInv, PassedOver, SchedTypeOK
    <3> QED
      BY <2>1, <3>2
  <2> QED
    BY <2>2 DEF BoundedWait
<1> QED
  BY <1>1, SchedInvariant, PTL

-----------------------------------------------------------------------------
(* The refinement. *)

WaitingInOrder ==
  /\ Waiting \in Seq(Tid) /\ Len(Waiting) = Count /\ Count \in Nat
  /\ \A i \in 1 .. Count : Waiting[i] = At(i - 1) /\ At(i - 1) \in queued

\* Waiting is the sequence of the queued processes, each once.
LEMMA WaitingIs == SchedInv => WaitingInOrder
<1> SUFFICES ASSUME SchedInv PROVE WaitingInOrder
  OBVIOUS
<1>1. Count \in 0 .. MAX_PROCS /\ queued \subseteq Tid
  BY CountIs DEF SchedInv, SchedTypeOK
<1>2. Waiting = [i \in 1 .. Count |-> At(i - 1)]
  BY DEF Waiting, At
<1>3. ASSUME NEW i \in 1 .. Count PROVE At(i - 1) \in queued
  <2>1. i - 1 \in 0 .. Count - 1
    BY <1>1
  <2> QED
    BY <2>1, RingIs DEF SchedInv
<1>4. Waiting \in [1 .. Count -> Tid]
  BY <1>1, <1>2, <1>3
<1> QED
  BY <1>1, <1>2, <1>3, <1>4 DEF WaitingInOrder

\* enqueue_proc admits a process at the end of the abstract queue.
LEMMA EnqueueIsAdmit == ASSUME SchedInv, SchedInv', EnqueueProc PROVE Queue!Admit(tid)
<1>1. /\ Waiting \in Seq(Tid) /\ Len(Waiting) = Count /\ Count \in Nat
      /\ \A i \in 1 .. Count : Waiting[i] = At(i - 1) /\ At(i - 1) \in queued
  BY WaitingIs DEF WaitingInOrder
<1>2. tid \in Tid /\ tid \notin queued
  BY <1>1 DEF SchedInv, Filled, EnqueueProc
<1>3. /\ Waiting' \in Seq(Tid) /\ Len(Waiting') = Count + 1
      /\ \A i \in 1 .. Count + 1 : Waiting'[i] = At(i - 1)'
  <2>1. Count' = Count + 1
    BY EnqueueEffect
  <2>2. WaitingInOrder'
    BY WaitingIs, PTL
  <2> QED
    BY <2>1, <2>2 DEF WaitingInOrder
<1>4. Append(Waiting, tid) \in Seq(Tid) /\ Len(Append(Waiting, tid)) = Count + 1
      /\ \A i \in 1 .. Count + 1 : Append(Waiting, tid)[i] = IF i = Count + 1 THEN tid ELSE Waiting[i]
  BY <1>1, <1>2, AppendProperties
<1>5. ASSUME NEW i \in 1 .. Count + 1 PROVE Waiting'[i] = Append(Waiting, tid)[i]
  <2>1. i - 1 \in 0 .. Count /\ (i - 1 = Count <=> i = Count + 1)
    BY <1>1
  <2>2. At(i - 1)' = IF i - 1 = Count THEN tid ELSE At(i - 1)
    BY <2>1, EnqueueEffect
  <2>3. CASE i = Count + 1
    BY <1>3, <1>4, <2>1, <2>2, <2>3
  <2>4. CASE i # Count + 1
    <3>1. i \in 1 .. Count
      BY <1>1, <2>4
    <3> QED
      BY <1>1, <1>3, <1>4, <2>1, <2>2, <2>4, <3>1
  <2> QED
    BY <2>3, <2>4
<1>6. Waiting' = Append(Waiting, tid)
  BY <1>3, <1>4, <1>5, SeqEqual
<1>7. tid \notin Queue!Queued
  BY <1>1, <1>2 DEF Queue!Queued
<1> QED
  BY <1>6, <1>7 DEF Queue!Admit, EnqueueProc

\* Every tick rotates the abstract queue: the handle is due at each of them.
LEMMA TickIsRotate == ASSUME SchedInv, SchedInv', TimerTick PROVE Queue!Rotate
<1>1. /\ Waiting \in Seq(Tid) /\ Len(Waiting) = Count /\ Count \in Nat \ {0}
      /\ \A i \in 1 .. Count : Waiting[i] = At(i - 1)
  BY WaitingIs, TickEffect DEF WaitingInOrder
<1>2. /\ Waiting' \in Seq(Tid) /\ Len(Waiting') = Count
      /\ \A i \in 1 .. Count : Waiting'[i] = At(i - 1)'
  <2>1. WaitingInOrder'
    BY WaitingIs, PTL
  <2> QED
    BY <2>1, TickEffect DEF WaitingInOrder
<1>3. /\ Waiting # << >> /\ Head(Waiting) = At(0) /\ At(0) \in Tid
      /\ Tail(Waiting) \in Seq(Tid) /\ Len(Tail(Waiting)) = Count - 1
      /\ \A i \in 1 .. Count - 1 : Tail(Waiting)[i] = Waiting[i + 1]
  <2>1. Waiting # << >>
    BY <1>1, EmptySeq
  <2>2. Head(Waiting) = At(0)
    <3>1. 1 \in 1 .. Count /\ 1 - 1 = 0
      BY <1>1
    <3> QED
      BY <1>1, <2>1, <3>1
  <2> QED
    BY <1>1, <2>1, <2>2, HeadTailProperties
<1> DEFINE rotated == Append(Tail(Waiting), Head(Waiting))
<1>4. /\ rotated \in Seq(Tid) /\ Len(rotated) = Count
      /\ \A i \in 1 .. Count - 1 : rotated[i] = Waiting[i + 1]
      /\ rotated[Count] = At(0)
  <2>1. /\ rotated \in Seq(Tid) /\ Len(rotated) = (Count - 1) + 1
        /\ \A i \in 1 .. Count - 1 : rotated[i] = Tail(Waiting)[i]
        /\ rotated[(Count - 1) + 1] = At(0)
    BY <1>3, AppendProperties
  <2>2. (Count - 1) + 1 = Count
    BY <1>1
  <2> QED
    BY <1>3, <2>1, <2>2
<1> HIDE DEF rotated
<1>5. ASSUME NEW i \in 1 .. Count PROVE Waiting'[i] = rotated[i]
  <2>1. i - 1 \in 0 .. Count - 1 /\ (i - 1) + 1 = i /\ (i - 1 = Count - 1 <=> i = Count)
    BY <1>1
  <2>2. Waiting'[i] = IF i = Count THEN At(0) ELSE At(i)
    BY <1>2, <2>1, TickEffect
  <2>3. CASE i = Count
    BY <1>4, <2>2, <2>3
  <2>4. CASE i # Count
    <3>1. i \in 1 .. Count - 1 /\ i + 1 \in 1 .. Count /\ (i + 1) - 1 = i
      BY <1>1, <2>4
    <3> QED
      BY <1>1, <1>4, <2>2, <2>4, <3>1
  <2> QED
    BY <2>3, <2>4
<1>6. Waiting' = rotated
  BY <1>2, <1>4, <1>5, SeqEqual
<1> QED
  BY <1>3, <1>6, TickEffect DEF Queue!Rotate, rotated

(* The ring of thread.c implements a first in, first out queue: a process  *)
(* is admitted once, at the back, and each tick runs the first and moves   *)
(* it to the back (enqueue_proc, dequeue_proc, schedule_set_current_proc). *)
THEOREM QueueRefinement == SchedSpec => RefinesQueue
<1>1. SchedInit => Queue!QueueInit
  BY DEF SchedInit, Queue!QueueInit, Waiting, Count
<1>2. ASSUME SchedInv, SchedInv', [SchedNext]_schedVars
      PROVE  [Queue!QueueNext]_(Queue!queueVars)
  <2>1. CASE UNCHANGED <<ringVars, current_proc>>
    BY <2>1 DEF ringVars, Queue!queueVars, Waiting, Count, Slot
  <2>2. CASE EnqueueProc
    <3>1. tid \in Tid
      BY <1>2, <2>2 DEF SchedInv, Filled, EnqueueProc
    <3> QED
      BY <1>2, <2>2, <3>1, EnqueueIsAdmit DEF Queue!QueueNext
  <2>3. CASE TimerTick
    BY <1>2, <2>3, TickIsRotate DEF Queue!QueueNext
  <2> QED
    BY <1>2, <2>1, <2>2, <2>3 DEF SchedNext, CreateProcess, ArchStartRunningProcs, schedVars
<1> QED
  BY <1>1, <1>2, SchedInvariant, PTL DEF SchedSpec, RefinesQueue, Queue!QueueSpec
=============================================================================
