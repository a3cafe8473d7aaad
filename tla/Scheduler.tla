------------------------------- MODULE Scheduler -------------------------------
(***************************************************************************)
(* Process table, run queue and timer: generic/proc/thread.c,              *)
(* generic/timer.c, and create_process, schedule_set_current_proc and      *)
(* arch_start_running_procs of arch/x64/thread/process.c, driven by the    *)
(* boot code of generic/main.c and then by the timer interrupt.            *)
(*                                                                         *)
(* The run queue is a ring of MAX_PROCS slots.  main creates a process and *)
(* enqueues it, once in the tree; here up to MAX_PROCS times, and only     *)
(* then starts the timer.  No process ever leaves the table.               *)
(***************************************************************************)
EXTENDS Integers, Sequences

CONSTANTS MAX_PROCS,   \* slots of the process table and of the ring
          TickWrap     \* ticks is an unsigned 64 bit counter: 2^64

ASSUME MaxProcsAssumption == MAX_PROCS \in Nat \ {0}
ASSUME TickAssumption == TickWrap \in Nat \ {0}

Tid == 0 .. MAX_PROCS - 1

VARIABLES
  present,                              \* procs[i].present
  sched_queue, sq_head, sq_tail, sq_space_left,
  current_proc,
  ticks, handles,                       \* timer.c: n of each registered handle
  pc, tid,                              \* main: where it is, its local tid
  queued, age                           \* history: tids enqueued; schedules since
                                        \* each was enqueued or last ran

ringVars == <<sched_queue, sq_head, sq_tail, sq_space_left>>
schedVars == <<present, ringVars, current_proc, ticks, handles, pc, tid, queued, age>>

SchedInit ==
  /\ present = [i \in Tid |-> FALSE]
  /\ sched_queue = [i \in Tid |-> 0]
  /\ sq_head = 0 /\ sq_tail = 0 /\ sq_space_left = MAX_PROCS
  /\ current_proc = -1
  /\ ticks = 0 /\ handles = <<>>
  /\ pc = "boot" /\ tid = -1
  /\ queued = {} /\ age = [i \in Tid |-> 0]

-----------------------------------------------------------------------------
sq_full  == sq_space_left = 0
sq_empty == sq_space_left = MAX_PROCS

FreeAny(t) == t = 0   \* faulty variant: present is not looked at

Free(t) == ~present[t] /\ \A u \in 0 .. t - 1 : present[u]   \* the first free slot

(* create_process; main calls it while the table has room.                 *)
CreateProcess ==
  /\ pc = "boot"
  /\ \E t \in Tid :
       /\ Free(t)
       /\ present' = [present EXCEPT ![t] = TRUE]
       /\ tid' = t
  /\ pc' = "created"
  /\ UNCHANGED <<ringVars, current_proc, ticks, handles, queued, age>>

(* enqueue_proc(tid), from main, which does not look at the -1 of a full   *)
(* queue.                                                                  *)
EnqueueProc ==
  /\ pc = "created"
  /\ IF sq_full
       THEN UNCHANGED <<sched_queue, sq_tail, sq_space_left>>
       ELSE /\ sched_queue' = [sched_queue EXCEPT ![sq_tail] = tid]
            /\ sq_tail' = (sq_tail + 1) % MAX_PROCS
            /\ sq_space_left' = sq_space_left - 1
  /\ queued' = queued \cup {tid}
  /\ age' = [age EXCEPT ![tid] = 0]
  /\ pc' = "boot"
  /\ UNCHANGED <<present, sq_head, current_proc, ticks, handles, tid>>

SCHED_EVERY == 1   \* add_timer_handle(&schedule_set_current_proc, 1)

StartNoHandle ==   \* faulty variant: add_timer_handle is left out
  /\ pc = "boot" /\ queued # {}
  /\ pc' = "started"
  /\ UNCHANGED <<present, ringVars, current_proc, ticks, handles, tid, queued, age>>

ArchStartRunningProcs ==
  /\ pc = "boot" /\ queued # {}
  /\ handles' = Append(handles, SCHED_EVERY)
  /\ pc' = "started"
  /\ UNCHANGED <<present, ringVars, current_proc, ticks, tid, queued, age>>

Aged(to_run) ==   \* history: every process that is passed over ages
  age' = [t \in Tid |-> IF t = to_run THEN 0 ELSE IF t \in queued THEN age[t] + 1 ELSE 0]

(* Faulty variants of schedule_set_current_proc: what was dequeued is not  *)
(* put back; the head is read but does not move.                           *)

ScheduleNoRequeue ==
  LET to_run == IF sq_empty THEN -1 ELSE sched_queue[sq_head]
  IN /\ sq_head' = IF sq_empty THEN sq_head ELSE (sq_head + 1) % MAX_PROCS
     /\ sq_space_left' = IF sq_empty THEN sq_space_left ELSE sq_space_left + 1
     /\ current_proc' = to_run
     /\ Aged(to_run)
     /\ UNCHANGED <<sched_queue, sq_tail>>

ScheduleSameHead ==
  /\ current_proc' = IF sq_empty THEN -1 ELSE sched_queue[sq_head]
  /\ Aged(current_proc')
  /\ UNCHANGED ringVars

(* schedule_set_current_proc: dequeue_proc, then enqueue_proc of what it   *)
(* returned (-1 when the queue is empty).                                  *)
ScheduleSetCurrentProc ==
  LET to_run == IF sq_empty THEN -1 ELSE sched_queue[sq_head]
      space  == IF sq_empty THEN sq_space_left ELSE sq_space_left + 1
  IN /\ sq_head' = IF sq_empty THEN sq_head ELSE (sq_head + 1) % MAX_PROCS
     /\ IF space = 0
          THEN UNCHANGED <<sched_queue, sq_tail>> /\ sq_space_left' = space
          ELSE /\ sched_queue' = [sched_queue EXCEPT ![sq_tail] = to_run]
               /\ sq_tail' = (sq_tail + 1) % MAX_PROCS
               /\ sq_space_left' = space - 1
     /\ current_proc' = to_run
     /\ Aged(to_run)

(* timer_tick.  One handle is registered, so at most one is due.           *)
Due(now) == \E i \in 1 .. Len(handles) : now % handles[i] = 0

TimerTick ==
  /\ pc = "started"
  /\ ticks' = (ticks + 1) % TickWrap
  /\ IF Due(ticks') THEN ScheduleSetCurrentProc
                    ELSE UNCHANGED <<ringVars, current_proc, age>>
  /\ UNCHANGED <<present, handles, pc, tid, queued>>

SchedNext == CreateProcess \/ EnqueueProc \/ ArchStartRunningProcs \/ TimerTick

SchedSpec == SchedInit /\ [][SchedNext]_schedVars

-----------------------------------------------------------------------------
(* Type invariant: head and tail index the ring, the free space is within  *)
(* the ring, and the ring holds tids (or the -1 of an empty queue).        *)
SchedTypeOK ==
  /\ present \in [Tid -> BOOLEAN]
  /\ sched_queue \in [Tid -> Tid \cup {-1}]
  /\ sq_head \in Tid /\ sq_tail \in Tid /\ sq_space_left \in 0 .. MAX_PROCS
  /\ current_proc \in Tid \cup {-1}
  /\ ticks \in Nat /\ handles \in Seq(Nat \ {0})
  /\ pc \in {"boot", "created", "started"} /\ tid \in Tid \cup {-1}
  /\ queued \subseteq Tid /\ age \in [Tid -> Nat]

Count == MAX_PROCS - sq_space_left
Slot(i) == (sq_head + i) % MAX_PROCS      \* slot of the i-th waiting process, from 0

(* The ring holds every process that was enqueued, each in exactly one     *)
(* slot between head and tail: enqueue_proc and schedule lose none, even   *)
(* when all MAX_PROCS slots are in use.                                    *)
RingExact ==
  /\ sq_tail = Slot(Count)
  /\ {sched_queue[Slot(i)] : i \in 0 .. Count - 1} = queued
  /\ \A i, j \in 0 .. Count - 1 : sched_queue[Slot(i)] = sched_queue[Slot(j)] => i = j

(* Only a present process that was enqueued ever becomes current, and once *)
(* one has run the kernel never falls back to "none".                      *)
RunsOnlyQueued ==
  /\ current_proc # -1 => current_proc \in queued /\ present[current_proc]
  /\ ticks > 0 => current_proc # -1

(* A queued process is passed over at most once by each of the others.     *)
BoundedWait == \A t \in queued : age[t] < Count

(* The ring is a first in, first out queue.                                *)
Waiting == [i \in 1 .. Count |-> sched_queue[Slot(i - 1)]]
Queue == INSTANCE RunQueue WITH queue <- Waiting, running <- current_proc
RefinesQueue == Queue!QueueSpec
=============================================================================
