------------------------------- MODULE RunQueue -------------------------------
(***************************************************************************)
(* What the scheduler promises: the processes given to it wait in a first  *)
(* in, first out queue, and each call moves the first one to the back and  *)
(* names it as the one to run.                                             *)
(***************************************************************************)
EXTENDS Integers, Sequences

CONSTANT Tid

VARIABLES queue, running

Queued == {queue[i] : i \in 1 .. Len(queue)}

QueueInit == queue = <<>> /\ running = -1

Admit(t) ==
  /\ t \notin Queued
  /\ queue' = Append(queue, t)
  /\ UNCHANGED running

Rotate ==
  /\ queue # <<>>
  /\ queue' = Append(Tail(queue), Head(queue))
  /\ running' = Head(queue)

QueueNext == Rotate \/ \E t \in Tid : Admit(t)

queueVars == <<queue, running>>

QueueSpec == QueueInit /\ [][QueueNext]_queueVars
=============================================================================
