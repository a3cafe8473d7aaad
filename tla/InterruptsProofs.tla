---------------------------- MODULE InterruptsProofs ----------------------------
(***************************************************************************)
(* What holds of preemption for any number of processes, any program and   *)
(* any placing of its system calls: the scheduler does what it does alone, *)
(* and a process that was never set back resumes where it stopped.         *)
(***************************************************************************)
EXTENDS Interrupts, SchedulerProofs

USE LengthAssumption, MaxProcsAssumption DEF Tid

Position == 0 .. Length - 1
Vector == Raised \cup {SYSCALL_VECTOR}

CpuTypeOK ==
  /\ ctx \in [Tid -> Position] /\ reached \in [Tid -> Position]
  /\ pos \in Position /\ setBack \subseteq Tid /\ mode \in {"boot", "user"}
  /\ gates \in Seq(Vector)

(* No process runs before the first tick, so none is in a system call, and *)
(* before the timer starts none has a history.                             *)
Fresh ==
  /\ mode = "boot" <=> current_proc = -1
  /\ \A i \in 1 .. Len(gates) : gates[i] = SYSCALL_VECTOR => mode = "user"
  /\ pc # "started" => setBack = {} /\ \A t \in Tid : ctx[t] = 0 /\ reached[t] = 0

PreemptInv ==
  /\ SchedInv /\ CpuTypeOK /\ Fresh
  /\ OthersResume /\ AloneNeverSetBack

-----------------------------------------------------------------------------
\* The invariant holds at boot.
LEMMA PreemptInitInv == Init => PreemptInv
<1> SUFFICES ASSUME Init PROVE PreemptInv
  OBVIOUS
<1>1. SchedInv /\ SchedInit
  BY SchedInitInv DEF Init
<1>2. CpuTypeOK
  BY DEF Init, CpuTypeOK, Position
<1> QED
  BY <1>1, <1>2 DEF Init, SchedInit, PreemptInv, Fresh, OthersResume, AloneNeverSetBack

(* Every step of the machine is one of the scheduler or leaves it alone.   *)
LEMMA SchedStep == [Next]_vars => [SchedNext]_schedVars
  BY DEF Next, vars, SchedNext, ArchInitialise, AtaInitDevice, Booting, UserStep, SyscallGate,
         SyscallDispatch, TimerInterrupt, Raise, IrqGate, IrqDispatch, Unhandled

\* With interrupts, the scheduler is still the one of Scheduler: no handler
\* touches its tables but the timer's (interrupt_dispatch, timer_tick).
THEOREM SchedulerWithin == Spec => SchedSpec
<1>1. Init => SchedInit
  BY DEF Init
<1> QED
  BY <1>1, SchedStep, PTL DEF Spec, SchedSpec

-----------------------------------------------------------------------------
(* The invariant. *)

\* Leaving a gate keeps the outer ones.
LEMMA FrontOfGates ==
  ASSUME gates \in Seq(Vector), gates # << >>
  PROVE  /\ Front(gates) \in Seq(Vector)
         /\ \A i \in 1 .. Len(Front(gates)) : i \in 1 .. Len(gates) /\ Front(gates)[i] = gates[i]
<1>1. Len(gates) \in Nat \ {0}
  BY EmptySeq
<1> QED
  BY <1>1 DEF Front

\* A step that leaves the scheduler and the contexts alone.
LEMMA QuietInv ==
  ASSUME PreemptInv, UNCHANGED <<schedVars, ctx, mode, pos, reached, setBack>>,
         gates' \in Seq(Vector),
         \A i \in 1 .. Len(gates') : gates'[i] = SYSCALL_VECTOR => mode = "user"
  PROVE  PreemptInv'
<1>1. SchedInv'
  BY SchedNextInv DEF PreemptInv
<1>2. CpuTypeOK'
  BY DEF PreemptInv, CpuTypeOK
<1>3. UNCHANGED <<queued, current_proc, sq_space_left, pc>>
  BY DEF schedVars, ringVars
<1> QED
  BY <1>1, <1>2, <1>3 DEF PreemptInv, Fresh, OthersResume, AloneNeverSetBack

\* The running process goes on.
LEMMA AdvanceInv ==
  ASSUME PreemptInv, mode = "user", Advance, UNCHANGED <<schedVars, ctx, mode, setBack>>,
         gates' \in Seq(Vector)
  PROVE  PreemptInv'
<1>1. SchedInv'
  BY SchedNextInv DEF PreemptInv
<1>2. UNCHANGED <<queued, current_proc, sq_space_left, pc>>
  BY DEF schedVars, ringVars
<1>3. current_proc \in Tid /\ pc = "started"
  BY DEF PreemptInv, Fresh, SchedInv, SchedTypeOK, Started
<1>4. pos' \in Position /\ reached' = [reached EXCEPT ![current_proc] = pos']
  BY DEF PreemptInv, CpuTypeOK, Position, Advance
<1>5. CpuTypeOK'
  BY <1>3, <1>4 DEF PreemptInv, CpuTypeOK
<1>6. OthersResume'
  <2>1. queued \subseteq Tid
    BY DEF PreemptInv, SchedInv, SchedTypeOK
  <2> QED
    BY <1>2, <1>3, <1>4, <2>1 DEF PreemptInv, OthersResume, CpuTypeOK
<1> QED
  BY <1>1, <1>2, <1>3, <1>5, <1>6 DEF PreemptInv, Fresh, AloneNeverSetBack

\* The steps of _start before the timer runs.
LEMMA BootingInv == ASSUME PreemptInv, Booting PROVE PreemptInv'
<1>1. /\ CreateProcess \/ EnqueueProc \/ ArchStartRunningProcs
      /\ UNCHANGED <<ctx, mode, gates, pos, reached, setBack>>
  BY DEF Booting, cpuVars
<1>2. SchedInv'
  BY <1>1, SchedNextInv DEF PreemptInv, SchedNext
<1>3. pc # "started" /\ UNCHANGED current_proc /\ mode = "boot" /\ setBack = {}
  BY <1>1 DEF PreemptInv, Fresh, SchedInv, Started, CreateProcess, EnqueueProc, ArchStartRunningProcs
<1>4. CpuTypeOK'
  BY <1>1 DEF PreemptInv, CpuTypeOK
<1>5. OthersResume'
  <2>1. queued' \subseteq Tid
    BY <1>2 DEF SchedInv, SchedTypeOK
  <2> QED
    BY <1>1, <1>3, <2>1 DEF PreemptInv, Fresh, OthersResume
<1> QED
  BY <1>1, <1>2, <1>3, <1>4, <1>5 DEF PreemptInv, Fresh, AloneNeverSetBack

\* A timer interrupt: the context is saved, and perhaps another restored.
LEMMA TimerInv == ASSUME PreemptInv, TimerInterrupt PROVE PreemptInv'
<1> DEFINE c == current_proc
           saved == c >= 0 /\ RipInUserMemory
<1>1. /\ TimerTick /\ SchedInv' /\ UNCHANGED <<reached, pc, queued, sq_space_left>> /\ pc = "started"
      /\ c \in Tid \cup {-1} /\ c' \in queued /\ c' \in Tid /\ (c # -1 => c \in queued)
      /\ queued = 0 .. Count - 1 /\ Count \in 0 .. MAX_PROCS /\ sq_space_left = MAX_PROCS - Count
      /\ queued \subseteq Tid
  <2>1. TimerTick /\ SchedInv /\ UNCHANGED <<reached, pc, queued>> /\ pc = "started"
    BY DEF TimerInterrupt, TimerTick, PreemptInv
  <2>2. SchedInv'
    BY <2>1, TickInv
  <2>3. c \in Tid \cup {-1} /\ queued \subseteq Tid /\ (c # -1 => c \in queued) /\ queued = 0 .. Count - 1
    BY <2>1 DEF SchedInv, SchedTypeOK, RunsOnlyQueued, Filled
  <2>4. Count \in 0 .. MAX_PROCS /\ sq_space_left = MAX_PROCS - Count
    BY <2>1, CountIs DEF SchedInv
  <2>5. Count' = Count /\ c' \in queued
    BY <2>1, TickEffect
  <2>6. sq_space_left' = sq_space_left
    BY <2>2, <2>4, <2>5, CountIs DEF SchedInv, SchedTypeOK, Count
  <2> QED
    BY <2>1, <2>2, <2>3, <2>4, <2>5, <2>6
<1>2. CASE c' = c
  <2>1. UNCHANGED <<ctx, mode, gates, pos, setBack>>
    BY <1>2 DEF TimerInterrupt
  <2>2. CpuTypeOK'
    BY <1>1, <2>1 DEF PreemptInv, CpuTypeOK
  <2> QED
    BY <1>1, <1>2, <2>1, <2>2 DEF PreemptInv, Fresh, OthersResume, AloneNeverSetBack
<1>3. CASE c' # c
  <2>1. /\ \/ saved /\ ctx' = [ctx EXCEPT ![c] = pos] /\ setBack' = setBack
           \/ ~saved /\ ctx' = ctx /\ setBack' = setBack \cup ({c} \ {-1})
        /\ mode' = "user" /\ gates' = << >> /\ pos' = ctx'[c']
    BY <1>3 DEF TimerInterrupt, Switched
  <2>2. saved => mode = "user" /\ c \in Tid
    BY <1>1 DEF RipInUserMemory
  <2>3. ctx' \in [Tid -> Position] /\ setBack' \subseteq Tid
    BY <1>1, <2>1, <2>2 DEF PreemptInv, CpuTypeOK
  <2>4. CpuTypeOK'
    BY <1>1, <2>1, <2>3 DEF PreemptInv, CpuTypeOK
  <2>5. OthersResume'
    <3> SUFFICES ASSUME NEW t \in queued \ setBack'
                 PROVE  reached[t] = IF t = c' THEN pos' ELSE ctx'[t]
      BY <1>1, <2>1 DEF OthersResume
    <3>1. t \in queued \ setBack /\ t \in Tid /\ (~saved => t # c)
      BY <1>1, <2>1
    <3>2. reached[t] = IF t = c /\ mode # "boot" THEN pos ELSE ctx[t]
      BY <3>1 DEF PreemptInv, OthersResume
    <3>3. ctx'[t] = IF saved /\ t = c THEN pos ELSE ctx[t]
      BY <2>1, <2>2, <3>1 DEF PreemptInv, CpuTypeOK
    <3> QED
      BY <2>1, <2>2, <3>1, <3>2, <3>3
  <2>6. AloneNeverSetBack'
    <3>1. CASE c = -1
      <4>1. setBack' = setBack
        BY <2>1, <2>2, <3>1
      <4> QED
        BY <1>1, <4>1 DEF PreemptInv, AloneNeverSetBack
    <3>2. CASE c # -1
      <4>1. Count > 1
        BY <1>1, <1>3, <3>2
      <4> QED
        BY <1>1, <4>1 DEF AloneNeverSetBack
    <3> QED
      BY <3>1, <3>2
  <2>7. Fresh'
    BY <1>1, <2>1 DEF Fresh
  <2> QED
    BY <1>1, <2>4, <2>5, <2>6, <2>7 DEF PreemptInv
<1> QED
  BY <1>2, <1>3

\* Entering and leaving the other handlers.
LEMMA GatesInv ==
  ASSUME PreemptInv, SyscallGate \/ SyscallDispatch
                     \/ \E irq \in Raised : IrqGate(irq) \/ IrqDispatch(irq)
  PROVE  PreemptInv'
<1>1. /\ gates \in Seq(Vector)
      /\ \A i \in 1 .. Len(gates) : gates[i] = SYSCALL_VECTOR => mode = "user"
  BY DEF PreemptInv, CpuTypeOK, Fresh
<1>2. CASE SyscallGate
  <2>1. gates' = <<SYSCALL_VECTOR>> /\ mode = "user" /\ UNCHANGED <<schedVars, ctx, mode, pos, reached, setBack>>
    BY <1>2 DEF SyscallGate
  <2>2. gates' \in Seq(Vector)
    BY <2>1 DEF Vector
  <2> QED
    BY <2>1, <2>2, QuietInv
<1>3. CASE SyscallDispatch
  <2>1. /\ gates # << >> /\ gates[Len(gates)] = SYSCALL_VECTOR /\ gates' = Front(gates)
        /\ Advance /\ UNCHANGED <<schedVars, ctx, mode, setBack>>
    BY <1>3 DEF SyscallDispatch, Last
  <2>2. Len(gates) \in 1 .. Len(gates)
    BY <1>1, <2>1, EmptySeq
  <2> QED
    BY <1>1, <2>1, <2>2, FrontOfGates, AdvanceInv
<1>4. ASSUME NEW irq \in Raised, IrqGate(irq) PROVE PreemptInv'
  <2>1. irq \in Vector /\ irq # SYSCALL_VECTOR
    BY DEF Vector, Raised, KEYBOARD, ATABUS_MASTER, ATABUS_SLAVE, SYSCALL_VECTOR
  <2>2. gates' = Append(gates, irq) /\ UNCHANGED <<schedVars, ctx, mode, pos, reached, setBack>>
    BY <1>4 DEF IrqGate
  <2>3. /\ gates' \in Seq(Vector)
        /\ \A i \in 1 .. Len(gates') : gates'[i] = SYSCALL_VECTOR => i \in 1 .. Len(gates) /\ gates[i] = SYSCALL_VECTOR
    BY <1>1, <2>1, <2>2, AppendProperties
  <2> QED
    BY <1>1, <2>2, <2>3, QuietInv
<1>5. ASSUME NEW irq \in Raised, IrqDispatch(irq) PROVE PreemptInv'
  <2>1. gates # << >> /\ gates' = Front(gates) /\ UNCHANGED <<schedVars, ctx, mode, pos, reached, setBack>>
    BY <1>5 DEF IrqDispatch
  <2> QED
    BY <1>1, <2>1, FrontOfGates, QuietInv
<1> QED
  BY <1>2, <1>3, <1>4, <1>5

\* Every step keeps the invariant.
LEMMA PreemptNextInv == PreemptInv /\ [Next]_vars => PreemptInv'
<1> SUFFICES ASSUME PreemptInv, [Next]_vars PROVE PreemptInv'
  OBVIOUS
<1>1. CASE \/ ArchInitialise \/ UNCHANGED vars \/ \E master \in Masters : AtaInitDevice(master)
           \/ \E irq \in Raised : Raise(irq) \/ Unhandled(irq)
  <2>1. UNCHANGED <<schedVars, ctx, mode, gates, pos, reached, setBack>>
    BY <1>1 DEF ArchInitialise, AtaInitDevice, Raise, Unhandled, vars, cpuVars
  <2> QED
    BY <2>1, QuietInv DEF PreemptInv, CpuTypeOK, Fresh
<1>2. CASE UserStep
  <2>1. mode = "user" /\ Advance /\ UNCHANGED <<schedVars, ctx, mode, gates, setBack>>
    BY <1>2 DEF UserStep
  <2> QED
    BY <2>1, AdvanceInv DEF PreemptInv, CpuTypeOK
<1> QED
  BY <1>1, <1>2, BootingInv, TimerInv, GatesInv DEF Next

\* PreemptInv holds at every moment: saved contexts, the running position and
\* the histories fit together (interrupt_dispatch).
THEOREM PreemptInvariant == Spec => []PreemptInv
  BY PreemptInitInv, PreemptNextInv, PTL DEF Spec

\* A process that the timer never hit in kernel memory while another waited
\* resumes where it stopped, however many processes there are and wherever
\* their system calls are (the context saved and restored by
\* interrupt_dispatch).
THEOREM ResumeCorrect == Spec => []OthersResume
<1>1. PreemptInv => OthersResume
  BY DEF PreemptInv
<1> QED
  BY <1>1, PreemptInvariant, PTL

\* A process that is alone is never set back (the comparison of current_proc
\* before and after timer_tick in interrupt_dispatch).
THEOREM AloneCorrect == Spec => []AloneNeverSetBack
<1>1. PreemptInv => AloneNeverSetBack
  BY DEF PreemptInv
<1> QED
  BY <1>1, PreemptInvariant, PTL
=============================================================================
