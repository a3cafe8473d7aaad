------------------------------ MODULE Interrupts ------------------------------
(***************************************************************************)
(* Interrupts and preemption: interrupt_dispatch (arch/x64/int/idt.c) and  *)
(* isr_general (stubs.asm) on top of Scheduler and the controllers of Pic. *)
(*                                                                         *)
(* A process is an endless loop over Length instructions; some of them are *)
(* int 0xf0.  What a context holds is abstracted to the position in that   *)
(* loop.  All gates are trap gates, so a handler is entered with           *)
(* interrupts on and the first instruction of its stub turns them off:     *)
(* gates is the stack of handlers that are in between.  From cli to iretq  *)
(* nothing can interrupt, so the rest of a handler is one step.            *)
(***************************************************************************)
EXTENDS Scheduler, Pic

CONSTANTS Length,        \* instructions in a process's loop
          SyscallAt,     \* positions that are system calls
          KernelProcs,   \* tids created with user = 0: they run in the higher half
          Masters        \* whether the drive main registers may be a master, a slave

ASSUME LengthAssumption == Length \in Nat \ {0}
ASSUME SyscallAtAssumption == SyscallAt \subseteq 0 .. Length - 1
ASSUME KernelProcsAssumption == KernelProcs \subseteq Tid
ASSUME MastersAssumption == Masters \subseteq BOOLEAN

VARIABLES
  ctx,        \* procs[t].ctx
  mode,       \* what the CPU runs, or the handlers have interrupted:
              \* "boot" (main, up to its hlt loop) or "user"
  gates,      \* vectors of the handlers that were entered and are not at cli yet
  chips,      \* the interrupt controllers
  pending,    \* IRQs that the keyboard and the drives have raised
  halted,     \* an interrupt without a gate has stopped the machine
  pos,        \* the position in the live registers
  reached,    \* history: how far each process really got
  setBack,    \* history: processes switched away from with no context saved
  drives,     \* the drive registered, TRUE for a master
  abandoned   \* history: IRQs whose handler was switched away from

picVars == <<chips, pending, abandoned, halted, drives>>
cpuVars == <<ctx, mode, gates, pos, reached, setBack>>
vars == <<schedVars, cpuVars, picVars>>

TIMER == 0
KEYBOARD == 1
ATABUS_MASTER == 14
ATABUS_SLAVE == 15
SYSCALL_VECTOR == 240

\* The other devices that interrupt.  The lines of the two buses are external:
\* the primary bus has 14, the secondary 15.
Raised == {KEYBOARD, ATABUS_MASTER, ATABUS_SLAVE}

\* The interrupts that idt_init attaches a gate for.
Gated == {TIMER, KEYBOARD, ATABUS_MASTER}

Init ==
  /\ SchedInit
  /\ ctx = [t \in Tid |-> 0]
  /\ mode = "boot" /\ gates = << >> /\ pos = 0
  /\ reached = [t \in Tid |-> 0] /\ setBack = {}
  /\ chips = Chips /\ pending = {} /\ abandoned = {}
  /\ halted = FALSE /\ drives = {}

-----------------------------------------------------------------------------
(* Interrupts are on from the sti of pic_map.                              *)
On == chips # Chips

(* arch_initialise: pic_map, then the keyboard is let through.             *)
ArchInitialise ==
  /\ ~On
  /\ chips' = pic_unblock_irq(pic_map(chips), KEYBOARD)
  /\ UNCHANGED <<schedVars, cpuVars, pending, abandoned, halted, drives>>

(* ata_init_device, for the drive main registers: the line it opens goes   *)
(* by the drive's place on its bus.                                        *)
AtaInitDevice(master) ==
  /\ On /\ gates = << >> /\ pc = "boot" /\ queued = {} /\ drives = {}
  /\ chips' = pic_unblock_irq(chips, IF master THEN ATABUS_MASTER ELSE ATABUS_SLAVE)
  /\ drives' = drives \cup {master}
  /\ UNCHANGED <<schedVars, cpuVars, pending, abandoned, halted>>

Booting ==
  /\ On /\ gates = << >>
  /\ \/ CreateProcess /\ UNCHANGED chips   \* ctx.rip = entry, position 0
     \/ EnqueueProc /\ UNCHANGED chips
     \/ ArchStartRunningProcs /\ chips' = pic_unblock_irq(chips, TIMER)
  /\ UNCHANGED <<cpuVars, pending, abandoned, halted, drives>>

-----------------------------------------------------------------------------
Advance ==
  /\ pos' = (pos + 1) % Length
  /\ reached' = [reached EXCEPT ![current_proc] = (pos + 1) % Length]

UserStep ==
  /\ mode = "user" /\ gates = << >> /\ pos \notin SyscallAt
  /\ Advance
  /\ UNCHANGED <<schedVars, ctx, mode, gates, setBack, picVars>>

SyscallGate ==
  /\ mode = "user" /\ gates = << >> /\ pos \in SyscallAt
  /\ gates' = <<SYSCALL_VECTOR>>
  /\ UNCHANGED <<schedVars, ctx, mode, pos, reached, setBack, picVars>>

SyscallDispatch ==   \* cli, dispatch, the result in ctx->rax, iretq
  /\ gates # << >> /\ Last(gates) = SYSCALL_VECTOR
  /\ gates' = Front(gates)
  /\ Advance
  /\ UNCHANGED <<schedVars, ctx, mode, setBack, picVars>>

(* A device raises its line; a line that is up already shows nothing new.  *)
Raise(irq) ==
  /\ pending' = pending \cup {irq}
  /\ UNCHANGED <<schedVars, cpuVars, chips, abandoned, halted, drives>>

(* The processor enters the gate of the interrupt; if that is not present, *)
(* the gate of the exception this raises (0x0b), a trap gate as well.      *)
IrqGate(irq) ==
  /\ On /\ ~halted /\ irq \in pending /\ Deliverable(chips, irq)
  /\ gates' = Append(gates, irq)
  /\ chips' = Acknowledge(chips, irq)
  /\ pending' = pending \ {irq}
  /\ UNCHANGED <<schedVars, ctx, mode, pos, reached, setBack, abandoned, halted, drives>>

IrqDispatchNoEoi(irq) ==   \* faulty variant: the interrupt is not ended
  /\ gates # << >> /\ Last(gates) = irq
  /\ gates' = Front(gates)
  /\ UNCHANGED <<schedVars, ctx, mode, pos, reached, setBack, picVars>>

IrqDispatch(irq) ==   \* the keyboard's scan code is read and the interrupt ended
  /\ gates # << >> /\ Last(gates) = irq /\ irq \in Gated
  /\ gates' = Front(gates)
  /\ chips' = pic_eoi(chips, irq)
  /\ UNCHANGED <<schedVars, ctx, mode, pos, reached, setBack, pending, abandoned, halted, drives>>

(* Behind its cli the exception handler prints "Unhandled interrupt" and   *)
(* executes hlt for ever.                                                  *)
Unhandled(irq) ==
  /\ gates # << >> /\ Last(gates) = irq /\ irq \notin Gated
  /\ halted' = TRUE
  /\ UNCHANGED <<schedVars, cpuVars, chips, pending, abandoned, drives>>

(* ctx->rip < 0xffff800000000000 *)
RipInUserMemory == mode = "user" /\ gates = << >> /\ current_proc \notin KernelProcs

(* The handlers whose frames a switch leaves behind never reach their cli. *)
Switched ==
  /\ mode' = "user" /\ gates' = << >>
  /\ abandoned' = abandoned \cup (Irq \cap {gates[i] : i \in DOMAIN gates})

TimerSaveLate ==   \* faulty variant: saved after the switch, to the incoming process
  /\ TimerTick
  /\ IF current_proc' # current_proc
       THEN /\ Switched /\ pos' = ctx[current_proc']
            /\ ctx' = [ctx EXCEPT ![current_proc'] = pos]
       ELSE UNCHANGED <<ctx, mode, gates, pos, abandoned>>
  /\ UNCHANGED <<reached, setBack, chips, pending, halted, drives>>

TimerAlwaysRestores ==   \* faulty variant: a context is restored at every tick
  /\ TimerTick
  /\ IF current_proc >= 0 /\ RipInUserMemory
       THEN ctx' = [ctx EXCEPT ![current_proc] = pos] /\ UNCHANGED setBack
       ELSE UNCHANGED ctx /\ setBack' = setBack \cup ({current_proc} \ {-1})
  /\ Switched
  /\ pos' = ctx'[current_proc']
  /\ UNCHANGED <<reached, chips, pending, halted, drives>>

TimerInterrupt ==
  /\ TimerTick /\ ~halted
  /\ Deliverable(chips, TIMER)
  /\ chips' = pic_eoi(Acknowledge(chips, TIMER), TIMER)
  /\ IF current_proc' # current_proc
       THEN /\ IF current_proc >= 0 /\ RipInUserMemory
                 THEN ctx' = [ctx EXCEPT ![current_proc] = pos] /\ UNCHANGED setBack
                 ELSE UNCHANGED ctx /\ setBack' = setBack \cup ({current_proc} \ {-1})
            /\ Switched
            /\ pos' = ctx'[current_proc']
       ELSE UNCHANGED <<ctx, mode, gates, pos, setBack, abandoned>>
  /\ UNCHANGED <<reached, pending, halted, drives>>

Next ==
  \/ ArchInitialise \/ Booting
  \/ \E master \in Masters : AtaInitDevice(master)
  \/ UserStep \/ SyscallGate \/ SyscallDispatch
  \/ TimerInterrupt
  \/ \E irq \in Raised : Raise(irq) \/ IrqGate(irq) \/ IrqDispatch(irq) \/ Unhandled(irq)

(* The interval timer keeps interrupting once it is unmasked; an interrupt *)
(* that the controllers let through is taken, and handlers run.            *)
Spec ==
  /\ Init /\ [][Next]_vars
  /\ WF_vars(TimerInterrupt)
  /\ \A irq \in Raised : WF_vars(IrqGate(irq)) /\ WF_vars(IrqDispatch(irq))

-----------------------------------------------------------------------------
(* Type invariant: saved and live contexts are positions of the loop, and  *)
(* a handler is never entered twice at once.                               *)
TypeOK ==
  /\ SchedTypeOK
  /\ ctx \in [Tid -> 0 .. Length - 1]
  /\ mode \in {"boot", "user"}
  /\ IsInjective(gates) /\ {gates[i] : i \in DOMAIN gates} \subseteq Raised \cup {SYSCALL_VECTOR}
  /\ pos \in 0 .. Length - 1
  /\ reached \in [Tid -> 0 .. Length - 1] /\ setBack \subseteq Tid

(* Preemption is invisible to a process: whenever it runs, it runs from    *)
(* where it was stopped.  idt.c:139-143 saves the context of a running     *)
(* process and says that the test of rip keeps a timer interrupt at the    *)
(* moment of a system call from messing up "the process' execution".       *)
ResumesWhereStopped ==
  mode # "boot" => pos = reached[current_proc]

(* As far as the code gets with that: a process that the timer never hit   *)
(* in kernel memory (in the gate of a system call, or anywhere if it is a  *)
(* kernel process) while another was waiting resumes where it stopped, and *)
(* until then its saved context is where it stopped, whatever happens to   *)
(* the others.                                                             *)
OthersResume ==
  \A t \in queued \ setBack :
    reached[t] = IF t = current_proc /\ mode # "boot" THEN pos ELSE ctx[t]

(* A process that is alone on the machine is never set back, also when the *)
(* timer fires between its int 0xf0 and the cli of the stub.               *)
AloneNeverSetBack ==
  setBack # {} => sq_space_left < MAX_PROCS - 1

(* The lines of the master that belong to IRQs.                            *)
MasterLines(irqs) == {IF irq < 8 THEN irq ELSE 2 : irq \in irqs}

(* Every interrupt is ended exactly once, and by its own handler, although *)
(* handlers nest and pic_eoi names no interrupt: in service are the        *)
(* handlers on the stack and those that a switch of process in their first *)
(* instruction left behind, whose pic_eoi never comes.  No handler is ever *)
(* entered twice at once (with the other types).                           *)
InServiceExact ==
  /\ TypeOK
  /\ chips.master.isr =
        MasterLines(abandoned \cup (Irq \cap {gates[i] : i \in DOMAIN gates}))
  /\ chips.slave.isr = {}

(* The one line without a gate that is ever open is that of the slaves,    *)
(* and only when a slave was registered: pic_map leaves all lines but the  *)
(* cascade masked, as its comment says, and each driver opens its own.  So *)
(* a machine with masters alone, as main sets it up, never stops for an    *)
(* interrupt that idt_init attached no gate for; with a slave it may.      *)
StopsOnlyForSlave ==
  LET ungated == {irq \in Irq \ {2} : On /\ Unmasked(chips, irq)} \ Gated
  IN  /\ ungated \subseteq {ATABUS_SLAVE}
      /\ ungated # {} \/ halted => FALSE \in drives

(* Every process that was enqueued runs again and again, unless the        *)
(* machine stops for an interrupt without a gate.                          *)
RoundRobin ==
  \A t \in Tid : (pc = "started" /\ t \in queued) ~> (current_proc = t \/ halted)

(* A key that is struck is noticed, unless a handler was ever left behind  *)
(* (its interrupt stays in service, and shuts out those below it) or the   *)
(* machine has stopped for an interrupt without a gate.                    *)
KeysNoticed ==
  (On /\ KEYBOARD \in pending) ~>
     (KEYBOARD \notin pending \/ abandoned # {} \/ halted)
=============================================================================
