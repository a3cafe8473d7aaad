-------------------------------- MODULE Pic --------------------------------
(***************************************************************************)
(* The pair of 8259 interrupt controllers as arch/x64/int/pic.c programs   *)
(* it.  A byte is the set of its bits that are 1.  The chips themselves    *)
(* are external: a command byte with bit 4 starts the initialisation,      *)
(* which takes two data bytes and, if bit 0 asked for it, a third one      *)
(* whose bit 1 means automatic end of interrupt; every other data byte is  *)
(* the mask.                                                               *)
(***************************************************************************)
EXTENDS Integers, Sequences, SequencesExt

Byte == 0 .. 7
Irq == 0 .. 15

PowerOn == [awaits |-> 0, mask |-> {}, autoEoi |-> FALSE, isr |-> {}]
Chips == [master |-> PowerOn, slave |-> PowerOn]

\* A write to the command port: initialisation, or the end of the interrupt
\* in service with the highest priority.
Cmd(c, byte) ==
    IF 4 \in byte
      THEN [awaits |-> IF 0 \in byte THEN 3 ELSE 2, mask |-> {}, autoEoi |-> FALSE, isr |-> {}]
      ELSE [c EXCEPT !.isr = @ \ {i \in @ : \A j \in @ : i <= j}]

\* A write to the data port.
Dat(c, byte) ==
    CASE c.awaits = 0 -> [c EXCEPT !.mask = byte]
      [] c.awaits = 1 -> [c EXCEPT !.awaits = 0, !.autoEoi = 1 \in byte]
      [] OTHER -> [c EXCEPT !.awaits = @ - 1]

outb(chips, w) ==
    [chips EXCEPT ![w[1]] = IF w[2] = "cmd" THEN Cmd(@, w[3]) ELSE Dat(@, w[3])]

INIT == {4}
USE_ICW4 == {0}
MODE_8086 == {0}

\* The writes of pic_map.  The second MODE_8086 goes to the master too, so the
\* first 0xff for the slave is the third byte of its initialisation.
MapWrites == <<
    <<"master", "cmd", INIT \cup USE_ICW4>>, <<"slave", "cmd", INIT \cup USE_ICW4>>,
    <<"master", "dat", {5}>>, <<"slave", "dat", {5, 3}>>,
    <<"master", "dat", {2}>>, <<"slave", "dat", {1}>>,
    <<"master", "dat", MODE_8086>>, <<"master", "dat", MODE_8086>>,
    <<"master", "dat", Byte \ {2}>>,
    <<"slave", "dat", Byte>>, <<"slave", "dat", Byte>> >>

\* Faulty variant: the slave's mask is written once.
MapOnce(chips) == FoldLeft(outb, chips, Front(MapWrites))

pic_map(chips) == FoldLeft(outb, chips, MapWrites)

\* The chip and the line of an IRQ.
ChipOf(irq) == IF irq < 8 THEN "master" ELSE "slave"
Line(irq) == irq % 8

pic_unblock_irq(chips, irq) ==
    outb(chips, <<ChipOf(irq), "dat", chips[ChipOf(irq)].mask \ {Line(irq)}>>)

\* Faulty variant: a slave's interrupt is ended at the slave only.
EoiOneChip(chips, irq) == outb(chips, <<ChipOf(irq), "cmd", {5}>>)

\* 0x20 to the slave as well when the interrupt came through it.
pic_eoi(chips, irq) ==
    LET after == IF irq >= 8 THEN outb(chips, <<"slave", "cmd", {5}>>) ELSE chips
    IN  outb(after, <<"master", "cmd", {5}>>)

\* The chips let an interrupt through: it is not masked, the cascade line 2 is
\* not either, and nothing of the same or a higher priority is in service.
Passes(c, line) == line \notin c.mask /\ \A i \in c.isr : line < i
Unmasked(chips, irq) ==
    /\ Line(irq) \notin chips[ChipOf(irq)].mask
    /\ irq >= 8 => 2 \notin chips.master.mask
Deliverable(chips, irq) ==
    IF irq < 8 THEN Passes(chips.master, irq)
    ELSE Passes(chips.slave, Line(irq)) /\ Passes(chips.master, 2)

\* The processor takes the interrupt.
Acknowledge(chips, irq) ==
    IF irq < 8 THEN [chips EXCEPT !.master.isr = @ \cup {irq}]
    ELSE [chips EXCEPT !.master.isr = @ \cup {2},
                       !.slave.isr = IF chips.slave.autoEoi THEN @ ELSE @ \cup {Line(irq)}]
=============================================================================
