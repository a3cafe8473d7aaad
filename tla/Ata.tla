-------------------------------- MODULE Ata --------------------------------
(***************************************************************************)
(* The polling ATA driver (arch/x64/ata.c) behind a registered store, and  *)
(* the two drives of the primary bus.  Only the selected drive shows its   *)
(* status, and each drive works at its own pace: it may answer after the   *)
(* driver has stopped polling.  The 256 words of a sector are one value.   *)
(***************************************************************************)
EXTENDS StoreTable

CONSTANTS
    LbaLow,     \* addresses the three LBA registers hold (2^24)
    LbaTop,     \* addresses the drive register adds to them (2^4)
    Lbas,       \* the addresses the callers use
    Data,       \* contents of a sector
    Polls,      \* status reads before a wait times out (1000000)
    MaxCount,   \* the most sectors of one multi-sector call
    MaxCalls    \* bound on the calls of a run

ASSUME LbaAssumption == LbaLow \in Nat \ {0} /\ LbaTop \in Nat \ {0} /\ Lbas \subseteq Nat
ASSUME DataAssumption == {0, 1} \subseteq Data
ASSUME PollsAssumption == Polls \in Nat \ {0}
ASSUME CountAssumption == MaxCount \in Nat

VARIABLES
    present,    \* the drives that exist
    selected,   \* the drive the bus is switched to
    drive,      \* [Drive -> [phase, at, x, err]]
    disk,       \* [Drive -> [Page -> Data]]
    call,       \* the call in progress: [pc, op, d, lba, todo, claim]
    polls,      \* status reads of the current wait
    calls,      \* calls made so far, up to MaxCalls
    done        \* history: the data and the success of the last sector request

ioVars == <<present, selected, drive, disk, call, polls, calls, done>>
vars == <<tableVars, ioVars>>

Drive == {0, 1}
\* The page a drive returns for IDENTIFY has the address -1.
IdentPage == -1
Page == {IdentPage} \cup 0 .. LbaLow * LbaTop - 1

ATA_OK == 0
ATA_ERR_TIMEOUT == -1
ATA_ERR_DRIVE_ERROR == -2
ATA_ERR_INVALID_DRIVE == -3

NoRequest == [op |-> "none", d |-> 0, at |-> 0, x |-> 0]
NoCall == [pc |-> "none", op |-> "rd", d |-> 0, lba |-> 0, todo |-> <<0>>, claim |-> "none"]

\* The page the registers name: the low bits of the address in the three LBA
\* registers, the next four in the drive register, and the rest nowhere.
Addressed(c) ==
    IF c.op = "id" THEN IdentPage
    ELSE LbaLow * ((c.lba \div LbaLow) % LbaTop) + (c.lba % LbaLow)

Init ==
    /\ TableInit
    /\ present \in {{0}, {0, 1}}
    /\ selected = 0
    /\ drive = [d \in Drive |-> [phase |-> "idle", at |-> 0, x |-> 0, err |-> FALSE]]
    /\ disk = [d \in Drive |-> [p \in Page |-> IF p = IdentPage THEN 1 ELSE 0]]
    /\ call = NoCall
    /\ polls = 0
    /\ calls = 0
    /\ done = [x |-> 0, ok |-> FALSE]

-----------------------------------------------------------------------------
(* The drives. *)

\* The status register; an absent drive shows 0.
BSY == selected \in present /\ drive[selected].phase \in {"reading", "asking", "saving"}
DRQ == selected \in present /\ drive[selected].phase \in {"out", "in"}
ERR == selected \in present /\ drive[selected].err

\* Drive d in another phase of its command.
InPhase(d, phase, x) == [phase |-> phase, at |-> drive[d].at, x |-> x, err |-> drive[d].err]

\* A drive finishes reading a sector, is ready for the data of a write, or
\* has saved it; or it fails, and a failed save may have been made or not.
DriveWorks(d) ==
    /\ \/ /\ drive[d].phase = "reading"
          /\ drive' = [drive EXCEPT ![d] = InPhase(d, "out", disk[d][drive[d].at])]
          /\ UNCHANGED disk
       \/ /\ drive[d].phase = "asking"
          /\ drive' = [drive EXCEPT ![d] = InPhase(d, "in", drive[d].x)]
          /\ UNCHANGED disk
       \/ /\ drive[d].phase = "saving"
          /\ drive' = [drive EXCEPT ![d] = InPhase(d, "idle", drive[d].x)]
          /\ disk' = [disk EXCEPT ![d][drive[d].at] = drive[d].x]
    /\ UNCHANGED <<tableVars, present, selected, call, polls, calls, done>>

DriveFails(d) ==
    /\ drive[d].phase \in {"reading", "asking", "saving"}
    /\ drive' = [drive EXCEPT ![d] =
            [phase |-> "idle", at |-> drive[d].at, x |-> drive[d].x, err |-> TRUE]]
    /\ \/ UNCHANGED disk
       \/ /\ drive[d].phase = "saving"
          /\ disk' = [disk EXCEPT ![d][drive[d].at] = drive[d].x]
    /\ UNCHANGED <<tableVars, present, selected, call, polls, calls, done>>

-----------------------------------------------------------------------------
(* The driver. *)

\* st_rd, st_wr, ata_identify and the multi-sector calls, by way of a store.
Begin(s, op, lba, todo) ==
    /\ call.pc = "none"
    /\ calls < MaxCalls
    /\ calls' = calls + 1
    /\ ~broken
    /\ stores[s].type # -1 /\ stores[s].primary
    /\ op = "id" => Len(todo) = 1
    /\ call' = [pc |-> "ready", op |-> op, d |-> stores[s].drive, lba |-> lba,
                todo |-> todo, claim |-> "none"]
    /\ polls' = 0
    /\ UNCHANGED <<tableVars, present, selected, drive, disk, done>>

\* The call in progress, at another place.
CallAt(pc, claim) == [pc |-> pc, op |-> call.op, d |-> call.d, lba |-> call.lba,
                      todo |-> call.todo, claim |-> claim]

\* Return from a sector with ret and data x.  A multi-sector call goes on
\* with the next sector only after success.
Return(ret, x) ==
    /\ done' = [x |-> x, ok |-> ret = ATA_OK]
    /\ call' = IF ret = ATA_OK /\ Len(call.todo) > 1
                 THEN CallAt("next", "none") ELSE NoCall
    /\ polls' = 0

NextSector ==
    /\ call.pc = "next"
    /\ call' = [pc |-> "ready", op |-> call.op, d |-> call.d, lba |-> call.lba + 1,
                todo |-> Tail(call.todo), claim |-> "none"]
    /\ UNCHANGED <<tableVars, present, selected, drive, disk, polls, calls, done>>

Goto(pc) == call' = CallAt(pc, call.claim) /\ polls' = 0 /\ UNCHANGED done

\* Faulty variant: the timeout is never counted down.
PollForever == UNCHANGED <<polls, call, done>>

\* One more status read, or the timeout after the last.
PollAgain ==
    IF polls + 1 = Polls THEN Return(ATA_ERR_TIMEOUT, 0)
    ELSE polls' = polls + 1 /\ UNCHANGED <<call, done>>

\* ata_wait_ready: before the drive is selected, after it, and after the
\* data of a write.
ata_wait_ready ==
    /\ call.pc \in {"ready", "settle", "finish"}
    /\ IF BSY THEN PollAgain
       ELSE Goto([ready |-> "select", settle |-> "command", finish |-> "check"][call.pc])
    /\ UNCHANGED <<tableVars, present, selected, drive, disk, calls>>

\* Faulty variant: forgets to select the drive.
ata_select_none ==
    /\ call.pc = "select"
    /\ Goto("settle")
    /\ UNCHANGED <<tableVars, present, selected, drive, disk, calls>>

ata_select_drive ==
    /\ call.pc = "select"
    /\ selected' = call.d
    /\ Goto("settle")
    /\ UNCHANGED <<tableVars, present, drive, disk, calls>>

\* The command register.  A drive at rest starts; one that still has data to
\* pass for an earlier command ignores the new one or drops the old one.
Command ==
    /\ call.pc = "command"
    /\ polls' = 0
    /\ LET d == selected
           next == IF call.op = "id" THEN "exists" ELSE "drq"
       IN  \/ /\ d \in present
              /\ drive' = [drive EXCEPT ![d] =
                    [phase |-> IF call.op = "wr" THEN "asking" ELSE "reading",
                     at |-> Addressed(call), x |-> 0, err |-> FALSE]]
              /\ call' = CallAt(next, "held")
           \/ /\ d \notin present \/ drive[d].phase # "idle"
              /\ call' = CallAt(next, "lost")
              /\ UNCHANGED drive
    /\ UNCHANGED <<tableVars, present, selected, disk, calls, done>>

\* ata_identify: a status of 0 means there is no drive.
Exists ==
    /\ call.pc = "exists"
    /\ IF selected \in present THEN Goto("drq") ELSE Return(ATA_ERR_INVALID_DRIVE, 0)
    /\ UNCHANGED <<tableVars, present, selected, drive, disk, calls>>

ata_wait_drq ==
    /\ call.pc = "drq"
    /\ IF DRQ THEN Goto("transfer")
       ELSE IF ERR THEN Return(ATA_ERR_DRIVE_ERROR, 0) ELSE PollAgain
    /\ UNCHANGED <<tableVars, present, selected, drive, disk, calls>>

\* inw from the data port: the sector the drive holds, or anything when it
\* waits for data itself.
ReadWords ==
    /\ call.pc = "transfer" /\ call.op # "wr"
    /\ IF drive[selected].phase = "out"
         THEN /\ drive' = [drive EXCEPT ![selected] = InPhase(selected, "idle", 0)]
              /\ Return(ATA_OK, drive[selected].x)
         ELSE /\ \E x \in Data : Return(ATA_OK, x)
              /\ UNCHANGED drive
    /\ UNCHANGED <<tableVars, present, selected, disk, calls>>

\* outw to the data port: taken only by a drive that waits for data.
WriteWords ==
    /\ call.pc = "transfer" /\ call.op = "wr"
    /\ IF drive[selected].phase = "in"
         THEN drive' = [drive EXCEPT ![selected] = InPhase(selected, "saving", call.todo[1])]
         ELSE UNCHANGED drive
    /\ Goto("finish")
    /\ UNCHANGED <<tableVars, present, selected, disk, calls>>

\* The error bit after a write.
CheckWritten ==
    /\ call.pc = "check"
    /\ Return(IF ERR THEN ATA_ERR_DRIVE_ERROR ELSE ATA_OK, 0)
    /\ UNCHANGED <<tableVars, present, selected, drive, disk, calls>>

DriverStep ==
    \/ NextSector \/ ata_wait_ready \/ ata_select_drive \/ Command \/ Exists
    \/ ata_wait_drq \/ ReadWords \/ WriteWords \/ CheckWritten

\* The contents to write, or as many zeroes as there are sectors to read.
Lists(op) == UNION {[1 .. n -> IF op = "wr" THEN Data ELSE {0}] : n \in 1 .. MaxCount}

Calls == \E s \in StoreId, op \in {"rd", "wr", "id"}, lba \in Lbas :
            \E todo \in Lists(op) : Begin(s, op, lba, todo)

\* _start registers the stores before the first of them is used.
Registering == calls = 0 /\ TableNext /\ UNCHANGED ioVars

Next ==
    \/ Registering
    \/ Calls
    \/ DriverStep
    \/ \E d \in Drive : DriveWorks(d) \/ DriveFails(d)

\* The processor runs the driver's loops; nothing is assumed of the drives.
Spec == Init /\ [][Next]_vars /\ WF_vars(DriverStep)

-----------------------------------------------------------------------------
\* The calls, the drives and the bus keep their shapes.
TypeOK ==
    /\ selected \in Drive /\ present \subseteq Drive
    /\ \A d \in Drive :
        /\ drive[d].phase \in {"idle", "reading", "out", "asking", "in", "saving"}
        /\ drive[d].phase # "idle" => d \in present
        /\ drive[d].at \in Page
    /\ call.pc \in {"none", "next", "ready", "select", "settle", "command", "exists",
                    "drq", "transfer", "finish", "check"}
    /\ polls \in 0 .. Polls - 1

\* Drives in the middle of a request that the driver has given up on.
Stray ==
    {d \in Drive : drive[d].phase # "idle" /\ ~(call.d = d /\ call.claim = "held")}
        \cup (IF call.claim = "lost" /\ call.d \in present THEN {call.d} ELSE {})

\* The request the caller made: an address beyond the reach of 28 bits comes
\* round to the beginning of the disk.
Request(c) ==
    [op |-> IF c.op = "wr" THEN "wr" ELSE "rd", d |-> c.d, x |-> c.todo[1],
     at |-> IF c.op = "id" THEN IdentPage ELSE c.lba % (LbaLow * LbaTop)]

Req == IF call.pc \in {"none", "next"} THEN NoRequest ELSE Request(call)

Sectors == INSTANCE SectorStore WITH
    Sector <- Page,
    req <- Req,
    stray <- Stray

\* The driver keeps the promise of SectorStore: a read that succeeds returns
\* the sector asked for, a write that succeeds is on the drive asked for, no
\* other sector is written, and only a request that failed leaves its drive in
\* the middle of it (ata_read_sector, ata_write_sector).
RefinesSectors == Sectors!Spec

\* Every call returns, whatever the drives do (the timeouts of ata_wait_ready
\* and ata_wait_drq).
CallsReturn == (call.pc # "none") ~> (call.pc = "none")
=============================================================================
