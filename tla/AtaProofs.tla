----------------------------- MODULE AtaProofs -----------------------------
(***************************************************************************)
(* The ATA driver implements SectorStore, for any number of sectors,       *)
(* contents, status reads and calls.                                       *)
(***************************************************************************)
EXTENDS Ata, TLAPS

Phases == {"idle", "reading", "out", "asking", "in", "saving"}
Places == {"none", "next", "ready", "select", "settle", "command", "exists",
           "drq", "transfer", "finish", "check"}

DriveType == [phase : Phases, at : Page, x : Data, err : BOOLEAN]
CallType == [pc : Places, op : {"rd", "wr", "id"}, d : Drive, lba : Nat,
             todo : Seq(Data), claim : {"none", "held", "lost"}]

StoreDrives == stores = [s \in StoreId |-> stores[s]] /\ \A s \in StoreId : stores[s].drive \in Drive

\* The types of the bus, the drives and the call.
Shape ==
    /\ selected \in Drive /\ present \subseteq Drive
    /\ drive \in [Drive -> DriveType]
    /\ disk \in [Drive -> [Page -> Data]]
    /\ call \in CallType
    /\ call.todo # << >>
    /\ call.pc = "next" => Len(call.todo) > 1
    /\ polls \in 0 .. Polls - 1
    /\ done \in [x : Data, ok : BOOLEAN]
    /\ StoreDrives
    /\ \A d \in Drive : drive[d].phase # "idle" => d \in present

\* The command register has been written.
Commanded == call.pc \in {"exists", "drq", "transfer", "finish", "check"}

\* Which drive is selected, and who may have taken the command.
Claims ==
    /\ call.claim # "none" <=> Commanded
    /\ Commanded \/ call.pc \in {"settle", "command"} => selected = call.d
    /\ call.pc \in {"finish", "check"} => call.op = "wr"
    /\ call.pc = "exists" => call.op = "id"
    /\ call.claim = "lost" /\ call.pc \in {"transfer", "finish", "check"} => call.d \in present

Failed(v) == v.phase = "idle" /\ v.err

\* How far the drive is with the command it took, when the driver is at pc.
Reading(v, pc) ==
    \/ v.phase = "out" /\ v.x = disk[call.d][v.at]
    \/ pc # "transfer" /\ (v.phase = "reading" \/ Failed(v))

Saving(v, pc) ==
    \/ pc = "drq" /\ (v.phase \in {"asking", "in"} \/ Failed(v))
    \/ pc = "transfer" /\ v.phase = "in"
    \/ pc = "finish" /\ v.phase = "saving" /\ v.x = call.todo[1]
    \/ pc \in {"finish", "check"} /\ v.phase = "idle"
            /\ (v.err \/ disk[call.d][v.at] = call.todo[1])

Progress ==
    call.claim = "held" =>
        /\ call.d \in present
        /\ drive[call.d].at = Request(call).at
        /\ IF call.op = "wr" THEN Saving(drive[call.d], call.pc)
                             ELSE Reading(drive[call.d], call.pc)

AtaInv == Shape /\ Claims /\ Progress

-----------------------------------------------------------------------------
\* Division with remainder.
LEMMA DivMod ==
    ASSUME NEW a \in Nat, NEW m \in Nat \ {0}
    PROVE  /\ a \div m \in Nat /\ a % m \in 0 .. m - 1
           /\ a = m * (a \div m) + (a % m)
  OBVIOUS

\* The remainder of m * k + r.
LEMMA Remainder ==
    ASSUME NEW m \in Nat \ {0}, NEW k \in Nat, NEW r \in 0 .. m - 1
    PROVE  (m * k + r) % m = r
  OBVIOUS

\* The three LBA registers and the four bits in the drive register together name
\* the sector that was asked for, up to the wrap at LbaLow * LbaTop.
LEMMA Addressing ==
    ASSUME NEW c, c.op \in {"rd", "wr", "id"}, c.lba \in Nat
    PROVE  /\ Addressed(c) = Request(c).at
           /\ Addressed(c) \in Page
<1>1. CASE c.op = "id"
  BY <1>1 DEF Addressed, Request, Page
<1>2. CASE c.op # "id"
  <2> DEFINE lba == c.lba
             low == lba % LbaLow
             high == lba \div LbaLow
             top == high % LbaTop
             over == high \div LbaTop
  <2>1. /\ high \in Nat /\ low \in 0 .. LbaLow - 1
        /\ lba = LbaLow * high + low
    BY DivMod, LbaAssumption
  <2>2. /\ over \in Nat /\ top \in 0 .. LbaTop - 1
        /\ high = LbaTop * over + top
    BY <2>1, DivMod, LbaAssumption
  <2> HIDE DEF lba, low, high, top, over
  <2>3. LbaLow * top + low \in 0 .. LbaLow * LbaTop - 1
    BY <2>1, <2>2, LbaAssumption
  <2>4. lba = (LbaLow * LbaTop) * over + (LbaLow * top + low)
    BY <2>1, <2>2, LbaAssumption
  <2>5. LbaLow * LbaTop \in Nat \ {0}
    BY LbaAssumption
  <2>6. lba % (LbaLow * LbaTop) = LbaLow * top + low
    BY <2>2, <2>3, <2>4, <2>5, Remainder
  <2> QED
    BY <1>2, <2>3, <2>6 DEF Addressed, Request, Page, lba, low, high, top, over
<1> QED
  BY <1>1, <1>2

-----------------------------------------------------------------------------
USE DEF Drive, Phases, Places, DriveType, CallType, ATA_OK, ATA_ERR_TIMEOUT, ATA_ERR_DRIVE_ERROR,
        ATA_ERR_INVALID_DRIVE

\* A blank sector and the identification page are contents of a sector.
LEMMA ZeroPage == 0 \in Page /\ IdentPage \in Page
  BY LbaAssumption DEF Page, IdentPage

\* The invariant holds at boot, before any store is registered.
LEMMA InitInv == Init => AtaInv
<1> SUFFICES ASSUME Init PROVE AtaInv
  OBVIOUS
<1>1. call = NoCall /\ call.todo = <<0>> /\ call.claim = "none" /\ call.pc = "none"
  BY DEF Init, NoCall
<1>2. call \in CallType
  BY <1>1, DataAssumption DEF NoCall
<1>3. drive \in [Drive -> DriveType]
  BY ZeroPage, DataAssumption DEF Init
<1>4. disk \in [Drive -> [Page -> Data]]
  BY DataAssumption DEF Init
<1>5. StoreDrives
  BY DEF StoreDrives, Init, TableInit, NoStore
<1>6. Shape
  BY <1>1, <1>2, <1>3, <1>4, <1>5, DataAssumption, PollsAssumption DEF Init, Shape
<1> QED
  BY <1>1, <1>6 DEF AtaInv, Claims, Commanded, Progress

\* Saving a sector keeps the types of the disks.
LEMMA SavedType ==
    ASSUME Shape, NEW d \in Drive
    PROVE  [disk EXCEPT ![d][drive[d].at] = drive[d].x] \in [Drive -> [Page -> Data]]
<1>1. drive[d].at \in Page /\ drive[d].x \in Data /\ disk[d] \in [Page -> Data]
  BY DEF Shape
<1>2. [disk[d] EXCEPT ![drive[d].at] = drive[d].x] \in [Page -> Data]
  BY <1>1
<1> QED
  BY <1>2 DEF Shape

\* A drive works on: nothing of the driver changes.
LEMMA DriveWorksInv ==
    ASSUME AtaInv, NEW d \in Drive, DriveWorks(d)
    PROVE  AtaInv'
<1>1. disk' \in [Drive -> [Page -> Data]]
  BY SavedType DEF AtaInv, Shape, DriveWorks
<1>2. drive' \in [Drive -> DriveType]
  BY DEF AtaInv, Shape, DriveWorks, InPhase
<1>3. \A e \in Drive : drive'[e].phase # "idle" => e \in present
  BY DEF AtaInv, Shape, DriveWorks, InPhase
<1>4. Shape'
  BY <1>1, <1>2, <1>3 DEF AtaInv, Shape, DriveWorks, tableVars, StoreDrives
<1>5. Claims'
  BY DEF AtaInv, Claims, Commanded, DriveWorks
<1>6. Progress'
  BY DEF AtaInv, Shape, Claims, Commanded, Progress, Reading, Saving, Failed, DriveWorks,
         InPhase, Request
<1> QED
  BY <1>4, <1>5, <1>6 DEF AtaInv

\* A drive sets its error bit, or falls silent: nothing of the driver changes.
LEMMA DriveFailsInv ==
    ASSUME AtaInv, NEW d \in Drive, DriveFails(d)
    PROVE  AtaInv'
<1>1. disk' \in [Drive -> [Page -> Data]]
  BY SavedType DEF AtaInv, Shape, DriveFails
<1>2. drive' \in [Drive -> DriveType]
  BY DEF AtaInv, Shape, DriveFails
<1>3. \A e \in Drive : drive'[e].phase # "idle" => e \in present
  BY DEF AtaInv, Shape, DriveFails
<1>4. Shape'
  BY <1>1, <1>2, <1>3 DEF AtaInv, Shape, DriveFails, tableVars, StoreDrives
<1>5. Claims'
  BY DEF AtaInv, Claims, Commanded, DriveFails
<1>6. Progress'
  BY DEF AtaInv, Shape, Claims, Commanded, Progress, Reading, Saving, Failed, DriveFails,
         Request
<1> QED
  BY <1>4, <1>5, <1>6 DEF AtaInv

\* After a return no command is claimed, so only the types remain to be shown.
LEMMA ReturnInv ==
    ASSUME AtaInv, NEW x \in Data, NEW ret \in Int, Return(ret, x),
           UNCHANGED <<tableVars, present, selected, disk>>,
           drive' \in [Drive -> DriveType],
           \A d \in Drive : drive'[d].phase # "idle" => d \in present
    PROVE  AtaInv'
<1>1. /\ done' \in [x : Data, ok : BOOLEAN]
      /\ polls' \in 0 .. Polls - 1
  BY PollsAssumption DEF Return
<1>2. /\ call' \in CallType
      /\ call'.todo # << >>
      /\ call'.pc = "next" => Len(call'.todo) > 1
      /\ call'.claim = "none" /\ call'.pc \in {"none", "next"}
  BY DataAssumption DEF AtaInv, Shape, Return, NoCall, CallAt
<1>3. Shape'
  BY <1>1, <1>2 DEF AtaInv, Shape, tableVars, StoreDrives
<1> QED
  BY <1>2, <1>3 DEF AtaInv, Claims, Commanded, Progress

\* Another turn of a polling loop, or its timeout (ata_wait_ready, ata_wait_drq).
LEMMA PollInv ==
    ASSUME AtaInv, PollAgain, UNCHANGED <<tableVars, present, selected, disk, drive>>
    PROVE  AtaInv'
<1>1. CASE polls + 1 = Polls
  <2>1. Return(ATA_ERR_TIMEOUT, 0)
    BY <1>1 DEF PollAgain
  <2> QED
    BY <2>1, ReturnInv, DataAssumption DEF AtaInv, Shape
<1>2. CASE polls + 1 # Polls
  <2>1. polls' = polls + 1 /\ UNCHANGED <<call, done>>
    BY <1>2 DEF PollAgain
  <2>2. Shape'
    BY <2>1, <1>2, PollsAssumption DEF AtaInv, Shape, tableVars, StoreDrives
  <2> QED
    BY <2>1, <2>2 DEF AtaInv, Claims, Commanded, Progress, Reading, Saving, Failed, Request
<1> QED
  BY <1>1, <1>2

\* A step to another place in the same call keeps the types.
LEMMA GotoShape ==
    ASSUME AtaInv, NEW pc \in Places \ {"next"}, Goto(pc),
           selected' \in Drive, UNCHANGED <<tableVars, present, disk>>,
           drive' \in [Drive -> DriveType],
           \A d \in Drive : drive'[d].phase # "idle" => d \in present
    PROVE  /\ Shape'
           /\ call'.pc = pc /\ call'.claim = call.claim /\ call'.op = call.op
           /\ call'.d = call.d /\ call'.todo = call.todo /\ Request(call)' = Request(call)
<1>1. /\ call' \in CallType
      /\ call'.pc = pc /\ call'.claim = call.claim /\ call'.op = call.op
      /\ call'.d = call.d /\ call'.todo = call.todo /\ call'.lba = call.lba
  BY DEF AtaInv, Shape, Goto, CallAt
<1>2. polls' \in 0 .. Polls - 1 /\ done' = done
  BY PollsAssumption DEF Goto
<1>3. Shape'
  BY <1>1, <1>2 DEF AtaInv, Shape, tableVars, StoreDrives
<1> QED
  BY <1>1, <1>3 DEF Request

\* ata_wait_ready: a drive that is not busy is ready for a command.
LEMMA WaitReadyInv == ASSUME AtaInv, ata_wait_ready PROVE AtaInv'
<1>1. CASE BSY
  BY <1>1, PollInv DEF ata_wait_ready
<1>2. CASE ~BSY
  <2> DEFINE pc == [ready |-> "select", settle |-> "command", finish |-> "check"][call.pc]
  <2>1. Goto(pc) /\ call.pc \in {"ready", "settle", "finish"}
        /\ UNCHANGED <<tableVars, present, selected, drive, disk>>
    BY <1>2 DEF ata_wait_ready
  <2>2. \/ call.pc = "ready" /\ pc = "select"
        \/ call.pc = "settle" /\ pc = "command"
        \/ call.pc = "finish" /\ pc = "check"
    BY <2>1
  <2> HIDE DEF pc
  <2>3. /\ Shape' /\ call'.pc = pc /\ call'.claim = call.claim /\ call'.op = call.op
        /\ call'.d = call.d /\ call'.todo = call.todo /\ Request(call)' = Request(call)
    BY <2>1, <2>2, GotoShape DEF AtaInv, Shape
  <2>4. Claims'
    BY <2>1, <2>2, <2>3 DEF AtaInv, Claims, Commanded
  <2>5. Progress'
    BY <1>2, <2>1, <2>2, <2>3 DEF AtaInv, Shape, Claims, Commanded, Progress, Saving, Reading, Failed, BSY
  <2> QED
    BY <2>3, <2>4, <2>5 DEF AtaInv
<1> QED
  BY <1>1, <1>2

\* ata_select_drive.
LEMMA SelectInv == ASSUME AtaInv, ata_select_drive PROVE AtaInv'
<1>1. /\ Shape' /\ call'.pc = "settle" /\ call'.claim = call.claim /\ call'.op = call.op
      /\ call'.d = call.d
  BY GotoShape DEF AtaInv, Shape, ata_select_drive
<1>2. Claims' /\ call'.claim = "none"
  BY <1>1 DEF AtaInv, Shape, Claims, Commanded, ata_select_drive
<1> QED
  BY <1>1, <1>2 DEF AtaInv, Progress

\* The address registers and the command byte: the drive takes the command.
LEMMA CommandInv == ASSUME AtaInv, Command PROVE AtaInv'
<1> DEFINE d == selected
           next == IF call.op = "id" THEN "exists" ELSE "drq"
           started == [phase |-> IF call.op = "wr" THEN "asking" ELSE "reading",
                       at |-> Addressed(call), x |-> 0, err |-> FALSE]
<1>1. call.pc = "command" /\ polls' = 0 /\ UNCHANGED <<tableVars, present, selected, disk, done>>
  BY DEF Command
<1>2. \/ d \in present /\ drive' = [drive EXCEPT ![d] = started] /\ call' = CallAt(next, "held")
      \/ call' = CallAt(next, "lost") /\ UNCHANGED drive
  BY DEF Command
<1>3. /\ call' \in CallType /\ call'.pc = next /\ call'.op = call.op
      /\ call'.d = call.d /\ call'.todo = call.todo /\ Request(call)' = Request(call)
      /\ call'.claim \in {"held", "lost"}
  BY <1>2 DEF AtaInv, Shape, CallAt, Request
<1>4. Addressed(call) = Request(call).at /\ Addressed(call) \in Page
  BY Addressing DEF AtaInv, Shape
<1>5. started \in DriveType
  BY <1>4, DataAssumption
<1>6. drive' \in [Drive -> DriveType] /\ \A e \in Drive : drive'[e].phase # "idle" => e \in present
  <2>1. selected \in Drive /\ drive \in [Drive -> DriveType]
        /\ \A e \in Drive : drive[e].phase # "idle" => e \in present
    BY DEF AtaInv, Shape
  <2> HIDE DEF started
  <2> QED
    BY <1>2, <1>5, <2>1
<1>7. Shape'
  BY <1>1, <1>3, <1>6, PollsAssumption DEF AtaInv, Shape, tableVars, StoreDrives
<1>8. Claims'
  BY <1>1, <1>3 DEF AtaInv, Claims, Commanded
<1>9. Progress'
  <2> SUFFICES ASSUME call'.claim = "held"
               PROVE  /\ call.d \in present
                      /\ drive'[call.d].at = Request(call).at
                      /\ drive'[call.d].phase = IF call.op = "wr" THEN "asking" ELSE "reading"
    BY <1>1, <1>3 DEF Progress, Saving, Reading
  <2>1. selected = call.d /\ d \in present /\ drive' = [drive EXCEPT ![d] = started]
    BY <1>1, <1>2 DEF AtaInv, Claims, CallAt
  <2> QED
    BY <2>1, <1>4 DEF AtaInv, Shape
<1> QED
  BY <1>7, <1>8, <1>9 DEF AtaInv

\* The status read of ata_identify that finds no drive.
LEMMA ExistsInv == ASSUME AtaInv, Exists PROVE AtaInv'
<1>1. CASE selected \in present
  <2>1. Goto("drq") /\ call.pc = "exists" /\ UNCHANGED <<tableVars, present, selected, drive, disk>>
    BY <1>1 DEF Exists
  <2>2. /\ Shape' /\ call'.pc = "drq" /\ call'.claim = call.claim /\ call'.op = call.op
        /\ call'.d = call.d /\ call'.todo = call.todo /\ Request(call)' = Request(call)
    BY <2>1, GotoShape DEF AtaInv, Shape
  <2>3. Claims'
    BY <2>1, <2>2 DEF AtaInv, Claims, Commanded
  <2>4. Progress'
    BY <2>1, <2>2 DEF AtaInv, Claims, Progress, Saving, Reading, Failed
  <2> QED
    BY <2>2, <2>3, <2>4 DEF AtaInv
<1>2. CASE selected \notin present
  BY <1>2, ReturnInv, DataAssumption DEF Exists, AtaInv, Shape
<1> QED
  BY <1>1, <1>2

\* ata_wait_drq: a drive that asks for data is at the transfer.
LEMMA WaitDrqInv == ASSUME AtaInv, ata_wait_drq PROVE AtaInv'
<1>1. CASE DRQ
  <2>1. Goto("transfer") /\ call.pc = "drq"
        /\ UNCHANGED <<tableVars, present, selected, drive, disk>>
    BY <1>1 DEF ata_wait_drq
  <2>2. /\ Shape' /\ call'.pc = "transfer" /\ call'.claim = call.claim /\ call'.op = call.op
        /\ call'.d = call.d /\ call'.todo = call.todo /\ Request(call)' = Request(call)
    BY <2>1, GotoShape DEF AtaInv, Shape
  <2>3. selected = call.d /\ call.d \in present /\ drive[call.d].phase \in {"out", "in"}
    BY <1>1, <2>1 DEF AtaInv, Claims, Commanded, DRQ
  <2>4. Claims'
    BY <2>1, <2>2, <2>3 DEF AtaInv, Claims, Commanded
  <2>5. Progress'
    BY <2>1, <2>2, <2>3 DEF AtaInv, Progress, Saving, Reading, Failed
  <2> QED
    BY <2>2, <2>4, <2>5 DEF AtaInv
<1>2. CASE ~DRQ /\ ERR
  BY <1>2, ReturnInv, DataAssumption DEF ata_wait_drq, AtaInv, Shape
<1>3. CASE ~DRQ /\ ~ERR
  BY <1>3, PollInv DEF ata_wait_drq
<1> QED
  BY <1>1, <1>2, <1>3

\* The last status read of ata_write_sector.
LEMMA CheckInv == ASSUME AtaInv, CheckWritten PROVE AtaInv'
  BY ReturnInv, DataAssumption DEF CheckWritten, AtaInv, Shape

\* The data of a sector read.
LEMMA ReadWordsInv == ASSUME AtaInv, ReadWords PROVE AtaInv'
<1>1. selected \in Drive /\ drive \in [Drive -> DriveType] /\ UNCHANGED <<tableVars, present, selected, disk>>
      /\ \A e \in Drive : drive[e].phase # "idle" => e \in present
  BY DEF AtaInv, Shape, ReadWords
<1>2. CASE drive[selected].phase = "out"
  <2> DEFINE rest == InPhase(selected, "idle", 0)
  <2>1. drive' = [drive EXCEPT ![selected] = rest] /\ Return(ATA_OK, drive[selected].x)
    BY <1>2 DEF ReadWords
  <2>2. rest \in DriveType /\ rest.phase = "idle" /\ drive[selected].x \in Data
    BY <1>1, DataAssumption DEF InPhase
  <2> HIDE DEF rest
  <2>3. drive' \in [Drive -> DriveType] /\ \A e \in Drive : drive'[e].phase # "idle" => e \in present
    BY <1>1, <2>1, <2>2
  <2> QED
    BY <1>1, <2>1, <2>2, <2>3, ReturnInv
<1>3. CASE drive[selected].phase # "out"
  <2>1. PICK x \in Data : Return(ATA_OK, x) /\ UNCHANGED drive
    BY <1>3 DEF ReadWords
  <2> QED
    BY <1>1, <2>1, ReturnInv
<1> QED
  BY <1>2, <1>3

\* The data of a sector written, handed to the drive.
LEMMA WriteWordsInv == ASSUME AtaInv, WriteWords PROVE AtaInv'
<1>1. /\ selected \in Drive /\ drive \in [Drive -> DriveType]
      /\ \A e \in Drive : drive[e].phase # "idle" => e \in present
      /\ call.pc = "transfer" /\ call.op = "wr" /\ call.todo[1] \in Data
      /\ Goto("finish") /\ UNCHANGED <<tableVars, present, selected, disk>>
  BY DEF AtaInv, Shape, WriteWords
<1> DEFINE full == InPhase(selected, "saving", call.todo[1])
<1>2. \/ drive[selected].phase = "in" /\ drive' = [drive EXCEPT ![selected] = full]
      \/ drive[selected].phase # "in" /\ UNCHANGED drive
  BY DEF WriteWords
<1>3. /\ full \in DriveType /\ full.phase = "saving" /\ full.x = call.todo[1]
      /\ full.at = drive[selected].at
  BY <1>1 DEF InPhase
<1> HIDE DEF full
<1>4. drive' \in [Drive -> DriveType] /\ \A e \in Drive : drive'[e].phase # "idle" => e \in present
  BY <1>1, <1>2, <1>3
<1>5. /\ Shape' /\ call'.pc = "finish" /\ call'.claim = call.claim /\ call'.op = call.op
      /\ call'.d = call.d /\ call'.todo = call.todo /\ Request(call)' = Request(call)
  BY <1>1, <1>4, GotoShape
<1>6. Claims'
  BY <1>1, <1>5 DEF AtaInv, Claims, Commanded
<1>7. Progress'
  <2> SUFFICES ASSUME call.claim = "held"
               PROVE  /\ call.d \in present
                      /\ drive'[call.d].at = Request(call).at
                      /\ drive'[call.d].phase = "saving" /\ drive'[call.d].x = call.todo[1]
    BY <1>1, <1>5 DEF Progress, Saving
  <2>1. /\ selected = call.d /\ call.d \in present /\ drive[call.d].phase = "in"
        /\ drive[call.d].at = Request(call).at
    BY <1>1 DEF AtaInv, Claims, Commanded, Progress, Saving
  <2> QED
    BY <1>1, <1>2, <1>3, <2>1
<1> QED
  BY <1>5, <1>6, <1>7 DEF AtaInv

\* The loops of ata_read_sectors and ata_write_sectors go to the next sector.
LEMMA NextSectorInv == ASSUME AtaInv, NextSector PROVE AtaInv'
<1>1. Tail(call.todo) \in Seq(Data) /\ Tail(call.todo) # << >> /\ call.lba + 1 \in Nat
  <2>1. call.todo \in Seq(Data) /\ Len(call.todo) > 1 /\ call.lba \in Nat
    BY DEF AtaInv, Shape, NextSector
  <2>2. Tail(call.todo) \in Seq(Data) /\ Len(Tail(call.todo)) = Len(call.todo) - 1
    BY <2>1
  <2>3. Len(Tail(call.todo)) > 0
    BY <2>1, <2>2
  <2>4. Len(<< >>) = 0
    OBVIOUS
  <2>5. Tail(call.todo) # << >>
    BY <2>3, <2>4
  <2> QED
    BY <2>1, <2>2, <2>5
<1>2. call' \in CallType /\ call'.todo # << >> /\ call'.pc = "ready" /\ call'.claim = "none"
  BY <1>1 DEF AtaInv, Shape, NextSector
<1>3. Shape'
  BY <1>2 DEF AtaInv, Shape, NextSector, tableVars, StoreDrives
<1> QED
  BY <1>2, <1>3 DEF AtaInv, Claims, Commanded, Progress

\* A call begins (st_rd, st_wr, ata_identify).
LEMMA BeginInv ==
    ASSUME AtaInv, NEW s \in StoreId, NEW op \in {"rd", "wr", "id"}, NEW lba \in Lbas,
           NEW todo \in Lists(op), Begin(s, op, lba, todo)
    PROVE  AtaInv'
<1>1. PICK n \in 1 .. MaxCount : todo \in [1 .. n -> IF op = "wr" THEN Data ELSE {0}]
  BY DEF Lists
<1>2. todo \in Seq(Data) /\ todo # << >>
  BY <1>1, DataAssumption, CountAssumption
<1>3. call' \in CallType /\ call'.todo # << >> /\ call'.pc = "ready" /\ call'.claim = "none"
  BY <1>2, LbaAssumption DEF AtaInv, Shape, StoreDrives, Begin
<1>4. Shape'
  BY <1>3, PollsAssumption DEF AtaInv, Shape, Begin, tableVars, StoreDrives
<1> QED
  BY <1>3, <1>4 DEF AtaInv, Claims, Commanded, Progress

\* The registration of a store by _start.
LEMMA RegisteringInv == ASSUME AtaInv, Registering PROVE AtaInv'
<1>1. StoreDrives'
  <2>1. CASE \E n \in TypeNames : register_storetype(n)
    BY <2>1 DEF AtaInv, Shape, StoreDrives, register_storetype
  <2>2. ASSUME NEW n \in Names, NEW c \in Configs, register_store(n, c)
        PROVE  StoreDrives'
    <3> DEFINE slot == Min({s \in StoreId : stores[s].type = -1})
               dev == ata_init_device(c)
               new == [type |-> find_storetype(n), drive |-> dev.drive, primary |-> dev.primary]
    <3>1. stores' = [stores EXCEPT ![slot] = new]
      BY <2>2 DEF register_store
    <3>2. new.drive \in Drive
      BY DEF ata_init_device
    <3> HIDE DEF slot, new
    <3> QED
      BY <3>1, <3>2 DEF AtaInv, Shape, StoreDrives
  <2> QED
    BY <2>1, <2>2 DEF Registering, TableNext
<1>2. Shape'
  BY <1>1 DEF AtaInv, Shape, Registering, ioVars
<1> QED
  BY <1>2 DEF AtaInv, Claims, Commanded, Progress, Reading, Saving, Failed, Request, Registering, ioVars

\* Every step keeps the invariant.
LEMMA NextInv == AtaInv /\ [Next]_vars => AtaInv'
<1> SUFFICES ASSUME AtaInv, [Next]_vars PROVE AtaInv'
  OBVIOUS
<1>1. CASE Registering
  BY <1>1, RegisteringInv
<1>2. CASE Calls
  BY <1>2, BeginInv DEF Calls
<1>3. CASE DriverStep
  BY <1>3, NextSectorInv, WaitReadyInv, SelectInv, CommandInv, ExistsInv, WaitDrqInv,
     ReadWordsInv, WriteWordsInv, CheckInv DEF DriverStep
<1>4. CASE \E d \in Drive : DriveWorks(d) \/ DriveFails(d)
  BY <1>4, DriveWorksInv, DriveFailsInv
<1>5. CASE UNCHANGED vars
  <2>1. Shape'
    BY <1>5 DEF AtaInv, Shape, vars, ioVars, tableVars, StoreDrives
  <2> QED
    BY <1>5, <2>1 DEF AtaInv, Claims, Commanded, Progress, Reading, Saving, Failed, Request, vars, ioVars
<1> QED
  BY <1>1, <1>2, <1>3, <1>4, <1>5 DEF Next

\* At every moment AtaInv holds: the drive the driver waits for is the one it
\* selected, and a drive that took the command is as far as the driver believes
\* (ata_read_sector, ata_write_sector, ata_identify).
THEOREM AtaInvariant == Spec => []AtaInv
<1>1. Init => AtaInv
  BY InitInv
<1>2. AtaInv /\ [Next]_vars => AtaInv'
  BY NextInv
<1> QED
  BY <1>1, <1>2, PTL DEF Spec

\* The bus, the drives and the call keep their types, and no wait reads the
\* status more often than its timeout allows.
THEOREM AtaTypes == Spec => []TypeOK
<1>1. AtaInv => TypeOK
  BY DEF AtaInv, Shape, TypeOK
<1> QED
  BY <1>1, AtaInvariant, PTL

-----------------------------------------------------------------------------
(* The refinement. *)

\* The request in progress, as SectorStore sees it.
LEMMA ReqIs ==
    ASSUME AtaInv
    PROVE  /\ call.pc \in {"none", "next"} => Req = NoRequest
           /\ call.pc \notin {"none", "next"} =>
                /\ Req = Request(call) /\ Req # Sectors!None
                /\ Req.d = call.d /\ Req.x = call.todo[1] /\ Req.op \in {"rd", "wr"}
                /\ Req.op = "wr" <=> call.op = "wr"
                /\ Req.at = Request(call).at
           /\ Req.at \in Page /\ Req.d \in Drive /\ Req.x \in Data
<1>1. CASE call.pc \in {"none", "next"}
  BY <1>1, DataAssumption, ZeroPage DEF Req, NoRequest
<1>2. CASE call.pc \notin {"none", "next"}
  <2>1. call.todo[1] \in Data /\ call.d \in Drive /\ call.op \in {"rd", "wr", "id"} /\ call.lba \in Nat
    BY DEF AtaInv, Shape
  <2>2. Request(call).at \in Page
    BY <2>1, Addressing
  <2>3. Req = Request(call) /\ Req.op \in {"rd", "wr"}
    BY <1>2, <2>1 DEF Req, Request
  <2>4. Req # Sectors!None
    BY <2>3 DEF Sectors!None
  <2>5. Req.d = call.d /\ Req.x = call.todo[1] /\ (Req.op = "wr" <=> call.op = "wr")
    BY <2>1, <2>3 DEF Request
  <2> QED
    BY <1>2, <2>1, <2>2, <2>3, <2>4, <2>5
<1> QED
  BY <1>1, <1>2

\* Which drives are stray.
LEMMA StrayIs ==
    ASSUME NEW d
    PROVE  d \in Stray <=>
             \/ d \in Drive /\ drive[d].phase # "idle" /\ ~(call.d = d /\ call.claim = "held")
             \/ call.claim = "lost" /\ d = call.d /\ d \in present
  BY DEF Stray

\* Which drives are stray after the step.
LEMMA StrayIsNext ==
    ASSUME NEW d
    PROVE  d \in Stray' <=>
             \/ d \in Drive /\ drive'[d].phase # "idle" /\ ~(call'.d = d /\ call'.claim = "held")
             \/ call'.claim = "lost" /\ d = call'.d /\ d \in present'
  BY DEF Stray

\* A step within a request that touches no disk.
LEMMA WithinIsSettle ==
    ASSUME AtaInv, AtaInv', call.pc \notin {"none", "next"}, call'.pc \notin {"none", "next"},
           Request(call)' = Request(call), UNCHANGED <<disk, done>>,
           \A d \in Stray' : d \in Stray
    PROVE  Sectors!Settle
<1>1. Req' = Req
  BY DEF Req
<1> QED
  BY <1>1 DEF Sectors!Settle

\* A failed request is an answer that promises nothing.
LEMMA FailIsAnswer ==
    ASSUME AtaInv, AtaInv', NEW ret \in {ATA_ERR_TIMEOUT, ATA_ERR_DRIVE_ERROR, ATA_ERR_INVALID_DRIVE},
           Return(ret, 0), call.pc \notin {"none", "next"}, UNCHANGED <<present, drive, disk>>
    PROVE  Sectors!Answer
<1>1. call'.pc = "none" /\ call'.claim = "none" /\ done' = [x |-> 0, ok |-> FALSE]
  <2>1. (ret = ATA_OK) = FALSE
    OBVIOUS
  <2> QED
    BY <2>1, Zenon DEF Return, NoCall
<1>2. Req # Sectors!None /\ Req.d = call.d
  BY ReqIs
<1>3. Req' = Sectors!None
  BY <1>1 DEF Req, NoRequest, Sectors!None
<1>4. Stray' \subseteq Stray \cup {Req.d}
  BY <1>1, <1>2, StrayIs, StrayIsNext
<1>5. 0 \in Data /\ FALSE \in BOOLEAN
  BY DataAssumption
<1> QED
  BY <1>1, <1>2, <1>3, <1>4, <1>5 DEF Sectors!Answer

\* A request that succeeds is an answer with what it promises.
LEMMA SuccessIsAnswer ==
    ASSUME AtaInv, AtaInv', NEW x \in Data, Return(ATA_OK, x), call.pc \notin {"none", "next"},
           UNCHANGED disk, Stray' \subseteq Stray,
           Req.d \notin Stray => disk[Req.d][Req.at] = IF Req.op = "rd" THEN x ELSE Req.x
    PROVE  Sectors!Answer
<1>1. call'.pc \in {"none", "next"} /\ done' = [x |-> x, ok |-> TRUE]
  BY DEF Return, NoCall, CallAt
<1>2. Req # Sectors!None
  BY ReqIs
<1>3. Req' = Sectors!None
  BY <1>1 DEF Req, NoRequest, Sectors!None
<1> QED
  BY <1>1, <1>2, <1>3 DEF Sectors!Answer

\* A turn of a polling loop touches no disk; its timeout answers the request.
LEMMA PollStep ==
    ASSUME AtaInv, AtaInv', PollAgain, call.pc \notin {"none", "next"}, UNCHANGED <<present, drive, disk>>
    PROVE  Sectors!Next
<1>1. CASE polls + 1 = Polls
  BY <1>1, FailIsAnswer DEF PollAgain, Sectors!Next
<1>2. CASE polls + 1 # Polls
  <2>1. UNCHANGED <<call, done>>
    BY <1>2 DEF PollAgain
  <2>2. \A d \in Stray' : d \in Stray
    BY <2>1, StrayIs, StrayIsNext
  <2> QED
    BY <2>1, <2>2, WithinIsSettle DEF Sectors!Next
<1> QED
  BY <1>1, <1>2

\* A step to another place in the same call touches no disk.
LEMMA GotoStep ==
    ASSUME AtaInv, AtaInv', NEW pc \in Places \ {"none", "next"}, Goto(pc),
           call.pc \notin {"none", "next"}, UNCHANGED <<present, drive, disk>>
    PROVE  Sectors!Next
<1>1. /\ call'.pc = pc /\ call'.claim = call.claim /\ call'.d = call.d
      /\ Request(call)' = Request(call) /\ UNCHANGED done
  BY DEF Goto, CallAt, Request
<1>2. \A d \in Stray' : d \in Stray
  BY <1>1, StrayIs, StrayIsNext
<1> QED
  BY <1>1, <1>2, WithinIsSettle DEF Sectors!Next

\* The next sector of a call begins a request.
LEMMA BeginStep ==
    ASSUME AtaInv, AtaInv', call.pc \in {"none", "next"}, call'.pc = "ready",
           UNCHANGED <<present, drive, disk, done>>
    PROVE  Sectors!Next
<1>1. Req = Sectors!None
  BY DEF Req, NoRequest, Sectors!None
<1>2. Req' = [op |-> Req'.op, d |-> Req'.d, at |-> Req'.at, x |-> Req'.x]
  BY DEF Req, Request
<1>3. Req'.op \in {"rd", "wr"} /\ Req'.d \in Drive /\ Req'.at \in Page /\ Req'.x \in Data
  <2>1. Req' = Request(call)' /\ Request(call)'.op \in {"rd", "wr"}
    BY DEF Req, Request
  <2>2. call' \in CallType /\ call'.todo[1] \in Data
    BY DEF AtaInv, Shape
  <2>3. Request(call').at \in Page
    BY <2>2, Addressing
  <2> QED
    BY <2>1, <2>2, <2>3 DEF Request
<1>4. call.claim = "none" /\ call'.claim = "none"
  BY DEF AtaInv, Claims, Commanded
<1>5. Stray' \subseteq Stray
  BY <1>4, StrayIs, StrayIsNext
<1>6. Sectors!Begin
  BY <1>1, <1>2, <1>3, <1>5 DEF Sectors!Begin
<1> QED
  BY <1>6 DEF Sectors!Next

\* Taking a command touches no disk.
LEMMA CommandStep == ASSUME AtaInv, AtaInv', Command PROVE Sectors!Next
<1>1. /\ call.claim = "none" /\ selected = call.d /\ call.d \in Drive
      /\ drive \in [Drive -> DriveType]
  BY DEF AtaInv, Shape, Claims, Commanded, Command
<1>2. /\ call'.pc \notin {"none", "next"} /\ call.pc \notin {"none", "next"}
      /\ call'.d = call.d /\ Request(call)' = Request(call) /\ UNCHANGED <<present, disk, done>>
  BY DEF Command, CallAt, Request
<1>3. \/ call'.claim = "held" /\ \A d \in Drive : d # call.d => drive'[d] = drive[d]
      \/ /\ call'.claim = "lost" /\ UNCHANGED drive
         /\ call.d \notin present \/ drive[call.d].phase # "idle"
  BY <1>1 DEF Command, CallAt
<1>4. \A d \in Stray' : d \in Stray
  BY <1>1, <1>2, <1>3, StrayIs, StrayIsNext
<1> QED
  BY <1>2, <1>4, WithinIsSettle DEF Sectors!Next

\* The end of a read answers with what the sector held.
LEMMA ReadWordsStep == ASSUME AtaInv, AtaInv', ReadWords PROVE Sectors!Next
<1>1. /\ selected = call.d /\ call.d \in Drive /\ drive \in [Drive -> DriveType]
      /\ call.claim \in {"held", "lost"} /\ (call.claim = "lost" => call.d \in present)
      /\ call.pc = "transfer" /\ call.op # "wr" /\ UNCHANGED <<present, disk>>
  BY DEF AtaInv, Shape, Claims, Commanded, ReadWords
<1>2. call.claim = "held" => /\ drive[call.d].phase = "out" /\ drive[call.d].at = Request(call).at
                             /\ drive[call.d].x = disk[call.d][drive[call.d].at]
  BY <1>1 DEF AtaInv, Progress, Reading
<1>3. Req.d = call.d /\ Req.op = "rd" /\ Req.at = Request(call).at
  BY <1>1, ReqIs
<1>4. PICK x \in Data :
        /\ Return(ATA_OK, x) /\ call'.claim = "none"
        /\ \A d \in Drive : d # call.d => drive'[d] = drive[d]
        /\ call.claim = "held" => x = drive[call.d].x /\ drive'[call.d].phase = "idle"
  <2>1. CASE drive[selected].phase = "out"
    <3>1. /\ Return(ATA_OK, drive[call.d].x) /\ drive[call.d].x \in Data
          /\ drive' = [drive EXCEPT ![call.d] = InPhase(call.d, "idle", 0)]
      BY <1>1, <2>1 DEF ReadWords
    <3>2. call'.claim = "none"
      BY <3>1 DEF Return, NoCall, CallAt
    <3>3. drive'[call.d].phase = "idle" /\ \A d \in Drive : d # call.d => drive'[d] = drive[d]
      BY <1>1, <3>1 DEF InPhase
    <3> QED
      BY <3>1, <3>2, <3>3
  <2>2. CASE drive[selected].phase # "out"
    <3>1. PICK x \in Data : Return(ATA_OK, x) /\ UNCHANGED drive
      BY <2>2 DEF ReadWords
    <3>2. call'.claim = "none"
      BY <3>1 DEF Return, NoCall, CallAt
    <3> QED
      BY <1>1, <1>2, <2>2, <3>1, <3>2
  <2> QED
    BY <2>1, <2>2
<1>5. Stray' \subseteq Stray
  BY <1>1, <1>4, StrayIs, StrayIsNext
<1>6. Req.d \notin Stray => disk[Req.d][Req.at] = x
  BY <1>1, <1>2, <1>3, <1>4, StrayIs
<1> QED
  BY <1>1, <1>3, <1>4, <1>5, <1>6, SuccessIsAnswer DEF Sectors!Next

\* Handing data to the drive touches no disk.
LEMMA WriteWordsStep == ASSUME AtaInv, AtaInv', WriteWords PROVE Sectors!Next
<1>1. /\ selected = call.d /\ call.d \in Drive /\ drive \in [Drive -> DriveType]
      /\ call.claim \in {"held", "lost"} /\ (call.claim = "lost" => call.d \in present)
      /\ call.pc = "transfer" /\ UNCHANGED <<present, disk>>
  BY DEF AtaInv, Shape, Claims, Commanded, WriteWords
<1>2. /\ call'.pc = "finish" /\ call'.claim = call.claim /\ call'.d = call.d
      /\ Request(call)' = Request(call) /\ UNCHANGED done
  BY DEF WriteWords, Goto, CallAt, Request
<1>3. \A d \in Drive : d # call.d => drive'[d] = drive[d]
  BY <1>1 DEF WriteWords
<1>4. \A d \in Stray' : d \in Stray
  BY <1>1, <1>2, <1>3, StrayIs, StrayIsNext
<1> QED
  BY <1>1, <1>2, <1>4, WithinIsSettle DEF Sectors!Next

\* The end of a write answers that the sector is saved.
LEMMA CheckStep == ASSUME AtaInv, AtaInv', CheckWritten PROVE Sectors!Next
<1>1. /\ selected = call.d /\ call.claim \in {"held", "lost"} /\ call.d \in present /\ call.d \in Drive
      /\ call.pc = "check" /\ call.op = "wr" /\ UNCHANGED <<present, drive, disk>>
  BY DEF AtaInv, Shape, Claims, Commanded, Progress, CheckWritten
<1>2. CASE ERR
  <2>1. Return(ATA_ERR_DRIVE_ERROR, 0)
    BY <1>2 DEF CheckWritten
  <2> QED
    BY <1>1, <2>1, FailIsAnswer DEF Sectors!Next
<1>3. CASE ~ERR
  <2>1. Return(ATA_OK, 0) /\ 0 \in Data
    BY <1>3, DataAssumption DEF CheckWritten
  <2>2. Req.d = call.d /\ Req.op = "wr" /\ Req.at = Request(call).at /\ Req.x = call.todo[1]
    BY <1>1, ReqIs
  <2>3. call.claim = "held" =>
            /\ drive[call.d].phase = "idle" /\ drive[call.d].at = Request(call).at
            /\ disk[call.d][drive[call.d].at] = call.todo[1]
    BY <1>1, <1>3 DEF AtaInv, Progress, Saving, ERR
  <2>4. call'.claim = "none"
    BY <2>1 DEF Return, NoCall, CallAt
  <2>5. Stray' \subseteq Stray
    BY <1>1, <2>3, <2>4, StrayIs, StrayIsNext
  <2>6. Req.d \notin Stray => disk[Req.d][Req.at] = Req.x
    BY <1>1, <2>2, <2>3, StrayIs
  <2> QED
    BY <1>1, <2>1, <2>2, <2>5, <2>6, SuccessIsAnswer DEF Sectors!Next
<1> QED
  BY <1>2, <1>3

\* A drive that works or fails saves, at most, the sector it was commanded to:
\* the one of the request in progress, unless the drive is stray.
LEMMA DriveStep ==
    ASSUME AtaInv, AtaInv', NEW d \in Drive, DriveWorks(d) \/ DriveFails(d)
    PROVE  Sectors!Next
<1>1. /\ drive \in [Drive -> DriveType] /\ drive[d].phase # "idle"
      /\ UNCHANGED <<present, call, done>>
      /\ \A e \in Drive : e # d => drive'[e] = drive[e]
  BY DEF AtaInv, Shape, DriveWorks, DriveFails
<1>2. Req' = Req
  BY <1>1 DEF Req, Request
<1>3. Stray' \subseteq Stray
  BY <1>1, StrayIs, StrayIsNext
<1>4. CASE disk' = disk
  BY <1>1, <1>2, <1>3, <1>4 DEF Sectors!Settle, Sectors!Next
<1>5. CASE drive[d].phase = "saving" /\ disk' = [disk EXCEPT ![d][drive[d].at] = drive[d].x]
  <2>1. drive[d].at \in Page /\ drive[d].x \in Data
    BY <1>1
  <2>2. CASE call.d = d /\ call.claim = "held"
    <3>1. /\ call.op = "wr" /\ drive[d].x = call.todo[1] /\ drive[d].at = Request(call).at
          /\ call.pc = "finish"
      BY <1>5, <2>2 DEF AtaInv, Progress, Saving, Reading, Failed
    <3>2. Req.op = "wr" /\ Req.d = d /\ Req.at = drive[d].at /\ Req.x = drive[d].x
      BY <2>2, <3>1, ReqIs
    <3> QED
      BY <1>1, <1>2, <1>3, <1>5, <3>2 DEF Sectors!Save, Sectors!Next
  <2>3. CASE ~(call.d = d /\ call.claim = "held")
    <3>1. d \in Stray
      BY <1>1, <2>3, StrayIs
    <3> QED
      BY <1>1, <1>2, <1>3, <1>5, <2>1, <3>1 DEF Sectors!Save, Sectors!Next
  <2> QED
    BY <2>2, <2>3
<1>6. disk' = disk \/ (drive[d].phase = "saving" /\ disk' = [disk EXCEPT ![d][drive[d].at] = drive[d].x])
  BY DEF DriveWorks, DriveFails
<1> QED
  BY <1>4, <1>5, <1>6

\* Every step of the driver is a step of SectorStore.
LEMMA DriverStepMaps == ASSUME AtaInv, AtaInv', DriverStep PROVE Sectors!Next
<1>1. CASE NextSector
  BY <1>1, BeginStep DEF NextSector
<1>2. CASE ata_wait_ready
  <2>1. CASE BSY
    BY <1>2, <2>1, PollStep DEF ata_wait_ready
  <2>2. CASE ~BSY
    BY <1>2, <2>2, GotoStep DEF ata_wait_ready
  <2> QED
    BY <2>1, <2>2
<1>3. CASE ata_select_drive
  BY <1>3, GotoStep DEF ata_select_drive
<1>4. CASE Exists
  <2>1. CASE selected \in present
    BY <1>4, <2>1, GotoStep DEF Exists
  <2>2. CASE selected \notin present
    BY <1>4, <2>2, FailIsAnswer DEF Exists, Sectors!Next
  <2> QED
    BY <2>1, <2>2
<1>5. CASE ata_wait_drq
  <2>1. CASE DRQ
    BY <1>5, <2>1, GotoStep DEF ata_wait_drq
  <2>2. CASE ~DRQ /\ ERR
    BY <1>5, <2>2, FailIsAnswer DEF ata_wait_drq, Sectors!Next
  <2>3. CASE ~DRQ /\ ~ERR
    BY <1>5, <2>3, PollStep DEF ata_wait_drq
  <2> QED
    BY <2>1, <2>2, <2>3
<1> QED
  BY <1>1, <1>2, <1>3, <1>4, <1>5, CommandStep, ReadWordsStep, WriteWordsStep, CheckStep DEF DriverStep

\* The driver implements SectorStore for every size of disk, every timeout and
\* any number of calls: a read that succeeds returned the sector asked for, a
\* write that succeeds is on the drive asked for, and no other sector changes,
\* except on a drive still busy with a request that was given up
\* (ata_read_sector, ata_write_sector).
THEOREM AtaRefinement == Spec => RefinesSectors
<1>1. Init => Sectors!Init
  <2> SUFFICES ASSUME Init PROVE Sectors!Init
    OBVIOUS
  <2>1. AtaInv /\ call = NoCall
    BY InitInv DEF Init
  <2>2. Req = Sectors!None
    BY <2>1 DEF Req, NoCall, NoRequest, Sectors!None
  <2>3. Stray = {}
    BY <2>1 DEF Init, Stray, NoCall
  <2> QED
    BY <2>1, <2>2, <2>3 DEF AtaInv, Shape, Init, Sectors!Init
<1>2. ASSUME AtaInv, AtaInv', [Next]_vars PROVE [Sectors!Next]_(Sectors!vars)
  <2>1. CASE Registering \/ UNCHANGED vars
    BY <2>1 DEF Registering, vars, ioVars, Sectors!vars, Req, Request, Stray
  <2>2. CASE Calls
    <3>1. call.pc = "none" /\ call'.pc = "ready" /\ UNCHANGED <<present, drive, disk, done>>
      BY <2>2 DEF Calls, Begin
    <3> QED
      BY <1>2, <3>1, BeginStep
  <2>3. CASE DriverStep
    BY <1>2, <2>3, DriverStepMaps
  <2>4. CASE \E d \in Drive : DriveWorks(d) \/ DriveFails(d)
    BY <1>2, <2>4, DriveStep
  <2> QED
    BY <1>2, <2>1, <2>2, <2>3, <2>4 DEF Next
<1> QED
  BY <1>1, <1>2, AtaInvariant, PTL DEF Spec, RefinesSectors, Sectors!Spec
=============================================================================
