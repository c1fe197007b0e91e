--------------------------- MODULE FirmwareUpdate ---------------------------
(***************************************************************************)
(* The update of the user's board: the step machine of startRemoteUpdate   *)
(* (thread pppSurfing), the download of an image into one of two slots of  *)
(* the serial flash (deviceGetSaveUpdatefile), the thread that burns the   *)
(* image into the user's board (userFirmwareSend), the one-place queue and *)
(* the completion flag between the two, the version kept in the EEPROM,    *)
(* and a power cut at any point.                                           *)
(*                                                                         *)
(* Outside this module: the packets on the UART (module FirmwareSend).  A  *)
(* reply of the server is taken here to answer the request in hand.        *)
(*                                                                         *)
(* Request functions that change nothing when they fail (a status report   *)
(* or a registration that gets no answer, a read of the flash whose chip   *)
(* does not answer) only make their caller try again: that is stuttering.  *)
(***************************************************************************)
EXTENDS Naturals

CONSTANTS
  Versions,     \* the updates the server may command
  Short, Exact, \* those whose version text is below 8, is exactly 8 characters
  ImageBlocks,  \* 1024-byte blocks in the image of each update
  LastCell,     \* flash cells (1024 bytes) of a slot: 0..LastCell; the flag in
                \* front pushes the last 4 bytes of LastCell out of the slot
  Sectors,      \* erase blocks in a slot
  SectorOf,     \* the erase block that holds a cell
  Tries,        \* tryNum1 and tryNum2 of the download, 5 in the code
  Factory, Blank, None, \* version texts: the default, all zeros; no update
  MaxFaults,    \* bound: failed exchanges during downloads
  MaxReboots    \* bound: power cuts

Slots == {0, 1}
Cells == 0 .. LastCell

ASSUME UpdateAssumption ==
  /\ Short \subseteq Versions /\ Exact \subseteq Versions \ Short
  /\ LastCell \in Nat /\ Sectors \in Nat \ {0}
  /\ SectorOf \in [Cells -> 0 .. Sectors - 1]
  /\ ImageBlocks \in [Versions -> 1 .. LastCell + 1]
  /\ Tries \in Nat /\ MaxFaults \in Nat /\ MaxReboots \in Nat
  /\ None \notin Versions /\ Blank \notin Versions /\ Factory \notin Versions

VARIABLES
  \* The updater, in RAM.
  step,               \* DeviceUpdateStep, with "boot" before it, "gone" after
  updateCommandFlag,
  info,               \* updateinfo: the file named and fileLength, in blocks
  dl,                 \* place in deviceGetSaveUpdatefile
  slot,               \* the slot claimed last
  sector,             \* erase blocks of the brother slot cleared so far
  blk,                \* coapBlockNum
  nextCoapBlock,
  tryNum1, tryNum2,
  \* Between the threads.
  queue,              \* messages in it, at most 1
  userFirmwareSendCompleteFlag,
  \* The sender.
  spc, sslot,         \* place in userFirmwareSend; the slot it reads
  \* What a power cut leaves.
  flag, written,      \* per slot: the 4-byte flag; the cells programmed
  eeprom,             \* userSoftVerNo in the EEPROM
  header,             \* its copy in RAM
  \* History, and the counters that bound the model.
  holds,              \* per slot: the update it was claimed for
  installed,          \* the update whose start was acknowledged last
  refused,            \* the user's board refused to start the image in hand
  torn,               \* a power cut hit a slot change
  faults, reboots

updater  == <<step, updateCommandFlag, info, header>>
download == <<dl, slot, sector, blk, nextCoapBlock, tryNum1, tryNum2>>
shared   == <<queue, userFirmwareSendCompleteFlag>>
sender   == <<spc, sslot>>
flash    == <<flag, written, holds>>
ghosts   == <<installed, refused>>
vars == <<updater, download, shared, sender, flash, eeprom, ghosts, torn,
          faults, reboots>>

NoUpdate == [file |-> None, length |-> 0]
Flagged(f) == {s \in Slots : flag[s] = f}
\* Both scans of the slots take the first one that has the flag looked for.
FirstOf(S) == IF 0 \in S THEN 0 ELSE 1

\* What updateUserVersionNo puts in the EEPROM.  An 8-character text loses its
\* terminator to the file name behind it and a longer one is never copied.
LabelOf == [v \in Versions |-> IF v \in Short THEN v ELSE Blank]
Labels == Versions \cup {Factory, Blank}

-----------------------------------------------------------------------------
(* Plausible mistakes in the code: put in the place of the definition that *)
(* its comment names, each breaks a property (the README says which).      *)

\* Brother: the slot erased is the one just claimed.
Itself(s) == s
\* ClearFlag: erasing starts behind the flag.
ClearFlagNever(b) == UNCHANGED <<flag, holds>>
\* Kept: the erase address is one block too far.
KeptOffByOne(b) == {c \in written[b] : SectorOf[c] # sector + 1}
\* Handover: the message is not put.
HandoverQuiet == dl' = "none" /\ step' = "complete" /\ UNCHANGED queue
\* IsLast: blocks are counted from one, or the last one is not asked for.
IsLastMissed(n) == n > ImageBlocks[info.file]
IsLastEarly(n) == n + 2 >= ImageBlocks[info.file]
\* CountBlock: only full blocks count.
CountFullBlocks ==
  info' = [info EXCEPT !.length = IF blk + 1 < ImageBlocks[info.file] THEN @ + 1 ELSE @]
\* SenderDone: the completion flag is not looked at.
SenderDoneUnchecked == TRUE
\* UpdateUserVersionNo: the copy changes even if the write fails.
RecordUnwritten ==
  /\ header' = LabelOf[info.file]
  /\ eeprom' \in {eeprom, LabelOf[info.file]}

-----------------------------------------------------------------------------
(* Power-up: main reads the EEPROM before it starts the threads.           *)

RestartUpdater ==
  /\ updateCommandFlag' = 0 /\ info' = NoUpdate
  /\ dl' = "none" /\ slot' = 0 /\ sector' = 0 /\ blk' = 0 /\ nextCoapBlock' = 0
  /\ tryNum1' = Tries /\ tryNum2' = Tries
  /\ queue' = 0 /\ userFirmwareSendCompleteFlag' = 0
  /\ spc' = "wait" /\ sslot' = 0 /\ refused' = 0

Init ==
  /\ step = "boot" /\ updateCommandFlag = 0 /\ info = NoUpdate
  /\ dl = "none" /\ slot = 0 /\ sector = 0 /\ blk = 0 /\ nextCoapBlock = 0
  /\ tryNum1 = Tries /\ tryNum2 = Tries
  /\ queue = 0 /\ userFirmwareSendCompleteFlag = 0
  /\ spc = "wait" /\ sslot = 0
  /\ flag = [s \in Slots |-> "clear"] /\ written = [s \in Slots |-> {}]
  /\ eeprom = Factory /\ header = Blank
  /\ holds = [s \in Slots |-> None] /\ installed = None /\ refused = 0
  /\ torn = 0 /\ faults = 0 /\ reboots = 0

Reboot ==
  /\ reboots < MaxReboots
  /\ reboots' = reboots + 1
  /\ step' = "boot" /\ header' = Blank
  /\ RestartUpdater
  /\ torn' = IF dl = "erase" THEN 1 ELSE torn
  /\ UNCHANGED <<flash, eeprom, installed, faults>>

\* The EEPROM answers: its header is in RAM and the threads start.
IdentifyBoard ==
  /\ step = "boot"
  /\ step' = "register" /\ header' = eeprom
  /\ UNCHANGED <<updateCommandFlag, info, download, shared, sender, flash,
                 eeprom, ghosts, torn, faults, reboots>>

\* Ten failed reads look like a first start: the defaults are taken and
\* written back; if that write fails too, main returns before the threads.
IdentifyByDefault ==
  /\ step = "boot"
  /\ header' = Factory
  /\ \/ step' = "register" /\ eeprom' = Factory
     \/ step' = "gone" /\ eeprom' = eeprom
  /\ UNCHANGED <<updateCommandFlag, info, download, shared, sender, flash,
                 ghosts, torn, faults, reboots>>

\* startRemoteUpdate connects its socket or returns; then it registers the
\* device and goes on whether or not that succeeded.
StartUpdate ==
  /\ step = "register"
  /\ step' \in {"idle", "gone"}
  /\ UNCHANGED <<updateCommandFlag, info, header, download, shared, sender,
                 flash, eeprom, ghosts, torn, faults, reboots>>

-----------------------------------------------------------------------------
(* The steps before a download.                                            *)

\* deviceStatusReport: an answer may carry the update command.
StatusReport == updateCommandFlag' \in {updateCommandFlag, 1}

\* A report is answered, and the command is there: with this answer, or since
\* a report of the last download.
IdleTurn ==
  /\ step = "idle"
  /\ updateCommandFlag' = 0
  /\ step' = "command"
  /\ UNCHANGED <<info, header, download, shared, sender, flash, eeprom, ghosts,
                 torn, faults, reboots>>

\* Type 1 updates the user's board, 0 this board (no code does); with any
\* other value the server is asked again.
StepFor(type) == CASE type = 1 -> "ongoing"
                   [] type = 0 -> "myself"
                   [] OTHER    -> "command"

\* deviceGetUpdateinfo gets an answer with both type and newVersionNo.
GetUpdateinfo(v, type) ==
  /\ step = "command"
  /\ info' = [file |-> v, length |-> 0]
  /\ step' = StepFor(type)
  /\ UNCHANGED <<updateCommandFlag, header, download, shared, sender, flash,
                 eeprom, ghosts, torn, faults, reboots>>

\* An answer without them has already wiped updateinfo.
GetUpdateinfoFails ==
  /\ step = "command"
  /\ info' = NoUpdate
  /\ UNCHANGED <<step, updateCommandFlag, header, download, shared, sender,
                 flash, eeprom, ghosts, torn, faults, reboots>>

-----------------------------------------------------------------------------
(* deviceGetSaveUpdatefile.  A call that fails is made again, in the same  *)
(* turn or the next, and chooses a slot anew.                              *)

\* The first erased slot is marked before anything is stored in it.
ClaimSlot ==
  /\ step = "ongoing" /\ dl = "none"
  /\ Flagged("clear") # {}
  /\ slot' = FirstOf(Flagged("clear"))
  /\ flag' = [flag EXCEPT ![slot'] = "valid"]
  /\ holds' = [holds EXCEPT ![slot'] = info.file]
  /\ dl' = "erase" /\ sector' = 0 /\ blk' = 0 /\ nextCoapBlock' = 0
  /\ tryNum1' = Tries /\ tryNum2' = Tries
  /\ UNCHANGED <<updater, shared, sender, written, eeprom, ghosts, torn, faults,
                 reboots>>

Brother(s) == 1 - s

\* clearBlock: the cells of an erase block; the flag is in block 0.
Kept(b) == {c \in written[b] : SectorOf[c] # sector}
ClearFlag(b) ==
  IF sector = 0
    THEN /\ flag' = [flag EXCEPT ![b] = "clear"]
         /\ holds' = [holds EXCEPT ![b] = None]
    ELSE UNCHANGED <<flag, holds>>

\* The brother slot is erased block by block.
EraseSector ==
  LET b == Brother(slot) IN
  /\ dl = "erase"
  /\ written' = [written EXCEPT ![b] = Kept(b)]
  /\ ClearFlag(b)
  /\ sector' = sector + 1
  /\ dl' = IF sector + 1 = Sectors THEN "loop" ELSE "erase"
  /\ UNCHANGED <<updater, slot, blk, nextCoapBlock, tryNum1, tryNum2, shared, sender,
                 eeprom, ghosts, torn, faults, reboots>>

\* The status is reported before the request of every eighth block.
LoopReport == IF blk % 8 = 0 THEN StatusReport ELSE UNCHANGED updateCommandFlag

Fault == faults < MaxFaults /\ faults' = faults + 1

\* The function returns 0: the sender is told and the updater waits for it.
Handover ==
  /\ dl' = "none"
  /\ step' = "complete"
  /\ queue' = 1

Return == dl' = "none" /\ UNCHANGED <<step, queue>>
LoopAgain == UNCHANGED <<dl, step, queue>>

\* A block arrives.  Cell LastCell ends 4 bytes inside the next slot, whose
\* flag those bytes overwrite (behind slot 1 nothing is kept).
StoreBlock ==
  /\ written' = [written EXCEPT ![slot] = @ \cup {blk}]
  /\ flag' = IF slot = 0 /\ blk = LastCell
               THEN [flag EXCEPT ![1] = "other"] ELSE flag

\* fileLength, in blocks.
CountBlock == info' = [info EXCEPT !.length = @ + 1]

\* The server sets the "more" bit of the Block2 option but for the last block.
IsLast(n) == n + 1 >= ImageBlocks[info.file]

ReceiveBlock ==
  /\ dl = "loop"
  /\ LoopReport
  /\ StoreBlock
  /\ CountBlock
  /\ tryNum1' = Tries /\ tryNum2' = Tries
  /\ blk' = blk + 1 /\ nextCoapBlock' = IF IsLast(blk) THEN 0 ELSE 1
  /\ IF IsLast(blk) THEN Handover ELSE LoopAgain
  /\ UNCHANGED <<header, slot, sector, userFirmwareSendCompleteFlag, sender,
                 holds, eeprom, ghosts, torn, faults, reboots>>

\* No answer: "continue" jumps to the loop's condition, so a first request
\* that times out ends the loop, and the function returns 0.
ReceiveTimeout ==
  /\ dl = "loop" /\ Fault
  /\ LoopReport
  /\ \/ tryNum1 > 0 /\ tryNum1' = tryNum1 - 1
        /\ IF nextCoapBlock = 1 THEN LoopAgain ELSE Handover
     \/ tryNum1 = 0 /\ UNCHANGED tryNum1 /\ Return
  /\ UNCHANGED <<info, header, slot, sector, blk, nextCoapBlock, tryNum2,
                 userFirmwareSendCompleteFlag, sender, flash, eeprom, ghosts,
                 torn, reboots>>

\* The server answers that the file is not ready.
ServerNotReady ==
  /\ dl = "loop" /\ Fault
  /\ LoopReport
  /\ tryNum1' = Tries /\ nextCoapBlock' = 1
  /\ \/ tryNum2 > 0 /\ tryNum2' = tryNum2 - 1 /\ LoopAgain
     \/ tryNum2 = 0 /\ UNCHANGED tryNum2 /\ Return
  /\ UNCHANGED <<info, header, slot, sector, blk, userFirmwareSendCompleteFlag,
                 sender, flash, eeprom, ghosts, torn, reboots>>

\* The request cannot be sent, or the answer is malformed.
RequestFails ==
  /\ dl = "loop" /\ Fault
  /\ LoopReport
  /\ Return
  /\ UNCHANGED <<info, header, slot, sector, blk, nextCoapBlock, tryNum1, tryNum2,
                 userFirmwareSendCompleteFlag, sender, flash, eeprom, ghosts,
                 torn, reboots>>

-----------------------------------------------------------------------------
(* USER_DEVICE_UPDATE_COMPLETE: report, then look at the completion flag.  *)

\* The EEPROM and its copy take the version, or all three writes fail.  The
\* copy of an 8-character version, read back too long, is left alone.
UpdateUserVersionNo ==
  \/ /\ eeprom' = LabelOf[info.file]
     /\ header' = IF info.file \in Exact THEN header ELSE LabelOf[info.file]
  \/ UNCHANGED <<eeprom, header>>

SenderDone == userFirmwareSendCompleteFlag = 1

CompleteTurn ==
  /\ step = "complete"
  /\ StatusReport
  /\ IF SenderDone
       THEN /\ userFirmwareSendCompleteFlag' = 0
            /\ UpdateUserVersionNo
            /\ step' = "idle"
       ELSE UNCHANGED <<userFirmwareSendCompleteFlag, eeprom, header, step>>
  /\ UNCHANGED <<info, download, queue, sender, flash, ghosts, torn, faults,
                 reboots>>

-----------------------------------------------------------------------------
(* userFirmwareSend.                                                       *)

SenderVars(pc) ==
  /\ spc' = pc
  /\ UNCHANGED <<updater, download, flash, eeprom, torn, faults, reboots>>

\* queue.get
TakeMessage ==
  /\ spc = "wait" /\ queue = 1
  /\ queue' = 0
  /\ SenderVars("ask")
  /\ UNCHANGED <<userFirmwareSendCompleteFlag, sslot, ghosts>>

\* getUserVersion is repeated until the user's board answers.
BoardAnswers ==
  /\ spc = "ask"
  /\ SenderVars("pick")
  /\ UNCHANGED <<shared, sslot, ghosts>>

\* The first valid slot; with none readable the thread ends.
PickSlot ==
  /\ spc = "pick"
  /\ \/ /\ Flagged("valid") # {}
        /\ sslot' = FirstOf(Flagged("valid"))
        /\ SenderVars("send")
     \/ /\ UNCHANGED sslot
        /\ SenderVars("gone")
  /\ UNCHANGED <<shared, ghosts>>

\* All packets are tried; a packet that fails is passed over.
SendImage ==
  /\ spc = "send"
  /\ SenderVars("run")
  /\ UNCHANGED <<shared, sslot, ghosts>>

\* runUserFirmware: only an acknowledged start sets the flag.
RunFirmware ==
  /\ spc = "run"
  /\ \/ /\ userFirmwareSendCompleteFlag' = 1
        /\ installed' = holds[sslot]
        /\ UNCHANGED refused
     \/ /\ refused' = 1
        /\ UNCHANGED <<userFirmwareSendCompleteFlag, installed>>
  /\ SenderVars("wait")
  /\ UNCHANGED <<queue, sslot>>

-----------------------------------------------------------------------------
Updater == \/ IdentifyBoard \/ IdentifyByDefault \/ StartUpdate \/ IdleTurn
           \/ \E v \in Versions, type \in {0, 1, 2} : GetUpdateinfo(v, type)
           \/ GetUpdateinfoFails
           \/ ClaimSlot \/ EraseSector
           \/ ReceiveBlock \/ ReceiveTimeout \/ ServerNotReady \/ RequestFails
           \/ CompleteTurn

Sender == TakeMessage \/ BoardAnswers \/ PickSlot \/ SendImage \/ RunFirmware

Next == Updater \/ Sender \/ Reboot

Spec == Init /\ [][Next]_vars

(***************************************************************************)
(* Fairness: both threads are scheduled (equal priorities, round robin),   *)
(* and the world answers in the end: the server names an update for the    *)
(* user's board and serves its blocks, the flash chip answers, the user's  *)
(* board answers the version request.                                      *)
(***************************************************************************)
Fairness ==
  /\ WF_vars(\E v \in Versions : GetUpdateinfo(v, 1))
  /\ WF_vars(ClaimSlot) /\ WF_vars(EraseSector) /\ WF_vars(ReceiveBlock)
  /\ WF_vars(CompleteTurn)
  /\ WF_vars(TakeMessage) /\ WF_vars(BoardAnswers) /\ WF_vars(PickSlot)
  /\ WF_vars(SendImage) /\ WF_vars(RunFirmware)

FairSpec == Spec /\ Fairness

-----------------------------------------------------------------------------
(* Properties.                                                             *)

Steps == {"boot", "register", "idle", "command", "ongoing", "complete",
          "myself", "gone"}
Reading == {"send", "run"}
Busy == {"ask", "pick"} \cup Reading

\* Every variable stays in its range: in particular at most one message is
\* queued, and no block is stored beyond the last cell of a slot.
TypeOK ==
  /\ step \in Steps /\ updateCommandFlag \in {0, 1}
  /\ info \in [file : Versions \cup {None}, length : Nat]
  /\ dl \in {"none", "erase", "loop"} /\ slot \in Slots
  /\ sector \in 0 .. Sectors /\ blk \in 0 .. LastCell + 1 /\ nextCoapBlock \in {0, 1}
  /\ tryNum1 \in 0 .. Tries /\ tryNum2 \in 0 .. Tries
  /\ queue \in {0, 1} /\ userFirmwareSendCompleteFlag \in {0, 1}
  /\ spc \in {"wait", "gone"} \cup Busy /\ sslot \in Slots
  /\ flag \in [Slots -> {"clear", "valid", "other"}]
  /\ written \in [Slots -> SUBSET Cells]
  /\ eeprom \in Labels /\ header \in Labels
  /\ holds \in [Slots -> Versions \cup {None}]
  /\ installed \in Versions \cup {None} /\ refused \in {0, 1}
  /\ torn \in {0, 1} /\ faults \in 0 .. MaxFaults /\ reboots \in 0 .. MaxReboots

\* While the sender reads the flash or starts the image, the slot it reads is
\* the one the last download claimed for the update in hand, the updater is
\* parked in COMPLETE, and no other slot is marked valid.  (No lock guards
\* the flash or updateinfo: the queue and the completion flag must do it.)
SenderOwnsSlot ==
  spc \in Reading =>
    /\ step = "complete" /\ queue = 0 /\ userFirmwareSendCompleteFlag = 0
    /\ sslot = slot /\ holds[sslot] = info.file
    /\ Flagged("valid") = {sslot}

\* From the moment it asks the board until it reports, nothing the sender
\* reads moves: flags, cells and updateinfo (unless the power fails).
HoldsStill ==
  spc \in Busy /\ reboots' = reboots => UNCHANGED <<flag, written, info>>
SentImageStable == [][HoldsStill]_vars

\* Outside the change of slots at most one slot is marked valid, so the scan
\* for "the" image has one answer, unless a power cut tore a change.
OneValidSlot ==
  torn = 0 /\ dl # "erase" => Flagged("valid") # {0, 1}

\* The next block always goes to an erased cell (flash can only clear bits),
\* unless a power cut left a slot half erased under a cleared flag.
StoresInErasedCells ==
  torn = 0 /\ dl = "loop" => \A c \in blk .. LastCell : c \notin written[slot]

\* A handed-over slot holds the blocks that were received and no other, and
\* that is the whole image, or nothing of it when the first request timed out.
AllOrNothing ==
  step = "complete" /\ torn = 0 =>
    /\ written[slot] = 0 .. blk - 1
    /\ blk \in {0, ImageBlocks[info.file]}

\* The sender is never told fewer blocks than the slot holds: fileLength is
\* counted up over all attempts and starts again only with a new update.
LengthCoversImage ==
  step = "complete" => info.length >= blk

\* The version in RAM and in the EEPROM differ only when an 8-character
\* version text has blanked the EEPROM.
HeaderDiffersOnlyIfBlanked ==
  step \notin {"boot", "gone"} /\ header # eeprom => eeprom = Blank

\* As long as images fit the slot and no power cut tore a slot change, an
\* update asked for finds an erased slot to go to.
SomeSlotFree ==
  torn = 0 /\ dl = "none" /\ (\A v \in Versions : ImageBlocks[v] <= LastCell)
    => Flagged("clear") # {}

\* Every hand-over ends: the updater leaves COMPLETE, or the board refused the
\* image, or the sender has ended for want of a readable slot.
HandoverEnds ==
  (step = "complete") ~> (step # "complete" \/ refused = 1 \/ spc = "gone")

\* Every update for this board's user MCU is handed over in the end, unless
\* the power fails or a torn slot change has left no slot free.
CommandIsHandedOver ==
  (step = "command") ~> (step \in {"complete", "myself", "boot"}
                           \/ (torn = 1 /\ Flagged("clear") = {}))

\* The comment "download is over" in userFirmwareSend: once the thread has its
\* message the whole image is in the slot.
DownloadIsOver ==
  spc \in Busy => written[slot] = 0 .. ImageBlocks[info.file] - 1

\* The comment "256Kbytes, The user iamge buffer size": an image of that size
\* leaves the other buffer alone once its slot change is over.
ImageStaysInItsSlot ==
  \A s \in Slots : flag[s] # "other"

(***************************************************************************)
(* The promise of an update cycle, seen through the step machine.          *)
(***************************************************************************)
Cycle == INSTANCE UpdateCycle WITH
  phase    <- IF step # "complete" THEN "rest"
              ELSE IF userFirmwareSendCompleteFlag = 1 THEN "started"
              ELSE "handed",
  image    <- IF step = "complete" THEN info.file ELSE None,
  running  <- installed,
  recorded <- eeprom

\* The version recorded is always that of the image whose start the board
\* acknowledged last, one record per acknowledged start.
UpdateCycleSpec == Cycle!Spec
=============================================================================
