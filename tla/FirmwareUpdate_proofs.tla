------------------------ MODULE FirmwareUpdate_proofs ------------------------
(***************************************************************************)
(* The invariants of FirmwareUpdate for every set of updates, slot size,   *)
(* number of tries and number of power cuts, and its refinement of         *)
(* UpdateCycle.                                                            *)
(***************************************************************************)
EXTENDS FirmwareUpdate, TLAPS

(***************************************************************************)
(* Where the updater is in a download, and how far that can have got.      *)
(***************************************************************************)
DownloadPlace ==
  /\ dl # "none" => step = "ongoing"
  /\ step \in {"ongoing", "complete"} => info.file \in Versions
  /\ dl = "erase" => sector < Sectors /\ blk = 0
  /\ dl = "loop" => blk < ImageBlocks[info.file]

TypeInv == TypeOK /\ DownloadPlace

\* The blocks of every image fit the cells of a slot.
LEMMA ImageFitsCells ==
  ASSUME NEW v \in Versions
  PROVE  ImageBlocks[v] \in Nat /\ 1 <= ImageBlocks[v] /\ ImageBlocks[v] <= LastCell + 1
BY UpdateAssumption

\* What a version is recorded as is a label of the EEPROM.
LEMMA LabelIsLabel == ASSUME NEW v \in Versions PROVE LabelOf[v] \in Labels
BY UpdateAssumption DEF LabelOf, Labels

\* Every variable of the update stays in its range (TypeOK of the code's
\* globals, flash and EEPROM); a block number never passes the image's end.
LEMMA TypeInvInductive == TypeInv /\ [Next]_vars => TypeInv'
<1> SUFFICES ASSUME TypeInv, [Next]_vars PROVE TypeInv'
  OBVIOUS
<1> USE UpdateAssumption DEF TypeInv, TypeOK, DownloadPlace, updater, download,
        shared, sender, flash, ghosts, Slots, Busy, Reading, Steps
<1>1. CASE IdentifyBoard
  BY <1>1 DEF IdentifyBoard
<1>2. CASE IdentifyByDefault
  BY <1>2 DEF IdentifyByDefault, Labels
<1>3. CASE StartUpdate
  BY <1>3 DEF StartUpdate
<1>4. CASE IdleTurn
  BY <1>4 DEF IdleTurn
<1>5. ASSUME NEW v \in Versions, NEW type \in {0, 1, 2}, GetUpdateinfo(v, type)
      PROVE  TypeInv'
  BY <1>5 DEF GetUpdateinfo, StepFor
<1>6. CASE GetUpdateinfoFails
  BY <1>6 DEF GetUpdateinfoFails, NoUpdate
<1>7. CASE ClaimSlot
  BY <1>7 DEF ClaimSlot, FirstOf, Flagged
<1>8. CASE EraseSector
  BY <1>8 DEF EraseSector, ClearFlag, Kept, Brother, Cells
<1>9. CASE ReceiveBlock
  <2>1. info.file \in Versions /\ info.length \in Nat /\ step = "ongoing"
    BY <1>9 DEF ReceiveBlock
  <2>2. /\ ImageBlocks[info.file] \in Nat /\ ImageBlocks[info.file] <= LastCell + 1
        /\ blk \in Nat /\ blk < ImageBlocks[info.file]
    BY <1>9, <2>1, ImageFitsCells DEF ReceiveBlock
  <2>3. blk \in Cells /\ blk + 1 \in 0 .. LastCell + 1
    BY <2>2 DEF Cells
  <2>4. info'.file = info.file /\ info' \in [file : Versions \cup {None}, length : Nat]
    BY <1>9, <2>1 DEF ReceiveBlock, CountBlock
  <2>5. written' \in [Slots -> SUBSET Cells]
    BY <1>9, <2>3 DEF ReceiveBlock, StoreBlock
  <2>6. flag' \in [Slots -> {"clear", "valid", "other"}]
    BY <1>9 DEF ReceiveBlock, StoreBlock
  <2>7. updateCommandFlag' \in {0, 1}
    BY <1>9 DEF ReceiveBlock, LoopReport, StatusReport
  <2>8. UNCHANGED <<header, slot, sector, userFirmwareSendCompleteFlag, sender, holds, eeprom, ghosts,
                    torn, faults, reboots>>
    BY <1>9 DEF ReceiveBlock
  <2>9. tryNum1' \in 0 .. Tries /\ tryNum2' \in 0 .. Tries /\ blk' = blk + 1
    BY <1>9 DEF ReceiveBlock
  <2>10. CASE IsLast(blk)
    <3>1. /\ dl' = "none" /\ step' = "complete" /\ queue' = 1 /\ nextCoapBlock' = 0
      BY <1>9, <2>10 DEF ReceiveBlock, Handover
    <3> QED
      BY <2>1, <2>3, <2>4, <2>5, <2>6, <2>7, <2>8, <2>9, <3>1
  <2>11. CASE ~IsLast(blk)
    <3>1. /\ dl' = dl /\ step' = step /\ queue' = queue /\ nextCoapBlock' = 1
      BY <1>9, <2>11 DEF ReceiveBlock, LoopAgain
    <3>2. blk' < ImageBlocks[info.file]
      BY <2>2, <2>9, <2>11 DEF IsLast
    <3> QED
      BY <1>9, <2>1, <2>3, <2>4, <2>5, <2>6, <2>7, <2>8, <2>9, <3>1, <3>2 DEF ReceiveBlock
  <2>12. QED
    BY <2>10, <2>11
<1>10. CASE ReceiveTimeout
  BY <1>10 DEF ReceiveTimeout, LoopReport, StatusReport, Fault, Handover, Return, LoopAgain
<1>11. CASE ServerNotReady
  BY <1>11 DEF ServerNotReady, LoopReport, StatusReport, Fault, Return, LoopAgain
<1>12. CASE RequestFails
  BY <1>12 DEF RequestFails, LoopReport, StatusReport, Fault, Return
<1>13. CASE CompleteTurn
  BY <1>13, LabelIsLabel DEF CompleteTurn, SenderDone, StatusReport, UpdateUserVersionNo
<1>14. CASE TakeMessage
  BY <1>14 DEF TakeMessage, SenderVars
<1>15. CASE BoardAnswers
  BY <1>15 DEF BoardAnswers, SenderVars
<1>16. CASE PickSlot
  BY <1>16 DEF PickSlot, SenderVars, FirstOf, Flagged
<1>17. CASE SendImage
  BY <1>17 DEF SendImage, SenderVars
<1>18. CASE RunFirmware
  BY <1>18 DEF RunFirmware, SenderVars
<1>19. CASE Reboot
  BY <1>19 DEF Reboot, RestartUpdater, NoUpdate, Labels
<1>20. CASE UNCHANGED vars
  BY <1>20 DEF vars
<1>21. QED
  BY <1>1, <1>2, <1>3, <1>4, <1>5, <1>6, <1>7, <1>8, <1>9, <1>10, <1>11, <1>12,
     <1>13, <1>14, <1>15, <1>16, <1>17, <1>18, <1>19, <1>20 DEF Next, Updater, Sender

\* The state at power-up is in range.
LEMMA TypeInvInitially == Init => TypeInv
BY UpdateAssumption DEF Init, TypeInv, TypeOK, DownloadPlace, NoUpdate, Slots, Steps, Labels

\* TypeOK holds of every behaviour of the update.
THEOREM TypeCorrect == Spec => []TypeOK
<1>1. TypeInv => TypeOK
  BY DEF TypeInv
<1> QED
  BY <1>1, TypeInvInitially, TypeInvInductive, PTL DEF Spec

-----------------------------------------------------------------------------
(***************************************************************************)
(* The handshake.  A message in the queue, a busy sender and a raised flag *)
(* exclude one another, and each of them parks the updater in COMPLETE:    *)
(* the hand-over is the only step that leaves the updater there.           *)
(***************************************************************************)
Handshake ==
  /\ queue = 1 =>
       step = "complete" /\ spc \notin Busy /\ userFirmwareSendCompleteFlag = 0
  /\ spc \in Busy => step = "complete" /\ userFirmwareSendCompleteFlag = 0
  /\ userFirmwareSendCompleteFlag = 1 => step = "complete" /\ spc = "wait"

(***************************************************************************)
(* The slots.  From its claim to the next one the slot of the update in    *)
(* hand is marked valid and known to hold it; once the first erase block   *)
(* of its brother is gone, the brother is not marked valid.                *)
(***************************************************************************)
SlotInHand ==
  /\ dl # "none" \/ step = "complete" =>
       flag[slot] = "valid" /\ holds[slot] = info.file
  /\ (dl = "erase" /\ sector > 0) \/ dl = "loop" \/ step = "complete" =>
       flag[Brother(slot)] # "valid"
  /\ spc \in Reading => sslot = slot
  /\ userFirmwareSendCompleteFlag = 1 => installed = info.file

UpdateInv == TypeInv /\ Handshake /\ SlotInHand

\* No step of the updater, the sender or the power breaks the handshake.
LEMMA HandshakeInductive == TypeInv /\ Handshake /\ [Next]_vars => Handshake'
<1> SUFFICES ASSUME TypeInv, Handshake, [Next]_vars PROVE Handshake'
  OBVIOUS
<1> USE DEF TypeInv, TypeOK, DownloadPlace, Handshake, Busy, Reading, updater,
        download, shared, sender, flash, ghosts
<1>1. CASE IdentifyBoard
  BY <1>1 DEF IdentifyBoard
<1>2. CASE IdentifyByDefault
  BY <1>2 DEF IdentifyByDefault
<1>3. CASE StartUpdate
  BY <1>3 DEF StartUpdate
<1>4. CASE IdleTurn
  BY <1>4 DEF IdleTurn
<1>5. ASSUME NEW v \in Versions, NEW type \in {0, 1, 2}, GetUpdateinfo(v, type)
      PROVE  Handshake'
  BY <1>5 DEF GetUpdateinfo, StepFor
<1>6. CASE GetUpdateinfoFails
  BY <1>6 DEF GetUpdateinfoFails
<1>7. CASE ClaimSlot
  BY <1>7 DEF ClaimSlot
<1>8. CASE EraseSector
  BY <1>8 DEF EraseSector, ClearFlag
<1>9. CASE ReceiveBlock
  BY <1>9 DEF ReceiveBlock, Handover, LoopAgain
<1>10. CASE ReceiveTimeout
  BY <1>10 DEF ReceiveTimeout, Handover, Return, LoopAgain
<1>11. CASE ServerNotReady
  BY <1>11 DEF ServerNotReady, Return, LoopAgain
<1>12. CASE RequestFails
  BY <1>12 DEF RequestFails, Return
<1>13. CASE CompleteTurn
  BY <1>13 DEF CompleteTurn, SenderDone
<1>14. CASE TakeMessage
  BY <1>14 DEF TakeMessage, SenderVars
<1>15. CASE BoardAnswers
  BY <1>15 DEF BoardAnswers, SenderVars
<1>16. CASE PickSlot
  BY <1>16 DEF PickSlot, SenderVars
<1>17. CASE SendImage
  BY <1>17 DEF SendImage, SenderVars
<1>18. CASE RunFirmware
  BY <1>18 DEF RunFirmware, SenderVars
<1>19. CASE Reboot
  BY <1>19 DEF Reboot, RestartUpdater
<1>20. CASE UNCHANGED vars
  BY <1>20 DEF vars
<1>21. QED
  BY <1>1, <1>2, <1>3, <1>4, <1>5, <1>6, <1>7, <1>8, <1>9, <1>10, <1>11, <1>12,
     <1>13, <1>14, <1>15, <1>16, <1>17, <1>18, <1>19, <1>20 DEF Next, Updater, Sender

\* What the scans for a slot find.
LEMMA FirstOfFinds ==
  ASSUME NEW S \in SUBSET Slots, S # {}
  PROVE  FirstOf(S) \in S
BY DEF FirstOf, Slots

LEMMA BrotherIsOther ==
  ASSUME NEW s \in Slots
  PROVE  Brother(s) \in Slots /\ Brother(s) # s /\ Slots = {s, Brother(s)}
BY DEF Brother, Slots

\* No step moves the slot in hand away from its update, or marks its brother.
LEMMA SlotInHandInductive == UpdateInv /\ [Next]_vars => SlotInHand'
<1> SUFFICES ASSUME UpdateInv, [Next]_vars PROVE SlotInHand'
  OBVIOUS
<1> USE BrotherIsOther DEF UpdateInv, TypeInv, TypeOK, DownloadPlace, Handshake,
        SlotInHand, Busy, Reading, updater, download, shared, sender, flash, ghosts
<1>1. CASE IdentifyBoard
  BY <1>1 DEF IdentifyBoard
<1>2. CASE IdentifyByDefault
  BY <1>2 DEF IdentifyByDefault
<1>3. CASE StartUpdate
  BY <1>3 DEF StartUpdate
<1>4. CASE IdleTurn
  BY <1>4 DEF IdleTurn
<1>5. ASSUME NEW v \in Versions, NEW type \in {0, 1, 2}, GetUpdateinfo(v, type)
      PROVE  SlotInHand'
  BY <1>5 DEF GetUpdateinfo, StepFor
<1>6. CASE GetUpdateinfoFails
  BY <1>6 DEF GetUpdateinfoFails
<1>7. CASE ClaimSlot
  <2>1. slot' \in Slots
    BY <1>7, FirstOfFinds DEF ClaimSlot, Flagged
  <2>2. flag'[slot'] = "valid" /\ holds'[slot'] = info.file
    BY <1>7, <2>1 DEF ClaimSlot
  <2> QED
    BY <1>7, <2>2 DEF ClaimSlot
<1>8. CASE EraseSector
  BY <1>8 DEF EraseSector, ClearFlag
<1>9. CASE ReceiveBlock
  BY <1>9 DEF ReceiveBlock, CountBlock, StoreBlock, Handover, LoopAgain, Brother, Slots
<1>10. CASE ReceiveTimeout
  BY <1>10 DEF ReceiveTimeout, Handover, Return, LoopAgain
<1>11. CASE ServerNotReady
  BY <1>11 DEF ServerNotReady, Return, LoopAgain
<1>12. CASE RequestFails
  BY <1>12 DEF RequestFails, Return
<1>13. CASE CompleteTurn
  BY <1>13 DEF CompleteTurn, SenderDone
<1>14. CASE TakeMessage
  BY <1>14 DEF TakeMessage, SenderVars
<1>15. CASE BoardAnswers
  BY <1>15 DEF BoardAnswers, SenderVars
<1>16. CASE PickSlot
  <2>1. Flagged("valid") = {slot}
    BY <1>16 DEF PickSlot, Flagged
  <2> QED
    BY <1>16, <2>1, FirstOfFinds DEF PickSlot, SenderVars
<1>17. CASE SendImage
  BY <1>17 DEF SendImage, SenderVars
<1>18. CASE RunFirmware
  BY <1>18 DEF RunFirmware, SenderVars
<1>19. CASE Reboot
  BY <1>19 DEF Reboot, RestartUpdater
<1>20. CASE UNCHANGED vars
  BY <1>20 DEF vars
<1>21. QED
  BY <1>1, <1>2, <1>3, <1>4, <1>5, <1>6, <1>7, <1>8, <1>9, <1>10, <1>11, <1>12,
     <1>13, <1>14, <1>15, <1>16, <1>17, <1>18, <1>19, <1>20 DEF Next, Updater, Sender

\* The three parts together are inductive.
LEMMA UpdateInvAlways == Spec => []UpdateInv
<1>1. Init => UpdateInv
  BY TypeInvInitially DEF Init, UpdateInv, Handshake, SlotInHand, Busy, Reading
<1>2. UpdateInv /\ [Next]_vars => UpdateInv'
  BY TypeInvInductive, HandshakeInductive, SlotInHandInductive DEF UpdateInv
<1> QED
  BY <1>1, <1>2, PTL DEF Spec

\* The sender reads the slot of the update in hand, which is the only one
\* marked valid, while the updater waits for it.
THEOREM SenderOwnsItsSlot == Spec => []SenderOwnsSlot
<1>1. UpdateInv => SenderOwnsSlot
  <2> SUFFICES ASSUME UpdateInv, spc \in Reading
               PROVE  /\ step = "complete" /\ queue = 0 /\ userFirmwareSendCompleteFlag = 0
                      /\ sslot = slot /\ holds[sslot] = info.file
                      /\ Flagged("valid") = {sslot}
    BY DEF SenderOwnsSlot
  <2> USE DEF UpdateInv
  <2>1. step = "complete" /\ queue = 0 /\ userFirmwareSendCompleteFlag = 0
    BY DEF Handshake, Busy, Reading, TypeInv, TypeOK
  <2>2. sslot = slot /\ flag[slot] = "valid" /\ holds[slot] = info.file
        /\ flag[Brother(slot)] # "valid"
    BY <2>1 DEF SlotInHand
  <2>3. Flagged("valid") = {sslot}
    BY <2>2, BrotherIsOther DEF Flagged, TypeInv, TypeOK
  <2> QED
    BY <2>1, <2>2, <2>3
<1> QED
  BY <1>1, UpdateInvAlways, PTL

\* While the sender is busy no step but a power cut moves what it reads.
THEOREM SentImageIsStable == Spec => SentImageStable
<1>1. UpdateInv /\ [Next]_vars => [HoldsStill]_vars
  <2> SUFFICES ASSUME UpdateInv, Next, spc \in Busy, reboots' = reboots
               PROVE  UNCHANGED <<flag, written, info>>
    BY DEF HoldsStill
  <2> USE DEF flash, ghosts, shared, sender, download, updater
  <2>1. step = "complete" /\ dl = "none"
    BY DEF UpdateInv, Handshake, TypeInv, DownloadPlace, TypeOK
  <2>2. ~Reboot
    BY DEF Reboot, UpdateInv, TypeInv, TypeOK
  <2>3. CASE Updater
    BY <2>1, <2>3 DEF Updater, IdentifyBoard, IdentifyByDefault, StartUpdate, IdleTurn,
       GetUpdateinfo, StepFor, GetUpdateinfoFails, ClaimSlot, EraseSector, ReceiveBlock,
       ReceiveTimeout, ServerNotReady, RequestFails, CompleteTurn
  <2>4. CASE Sender
    BY <2>4 DEF Sender, TakeMessage, BoardAnswers, PickSlot, SendImage, RunFirmware,
       SenderVars
  <2> QED
    BY <2>2, <2>3, <2>4 DEF Next
<1> QED
  BY <1>1, UpdateInvAlways, PTL DEF Spec, SentImageStable

-----------------------------------------------------------------------------
(***************************************************************************)
(* FirmwareUpdate implements UpdateCycle: whatever the threads, retries    *)
(* and power cuts do, the version recorded is that of the image whose      *)
(* start the user's board acknowledged last.                               *)
(***************************************************************************)
\* The updater starts at rest with a label it can have written itself.
LEMMA CycleInitially == Init => Cycle!Init
BY DEF Init, Cycle!Init, Labels

\* Every step of the updater, the sender or the power is a step of the cycle.
LEMMA CycleSteps == UpdateInv /\ [Next]_vars => [Cycle!Next]_(Cycle!vars)
<1> SUFFICES ASSUME UpdateInv, [Next]_vars
             PROVE  Cycle!Next \/ UNCHANGED Cycle!vars
  OBVIOUS
<1> USE DEF UpdateInv, TypeInv, TypeOK, DownloadPlace, Handshake, SlotInHand, Busy, Reading,
        updater, download, shared, sender, flash, ghosts, Cycle!vars
<1>1. CASE IdentifyBoard \/ StartUpdate \/ IdleTurn \/ GetUpdateinfoFails
  BY <1>1 DEF IdentifyBoard, StartUpdate, IdleTurn, GetUpdateinfoFails
<1>2. CASE IdentifyByDefault
  BY <1>2 DEF IdentifyByDefault, Cycle!Next, Cycle!Identify
<1>3. ASSUME NEW v \in Versions, NEW type \in {0, 1, 2}, GetUpdateinfo(v, type)
      PROVE  UNCHANGED Cycle!vars
  BY <1>3 DEF GetUpdateinfo, StepFor
<1>4. CASE ClaimSlot \/ EraseSector
  BY <1>4 DEF ClaimSlot, EraseSector
<1>5. ASSUME dl = "loop", Handover, UNCHANGED userFirmwareSendCompleteFlag,
             info'.file = info.file, UNCHANGED <<installed, eeprom>>
      PROVE  Cycle!Hand(info.file) /\ info.file \in Versions
  BY <1>5 DEF Handover, Cycle!Hand
<1>6. CASE ReceiveBlock
  <2>1. info'.file = info.file
    BY <1>6 DEF ReceiveBlock, CountBlock
  <2>2. CASE Handover
    BY <1>5, <1>6, <2>1, <2>2 DEF ReceiveBlock, Cycle!Next
  <2>3. CASE LoopAgain
    BY <1>6, <2>1, <2>3 DEF ReceiveBlock, LoopAgain
  <2> QED
    BY <1>6, <2>2, <2>3 DEF ReceiveBlock
<1>7. CASE ReceiveTimeout
  <2>1. CASE Handover
    BY <1>5, <1>7, <2>1 DEF ReceiveTimeout, Cycle!Next
  <2>2. CASE LoopAgain \/ Return
    BY <1>7, <2>2 DEF ReceiveTimeout, LoopAgain, Return
  <2> QED
    BY <1>7, <2>1, <2>2 DEF ReceiveTimeout
<1>8. CASE ServerNotReady \/ RequestFails
  BY <1>8 DEF ServerNotReady, RequestFails, LoopAgain, Return
<1>9. CASE CompleteTurn
  <2>1. CASE userFirmwareSendCompleteFlag = 1
    BY <1>9, <2>1 DEF CompleteTurn, SenderDone, UpdateUserVersionNo, Cycle!Next, Cycle!Record
  <2>2. CASE userFirmwareSendCompleteFlag # 1
    BY <1>9, <2>2 DEF CompleteTurn, SenderDone
  <2> QED
    BY <2>1, <2>2
<1>10. CASE TakeMessage \/ BoardAnswers \/ PickSlot \/ SendImage
  BY <1>10 DEF TakeMessage, BoardAnswers, PickSlot, SendImage, SenderVars
<1>11. CASE RunFirmware
  <2>1. step = "complete" /\ userFirmwareSendCompleteFlag = 0 /\ holds[sslot] = info.file
    BY <1>11 DEF RunFirmware
  <2>2. CASE refused' = refused
    BY <1>11, <2>1, <2>2 DEF RunFirmware, SenderVars, Cycle!Next, Cycle!Start
  <2>3. CASE UNCHANGED <<userFirmwareSendCompleteFlag, installed>>
    BY <1>11, <2>3 DEF RunFirmware, SenderVars
  <2> QED
    BY <1>11, <2>2, <2>3 DEF RunFirmware
<1>12. CASE Reboot
  BY <1>12 DEF Reboot, RestartUpdater, Cycle!Next, Cycle!Lose
<1>13. CASE UNCHANGED vars
  BY <1>13 DEF vars
<1> QED
  BY <1>1, <1>2, <1>3, <1>4, <1>6, <1>7, <1>8, <1>9, <1>10, <1>11, <1>12, <1>13
     DEF Next, Updater, Sender

\* The record follows the acknowledged start, for all updates and power cuts.
THEOREM ImplementsUpdateCycle == Spec => UpdateCycleSpec
BY CycleInitially, CycleSteps, UpdateInvAlways, PTL DEF Spec, UpdateCycleSpec, Cycle!Spec

\* The header in RAM and the EEPROM part only over a version of 8 characters.
THEOREM HeaderFollowsEeprom == Spec => []HeaderDiffersOnlyIfBlanked
<1> DEFINE Inv == HeaderDiffersOnlyIfBlanked
<1>1. Init => Inv
  BY DEF Init, HeaderDiffersOnlyIfBlanked
<1>2. UpdateInv /\ Inv /\ [Next]_vars => Inv'
  <2> SUFFICES ASSUME UpdateInv, Inv, [Next]_vars PROVE Inv'
    OBVIOUS
  <2> USE DEF HeaderDiffersOnlyIfBlanked, updater
  <2>1. CASE IdentifyBoard \/ IdentifyByDefault
    BY <2>1 DEF IdentifyBoard, IdentifyByDefault
  <2>2. CASE CompleteTurn
    <3>1. info.file \in Versions /\ step = "complete"
      BY <2>2 DEF CompleteTurn, UpdateInv, TypeInv, DownloadPlace
    <3>2. info.file \in Exact => LabelOf[info.file] = Blank
      BY <3>1, UpdateAssumption DEF LabelOf
    <3> QED
      BY <2>2, <3>1, <3>2 DEF CompleteTurn, UpdateUserVersionNo
  <2>3. CASE Reboot
    BY <2>3 DEF Reboot
  <2>4. CASE StartUpdate \/ IdleTurn \/ GetUpdateinfoFails
             \/ \E v \in Versions, type \in {0, 1, 2} : GetUpdateinfo(v, type)
    BY <2>4 DEF StartUpdate, IdleTurn, GetUpdateinfoFails, GetUpdateinfo, StepFor
  <2>5. CASE ClaimSlot \/ EraseSector \/ ReceiveBlock \/ ReceiveTimeout
             \/ ServerNotReady \/ RequestFails
    <3>1. step = "ongoing" /\ UNCHANGED <<header, eeprom>>
      BY <2>5 DEF ClaimSlot, EraseSector, ReceiveBlock, ReceiveTimeout, ServerNotReady,
         RequestFails, UpdateInv, TypeInv, TypeOK, DownloadPlace
    <3> QED
      BY <3>1
  <2>6. CASE Sender \/ UNCHANGED vars
    BY <2>6 DEF Sender, TakeMessage, BoardAnswers, PickSlot, SendImage, RunFirmware,
       SenderVars, vars
  <2> QED
    BY <2>1, <2>2, <2>3, <2>4, <2>5, <2>6 DEF Next, Updater
<1> QED
  BY <1>1, <1>2, UpdateInvAlways, PTL DEF Spec
=============================================================================
