---------------------- MODULE FirmwareUpdateFlash_proofs ----------------------
(***************************************************************************)
(* What the flash and the EEPROM hold: slot changes that are not torn by a *)
(* power cut leave at most one slot marked valid, store only in erased     *)
(* cells, and hand over the whole image or nothing of it.                  *)
(***************************************************************************)
EXTENDS FirmwareUpdate_proofs

(***************************************************************************)
(* An erased flag stands in front of an erased slot, but for the brother   *)
(* slot while it is being erased, of which blocks below sector are erased. *)
(* The slot being filled holds the blocks counted so far.                  *)
(***************************************************************************)
Erased ==
  /\ \A s \in Slots :
       flag[s] = "clear" /\ ~(dl = "erase" /\ s = Brother(slot)) => written[s] = {}
  /\ dl = "erase" =>
       /\ written[slot] = {}
       /\ \A c \in written[Brother(slot)] : SectorOf[c] >= sector

Filled ==
  /\ dl = "loop" \/ step = "complete" => written[slot] = 0 .. blk - 1
  /\ dl = "loop" /\ nextCoapBlock = 0 => blk = 0
  /\ step = "complete" => blk \in {0, ImageBlocks[info.file]}

OneMark == dl # "erase" => Flagged("valid") # {0, 1}

FlashInv == torn = 0 => Erased /\ Filled /\ OneMark

\* A slot that is claimed was erased, whatever its brother holds.
LEMMA ErasedWhenClaimed ==
  ASSUME UpdateInv, torn = 0, Erased, ClaimSlot
  PROVE  slot' \in Slots /\ flag[slot'] = "clear" /\ written[slot'] = {}
<1>1. slot' \in Flagged("clear")
  BY FirstOfFinds DEF ClaimSlot, Flagged
<1> QED
  BY <1>1 DEF ClaimSlot, Erased, Flagged

\* When the last erase block is gone the brother slot is empty.
LEMMA LastSectorEmpties ==
  ASSUME UpdateInv, Erased, EraseSector, sector + 1 = Sectors
  PROVE  written'[Brother(slot)] = {}
<1>1. Brother(slot) \in Slots /\ written[Brother(slot)] \in SUBSET Cells
  BY BrotherIsOther DEF UpdateInv, TypeInv, TypeOK
<1>2. written'[Brother(slot)] = {c \in written[Brother(slot)] : SectorOf[c] # sector}
  BY <1>1 DEF EraseSector, Kept, UpdateInv, TypeInv, TypeOK
<1>3. \A c \in written[Brother(slot)] :
        SectorOf[c] \in 0 .. Sectors - 1 /\ SectorOf[c] >= sector
  BY <1>1, UpdateAssumption DEF Erased, EraseSector
<1>4. sector \in Nat /\ Sectors \in Nat
  BY UpdateAssumption DEF UpdateInv, TypeInv, TypeOK
<1> QED
  BY <1>2, <1>3, <1>4

\* Erasing goes on where it stopped, and touches the brother slot alone.
LEMMA ErasingKeepsErased ==
  ASSUME UpdateInv, Erased, EraseSector
  PROVE  Erased'
<1> DEFINE b == Brother(slot)
<1> USE DEF UpdateInv, TypeInv, TypeOK
<1>1. b \in Slots /\ b # slot /\ Slots = {slot, b} /\ slot' = slot
  BY BrotherIsOther DEF EraseSector, download
<1>2. written[b] \in SUBSET Cells /\ written[slot] = {} /\ flag[slot] = "valid"
  BY <1>1 DEF EraseSector, Erased, SlotInHand
<1>3. /\ written'[b] = {c \in written[b] : SectorOf[c] # sector}
      /\ written'[slot] = {} /\ flag'[slot] = "valid"
  BY <1>1, <1>2 DEF EraseSector, ClearFlag, Kept
<1>4. \A c \in written'[b] : SectorOf[c] >= sector + 1
  <2>1. \A c \in written[b] : SectorOf[c] \in Nat /\ SectorOf[c] >= sector
    BY <1>2, UpdateAssumption DEF EraseSector, Erased
  <2> QED
    BY <1>3, <2>1
<1>5. CASE sector + 1 = Sectors
  <2>1. written'[b] = {} /\ dl' = "loop"
    BY <1>5, LastSectorEmpties DEF EraseSector
  <2> QED
    BY <1>1, <1>3, <2>1 DEF Erased
<1>6. CASE sector + 1 # Sectors
  <2>1. dl' = "erase" /\ sector' = sector + 1
    BY <1>6 DEF EraseSector
  <2>2. Brother(slot') = b
    BY <1>1
  <2> QED
    BY <1>1, <1>3, <1>4, <2>1, <2>2 DEF Erased
<1> QED
  BY <1>5, <1>6

\* A block that arrives is the next one of the slot in hand.
LEMMA StoringFillsOn ==
  ASSUME UpdateInv, Erased, Filled, ReceiveBlock
  PROVE  Erased' /\ Filled'
<1> USE DEF UpdateInv, TypeInv, TypeOK, DownloadPlace
<1>1. /\ slot \in Slots /\ flag[slot] = "valid" /\ written[slot] = 0 .. blk - 1
      /\ step = "ongoing" /\ info.file \in Versions
      /\ blk \in Nat /\ ImageBlocks[info.file] \in Nat /\ blk < ImageBlocks[info.file]
  BY ImageFitsCells DEF ReceiveBlock, SlotInHand, Filled
<1>2. slot' = slot /\ info'.file = info.file /\ blk' = blk + 1
  BY DEF ReceiveBlock, CountBlock
<1>3. written'[slot] = 0 .. blk' - 1
  <2>1. written'[slot] = written[slot] \cup {blk}
    BY <1>1 DEF ReceiveBlock, StoreBlock
  <2> QED
    BY <1>1, <1>2, <2>1
<1>4. \A s \in Slots : s # slot => written'[s] = written[s]
  BY DEF ReceiveBlock, StoreBlock
<1>5. \A s \in Slots : flag'[s] = "clear" => flag[s] = "clear"
  BY DEF ReceiveBlock, StoreBlock
<1>6. dl = "loop" /\ dl' \in {"none", "loop"}
  BY DEF ReceiveBlock, Handover, LoopAgain
<1>7. Erased'
  BY <1>1, <1>2, <1>4, <1>5, <1>6 DEF Erased
<1>8. CASE IsLast(blk)
  <2>1. dl' = "none" /\ blk' = ImageBlocks[info'.file]
    BY <1>1, <1>2, <1>8 DEF IsLast, ReceiveBlock, Handover
  <2> QED
    BY <1>2, <1>3, <1>7, <2>1 DEF Filled
<1>9. CASE ~IsLast(blk)
  <2>1. dl' = "loop" /\ step' = "ongoing" /\ nextCoapBlock' = 1
    BY <1>1, <1>6, <1>9 DEF ReceiveBlock, LoopAgain
  <2> QED
    BY <1>2, <1>3, <1>7, <2>1 DEF Filled
<1> QED
  BY <1>8, <1>9

\* Slot changes not torn by a power cut keep the flash in order.
LEMMA FlashInvInductive == UpdateInv /\ FlashInv /\ [Next]_vars => FlashInv'
<1> SUFFICES ASSUME UpdateInv, FlashInv, [Next]_vars, torn' = 0
             PROVE  Erased' /\ Filled' /\ OneMark'
  BY DEF FlashInv
<1>0. torn = 0 /\ Erased /\ Filled /\ OneMark
  <2>1. torn = 0
    BY DEF Next, Updater, Sender, IdentifyBoard, IdentifyByDefault, StartUpdate, IdleTurn,
       GetUpdateinfo, StepFor, GetUpdateinfoFails, ClaimSlot, EraseSector, ReceiveBlock,
       ReceiveTimeout, ServerNotReady, RequestFails, CompleteTurn, TakeMessage,
       BoardAnswers, PickSlot, SendImage, RunFirmware, SenderVars, Reboot, vars,
       UpdateInv, TypeInv, TypeOK
  <2> QED
    BY <2>1 DEF FlashInv
<1> USE <1>0 DEF UpdateInv, TypeInv, TypeOK, DownloadPlace, updater, download, shared,
        sender, flash, ghosts
<1>1. CASE IdentifyBoard
  BY <1>1 DEF IdentifyBoard, Erased, Filled, OneMark, Flagged
<1>2. CASE IdentifyByDefault
  BY <1>2 DEF IdentifyByDefault, Erased, Filled, OneMark, Flagged
<1>3. CASE StartUpdate
  BY <1>3 DEF StartUpdate, Erased, Filled, OneMark, Flagged
<1>4. CASE IdleTurn
  BY <1>4 DEF IdleTurn, Erased, Filled, OneMark, Flagged
<1>5. ASSUME NEW v \in Versions, NEW type \in {0, 1, 2}, GetUpdateinfo(v, type)
      PROVE  Erased' /\ Filled' /\ OneMark'
  BY <1>5 DEF GetUpdateinfo, StepFor, Erased, Filled, OneMark, Flagged
<1>6. CASE GetUpdateinfoFails
  BY <1>6 DEF GetUpdateinfoFails, Erased, Filled, OneMark, Flagged
<1>7. CASE ClaimSlot
  <2>1. /\ slot' \in Slots /\ flag[slot'] = "clear" /\ written[slot'] = {}
        /\ dl' = "erase" /\ sector' = 0 /\ step' = "ongoing" /\ written' = written
        /\ dl = "none"
    BY <1>7, ErasedWhenClaimed DEF ClaimSlot
  <2>2. \A c \in Cells : SectorOf[c] >= 0
    BY UpdateAssumption
  <2>3. \A s \in Slots : s # slot' => flag'[s] = flag[s]
    BY <1>7, <2>1 DEF ClaimSlot
  <2>4. flag'[slot'] = "valid"
    BY <1>7, <2>1 DEF ClaimSlot
  <2>5. Erased'
    BY <2>1, <2>2, <2>3, <2>4, BrotherIsOther DEF Erased
  <2> QED
    BY <2>1, <2>5 DEF Filled, OneMark
<1>8. CASE EraseSector
  <2>1. Erased'
    BY <1>8, ErasingKeepsErased
  <2>2. Filled'
    <3>1. /\ step' = "ongoing" /\ slot' = slot /\ blk' = 0 /\ written'[slot] = {}
          /\ 0 .. blk' - 1 = {}
      BY <1>8, BrotherIsOther DEF EraseSector, Erased
    <3> QED
      BY <3>1 DEF Filled
  <2>3. flag'[Brother(slot)] # "valid"
    BY <1>8, BrotherIsOther DEF EraseSector, ClearFlag, SlotInHand
  <2>4. OneMark'
    BY <2>3, BrotherIsOther DEF OneMark, Flagged, Slots
  <2> QED
    BY <2>1, <2>2, <2>4
<1>9. CASE ReceiveBlock
  <2>1. Erased' /\ Filled'
    BY <1>9, StoringFillsOn
  <2>2. \A s \in Slots : flag'[s] = "valid" => flag[s] = "valid"
    BY <1>9 DEF ReceiveBlock, StoreBlock
  <2>3. OneMark'
    BY <1>9, <2>2 DEF ReceiveBlock, OneMark, Flagged, Slots
  <2> QED
    BY <2>1, <2>3
<1>10. CASE ReceiveTimeout
  BY <1>10 DEF ReceiveTimeout, Handover, Return, LoopAgain, Erased, Filled, OneMark, Flagged
<1>11. CASE ServerNotReady
  BY <1>11 DEF ServerNotReady, Return, LoopAgain, Erased, Filled, OneMark, Flagged
<1>12. CASE RequestFails
  BY <1>12 DEF RequestFails, Return, Erased, Filled, OneMark, Flagged
<1>13. CASE CompleteTurn
  BY <1>13 DEF CompleteTurn, Erased, Filled, OneMark, Flagged
<1>14. CASE TakeMessage
  BY <1>14 DEF TakeMessage, SenderVars, Erased, Filled, OneMark, Flagged
<1>15. CASE BoardAnswers
  BY <1>15 DEF BoardAnswers, SenderVars, Erased, Filled, OneMark, Flagged
<1>16. CASE PickSlot
  BY <1>16 DEF PickSlot, SenderVars, Erased, Filled, OneMark, Flagged
<1>17. CASE SendImage
  BY <1>17 DEF SendImage, SenderVars, Erased, Filled, OneMark, Flagged
<1>18. CASE RunFirmware
  BY <1>18 DEF RunFirmware, SenderVars, Erased, Filled, OneMark, Flagged
<1>19. CASE Reboot
  BY <1>19 DEF Reboot, RestartUpdater, Erased, Filled, OneMark, Flagged
<1>20. CASE UNCHANGED vars
  BY <1>20 DEF vars, Erased, Filled, OneMark, Flagged
<1>21. QED
  BY <1>1, <1>2, <1>3, <1>4, <1>5, <1>6, <1>7, <1>8, <1>9, <1>10, <1>11, <1>12,
     <1>13, <1>14, <1>15, <1>16, <1>17, <1>18, <1>19, <1>20 DEF Next, Updater, Sender

\* The flash is in order until a power cut tears a slot change.
LEMMA FlashInvAlways == Spec => []FlashInv
<1>1. Init => FlashInv
  BY DEF Init, FlashInv, Erased, Filled, OneMark, Flagged, Slots
<1>2. UpdateInv /\ FlashInv /\ [Next]_vars => FlashInv'
  BY FlashInvInductive
<1> QED
  BY <1>1, <1>2, UpdateInvAlways, PTL DEF Spec

\* At most one slot is marked valid outside a change of slots.
THEOREM AtMostOneValidSlot == Spec => []OneValidSlot
<1>1. FlashInv => OneValidSlot
  BY DEF FlashInv, OneMark, OneValidSlot
<1> QED
  BY <1>1, FlashInvAlways, PTL

\* The next block of a download goes to an erased cell.
THEOREM StoresOnlyInErasedCells == Spec => []StoresInErasedCells
<1>1. UpdateInv /\ FlashInv => StoresInErasedCells
  BY DEF FlashInv, Filled, StoresInErasedCells, UpdateInv, TypeInv, TypeOK
<1> QED
  BY <1>1, FlashInvAlways, UpdateInvAlways, PTL

\* A slot that is handed over holds the whole image or nothing of it.
THEOREM HandedOverAllOrNothing == Spec => []AllOrNothing
<1>1. FlashInv => AllOrNothing
  BY DEF FlashInv, Filled, AllOrNothing
<1> QED
  BY <1>1, FlashInvAlways, PTL

-----------------------------------------------------------------------------
(***************************************************************************)
(* An image that fits its slot never touches the flag behind it, and the   *)
(* length told to the sender counts every block stored.                    *)
(***************************************************************************)
ImagesFit == \A v \in Versions : ImageBlocks[v] <= LastCell

FlagsKept == ImagesFit => \A s \in Slots : flag[s] # "other"

LengthCounts == dl # "none" \/ step = "complete" => info.length >= blk

\* Only a block in the last cell of slot 0 reaches a flag that is not its own.
LEMMA FlagsKeptInductive == UpdateInv /\ FlagsKept /\ [Next]_vars => FlagsKept'
<1> SUFFICES ASSUME UpdateInv, [Next]_vars, ImagesFit,
                    \A s \in Slots : flag[s] # "other"
             PROVE  \A s \in Slots : flag'[s] # "other"
  BY DEF FlagsKept, ImagesFit
<1> USE DEF UpdateInv, TypeInv, TypeOK, flash
<1>1. CASE ClaimSlot
  BY <1>1 DEF ClaimSlot
<1>2. CASE EraseSector
  BY <1>2 DEF EraseSector, ClearFlag
<1>3. CASE ReceiveBlock
  <2>1. info.file \in Versions /\ blk < ImageBlocks[info.file]
    BY <1>3 DEF ReceiveBlock, DownloadPlace
  <2>2. blk # LastCell
    BY <2>1, ImageFitsCells, UpdateAssumption DEF ImagesFit
  <2> QED
    BY <1>3, <2>2 DEF ReceiveBlock, StoreBlock
<1>4. CASE flag' = flag
  BY <1>4
<1>5. ClaimSlot \/ EraseSector \/ ReceiveBlock \/ flag' = flag
  BY DEF Next, Updater, Sender, IdentifyBoard, IdentifyByDefault, StartUpdate, IdleTurn,
     GetUpdateinfo, StepFor, GetUpdateinfoFails, ReceiveTimeout, ServerNotReady, RequestFails,
     CompleteTurn, TakeMessage, BoardAnswers, PickSlot, SendImage, RunFirmware,
     SenderVars, Reboot, vars
<1> QED
  BY <1>1, <1>2, <1>3, <1>4, <1>5

\* The length grows with every block and is reset only between downloads.
LEMMA LengthCountsInductive == UpdateInv /\ LengthCounts /\ [Next]_vars => LengthCounts'
<1> SUFFICES ASSUME UpdateInv, LengthCounts, [Next]_vars PROVE LengthCounts'
  OBVIOUS
<1> USE DEF UpdateInv, TypeInv, TypeOK, DownloadPlace, LengthCounts, updater, download
<1>1. CASE ClaimSlot
  BY <1>1 DEF ClaimSlot
<1>2. CASE EraseSector
  BY <1>2 DEF EraseSector, ClearFlag
<1>3. CASE ReceiveBlock
  <2>1. info'.length = info.length + 1 /\ blk' = blk + 1 /\ info.length >= blk
    BY <1>3 DEF ReceiveBlock, CountBlock
  <2> QED
    BY <2>1
<1>4. CASE ReceiveTimeout \/ ServerNotReady \/ RequestFails
  BY <1>4 DEF ReceiveTimeout, ServerNotReady, RequestFails, Handover, Return, LoopAgain
<1>5. ASSUME NEW v \in Versions, NEW type \in {0, 1, 2}, GetUpdateinfo(v, type)
      PROVE  LengthCounts'
  BY <1>5 DEF GetUpdateinfo, StepFor
<1>6. CASE GetUpdateinfoFails
  BY <1>6 DEF GetUpdateinfoFails
<1>7. CASE IdentifyBoard \/ IdentifyByDefault \/ StartUpdate \/ IdleTurn
  BY <1>7 DEF IdentifyBoard, IdentifyByDefault, StartUpdate, IdleTurn
<1>8. CASE CompleteTurn
  BY <1>8 DEF CompleteTurn
<1>9. CASE Sender
  BY <1>9 DEF Sender, TakeMessage, BoardAnswers, PickSlot, SendImage, RunFirmware, SenderVars
<1>10. CASE Reboot
  BY <1>10 DEF Reboot, RestartUpdater
<1>11. CASE UNCHANGED vars
  BY <1>11 DEF vars
<1> QED
  BY <1>1, <1>2, <1>3, <1>4, <1>5, <1>6, <1>7, <1>8, <1>9, <1>10, <1>11 DEF Next, Updater

\* The sender is told at least the blocks its slot holds.
THEOREM LengthAlwaysCovers == Spec => []LengthCoversImage
<1>1. Init => LengthCounts
  BY DEF Init, LengthCounts
<1>2. UpdateInv /\ LengthCounts /\ [Next]_vars => LengthCounts'
  BY LengthCountsInductive
<1>3. LengthCounts => LengthCoversImage
  BY DEF LengthCounts, LengthCoversImage
<1> QED
  BY <1>1, <1>2, <1>3, UpdateInvAlways, PTL DEF Spec

\* With images that fit and no torn slot change, one slot is always erased
\* when an update looks for one.
THEOREM SomeSlotAlwaysFree == Spec => []SomeSlotFree
<1>1. Init => FlagsKept
  BY DEF Init, FlagsKept
<1>2. UpdateInv /\ FlagsKept /\ [Next]_vars => FlagsKept'
  BY FlagsKeptInductive
<1>3. UpdateInv /\ FlagsKept /\ OneValidSlot => SomeSlotFree
  BY DEF FlagsKept, ImagesFit, OneValidSlot, SomeSlotFree, Flagged, Slots, UpdateInv,
     TypeInv, TypeOK
<1> QED
  BY <1>1, <1>2, <1>3, UpdateInvAlways, AtMostOneValidSlot, PTL DEF Spec
===============================================================================
