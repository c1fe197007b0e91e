---------------------------- MODULE FirmwareSend ----------------------------
(***************************************************************************)
(* How userFirmwareSend burns an image into the user's board over the      *)
(* UART: the packet loop of the thread, userfwpro::sendUserFirmware with   *)
(* its running decode key, and the three rounds of userfwpro::CheckCode.   *)
(* The boot loader of the user's board is external: it stores what reaches *)
(* it and answers.                                                         *)
(*                                                                         *)
(* A file of fileLength bytes fills the packets 0..Last of 512 bytes, Last *)
(* being fileLength \div 512.  The loop runs once more than that, for the  *)
(* four bytes held back from packet 0: without them the image cannot start.*)
(***************************************************************************)
EXTENDS Naturals

CONSTANTS Last,         \* the last data packet of an image
          Rounds,       \* rounds of CheckCode, 3 in the code
          MaxImages,    \* bound: images sent since power-up
          MaxStray      \* bound: answers under way at once

ASSUME SendAssumption ==
  Last \in Nat /\ Rounds \in Nat \ {0} /\ MaxImages \in Nat /\ MaxStray \in Nat

VARIABLES
  pc,       \* "rest", "load", "exchange", "run"
  image,    \* images begun since power-up
  j,        \* the loop's packet index into the flash
  a,        \* data packets acknowledged: a \div 512, and the address
  mask,     \* the block whose last word the decode key is
  plain,    \* 1 if the packet in buf was decoded with its key
  tbuf,     \* the block whose second word is held back
  round,    \* rounds of CheckCode left
  stray,    \* answers still under way from earlier rounds
  target,   \* external: per address, the block stored there
  seal,     \* external: the block whose second word is in place
  missed    \* history: <<image, address>> of each packet that was credited
            \* with another packet's answer while the board did not hold it

vars == <<pc, image, j, a, mask, plain, tbuf, round, stray, target, seal, missed>>
packet == <<mask, plain, tbuf>>
board == <<target, seal>>

\* A block of an image; block 0 is decoded with the key set at power-up.
Block(n) == <<image, n>>
PowerUpKey == <<0, 0>>
NoBlock == <<0, 0>>
KeyOf(n) == IF n = 0 THEN PowerUpKey ELSE Block(n - 1)
IsData == a <= Last

Blocks == (0 .. MaxImages) \X (0 .. Last + 1)
Stored == [block : Blocks, plain : {0, 1}]

(* Plausible mistakes in the code, each in the place of the definition that  *)
(* its comment names.                                                      *)

\* NextPacket: the loop runs once more.
NextPacketLonger == j' = j + 1 /\ pc' = IF j' > Last + 2 THEN "run" ELSE "load"
\* RememberKey: the key of the first packet is not taken.
RememberKeyLate == mask' = IF a = 0 THEN mask ELSE Block(j)
\* Advance: the position moves on behind the last packet too.
AdvanceAlways == a' = a + 1

Init ==
  /\ pc = "rest" /\ image = 0 /\ j = 0 /\ a = 0 /\ round = 0 /\ stray = 0
  /\ mask = PowerUpKey /\ plain = 0 /\ tbuf = NoBlock
  /\ target = [n \in 0 .. Last |-> [block |-> NoBlock, plain |-> 0]]
  /\ seal = NoBlock /\ missed = {}

\* The requests around an image (version, start) leave late answers too, and
\* may swallow some.
StrayAnswersMove == stray' \in 0 .. MaxStray

\* A new userfwpro: its position is reset, the key (a global) is not.
BeginImage ==
  /\ pc = "rest" /\ image < MaxImages
  /\ image' = image + 1
  /\ pc' = "load" /\ j' = 0 /\ a' = 0 /\ tbuf' = NoBlock
  /\ StrayAnswersMove
  /\ UNCHANGED <<mask, plain, round, board, missed>>

\* The loop goes on to the next packet, sent or not.
NextPacket ==
  /\ j' = j + 1
  /\ pc' = IF j' > Last + 1 THEN "run" ELSE "load"

\* The flash cannot be read: the packet is passed over.  (The driver refuses
\* only addresses beyond the chip; the loop does not rely on that.)
ReadFails ==
  /\ pc = "load"
  /\ NextPacket
  /\ UNCHANGED <<image, a, round, stray, packet, board, missed>>

\* The key is the last word before it was decoded.
RememberKey == mask' = Block(j)

\* Packet j is read and decoded; the key moves on whatever becomes of it.
LoadPacket ==
  /\ pc = "load"
  /\ plain' = IF mask = KeyOf(j) THEN 1 ELSE 0
  /\ RememberKey
  /\ tbuf' = IF a = 0 THEN Block(j) ELSE tbuf
  /\ pc' = "exchange" /\ round' = Rounds
  /\ UNCHANGED <<image, j, a, stray, board, missed>>

\* The boot loader stores the packet: block j at address a, or the four bytes.
Deliver ==
  IF IsData
    THEN /\ target' = [target EXCEPT ![a] = [block |-> Block(j), plain |-> plain]]
         /\ seal' = IF a = 0 THEN NoBlock ELSE seal
    ELSE /\ seal' = tbuf
         /\ UNCHANGED target

\* CheckCode returns an answer without an error: the position moves on.
Advance == a' = IF IsData THEN a + 1 ELSE a
Acknowledged == Advance /\ NextPacket

\* A round in which the board's own answer comes in time.  An answer that
\* reports a write error ends the packet without another round.
AnsweredRound ==
  /\ pc = "exchange"
  /\ \/ Deliver /\ Acknowledged
     \/ (Deliver \/ UNCHANGED board) /\ NextPacket /\ UNCHANGED a
  /\ UNCHANGED <<image, packet, round, stray, missed>>

\* A round without an answer: the packet or its answer is lost, or is late.
UnansweredRound ==
  /\ pc = "exchange"
  /\ \/ UNCHANGED <<board, stray>>
     \/ Deliver /\ UNCHANGED stray
     \/ stray < MaxStray /\ Deliver /\ stray' = stray + 1
  /\ round' = round - 1
  /\ IF round' = 0 THEN NextPacket ELSE UNCHANGED <<j, pc>>
  /\ UNCHANGED <<image, a, packet, missed>>

\* The packet's place in the image, if the board does not hold the packet.
Uncovered ==
  IF IsData /\ target'[a].block # Block(j) THEN {<<image, a>>} ELSE {}

\* An answer from an earlier round is taken for this packet's: answers carry
\* nothing that tells them apart.  The packet's own answer is dropped or late.
StrayAnswer ==
  /\ pc = "exchange" /\ stray > 0
  /\ \/ (Deliver \/ UNCHANGED board) /\ stray' = stray - 1
     \/ Deliver /\ UNCHANGED stray
  /\ \/ Acknowledged /\ missed' = missed \union Uncovered
     \/ NextPacket /\ UNCHANGED <<a, missed>>
  /\ UNCHANGED <<image, packet, round>>

\* runUserFirmware, whatever the answer; the thread then waits for an image.
Run ==
  /\ pc = "run"
  /\ pc' = "rest"
  /\ StrayAnswersMove
  /\ UNCHANGED <<image, j, a, round, packet, board, missed>>

Next == \/ BeginImage \/ ReadFails \/ LoadPacket \/ AnsweredRound
        \/ UnansweredRound \/ StrayAnswer \/ Run

Spec == Init /\ [][Next]_vars

-----------------------------------------------------------------------------
\* Every variable stays in its range; the position never runs past the loop.
TypeOK ==
  /\ pc \in {"rest", "load", "exchange", "run"}
  /\ image \in 0 .. MaxImages /\ j \in 0 .. Last + 2 /\ a \in 0 .. Last + 1
  /\ mask \in Blocks /\ plain \in {0, 1} /\ tbuf \in Blocks
  /\ round \in 0 .. Rounds /\ stray \in 0 .. MaxStray
  /\ target \in [0 .. Last -> Stored] /\ seal \in Blocks
  /\ missed \subseteq Blocks

\* Address n need not hold block n of image i if an answer that outlived its
\* round was credited to that packet, or to the first packet of the later
\* image that the address holds a block of.
Excused(i, n) ==
  \/ <<i, n>> \in missed
  \/ target[n].block[1] > i /\ <<target[n].block[1], 0>> \in missed

\* The four bytes that make an image startable are in place only under the
\* whole image they come from: every packet that was passed over, refused or
\* not answered leaves the loop one turn short of sending them, and a new
\* image's first packet takes the old four bytes away.  The only holes are
\* those of answers that came after their 500 ms.
SealedMeansWhole ==
  seal # NoBlock =>
    /\ seal[2] = 0
    /\ \A n \in 0 .. Last : target[n].block = <<seal[1], n>> \/ Excused(seal[1], n)

\* What a startable image has in its place is decoded with its own key, late
\* answers or not; but perhaps not the first word of an image that is not the
\* first since power-up: its key starts where the image before it ended.
SealedMeansDecoded ==
  seal # NoBlock =>
    \A n \in 0 .. Last :
      target[n].block = <<seal[1], n>> /\ (n > 0 \/ seal[1] = 1) => target[n].plain = 1

\* Even when answers come late and are credited to the wrong packet, a board
\* that can start holds no block of that image at another block's address.
SealedMeansAligned ==
  seal # NoBlock =>
    \A n \in 0 .. Last : target[n].block[1] = seal[1] => target[n].block[2] = n
=============================================================================
