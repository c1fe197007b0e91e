------------------------- MODULE FirmwareSend_proofs -------------------------
(***************************************************************************)
(* For images of any length, any number of rounds and of images: what the  *)
(* boot loader holds when the four bytes held back are in place.           *)
(***************************************************************************)
EXTENDS FirmwareSend, TLAPS

(***************************************************************************)
(* The position never passes the loop's packet, so the two are equal only  *)
(* as long as every packet so far was acknowledged.                        *)
(***************************************************************************)
Position ==
  /\ a <= j
  /\ pc \in {"load", "exchange"} => j <= Last + 1 /\ image # 0
  /\ pc = "exchange" => round # 0

\* The bytes held back are those of packet 0 if packet 0 was acknowledged.
HeldBack ==
  /\ a > 0 \/ pc = "exchange" => tbuf[1] = image
  /\ a = j /\ (a > 0 \/ pc = "exchange") => tbuf = <<image, 0>>

PositionInv == TypeOK /\ Position /\ HeldBack

\* Every packet that is taken up keeps its place in the loop and the board.
LEMMA PositionInvInductive == PositionInv /\ [Next]_vars => PositionInv'
<1> SUFFICES ASSUME PositionInv, [Next]_vars PROVE PositionInv'
  OBVIOUS
<1> USE SendAssumption DEF PositionInv, TypeOK, Position, HeldBack, Blocks, Block,
        IsData, packet, board
<1>1. CASE BeginImage
  BY <1>1 DEF BeginImage, StrayAnswersMove, NoBlock
<1>2. CASE ReadFails
  BY <1>2 DEF ReadFails, NextPacket
<1>3. CASE LoadPacket
  BY <1>3 DEF LoadPacket, RememberKey
<1>4. ASSUME pc = "exchange"
      PROVE  Block(j) \in Blocks
  BY <1>4
<1>5. ASSUME pc = "exchange", Deliver \/ UNCHANGED board
      PROVE  target' \in [0 .. Last -> Stored] /\ seal' \in Blocks
  <2>1. CASE UNCHANGED board
    BY <2>1
  <2>2. CASE Deliver /\ IsData
    <3>1. [block |-> Block(j), plain |-> plain] \in Stored
      BY <1>4, <1>5 DEF Stored
    <3>2. NoBlock \in Blocks
      BY DEF NoBlock
    <3> HIDE DEF Blocks, Block, NoBlock
    <3> QED
      BY <2>2, <3>1, <3>2 DEF Deliver
  <2>3. CASE Deliver /\ ~IsData
    BY <2>3 DEF Deliver
  <2> QED
    BY <1>5, <2>1, <2>2, <2>3
<1>6. ASSUME pc = "exchange", NextPacket, Acknowledged \/ UNCHANGED a,
             UNCHANGED <<image, packet, round>>, stray' \in 0 .. MaxStray,
             missed' \subseteq Blocks, Deliver \/ UNCHANGED board
      PROVE  PositionInv'
  <2>1. a' \in 0 .. Last + 1 /\ a' <= j'
    BY <1>6 DEF Acknowledged, Advance, NextPacket
  <2>2. tbuf'[1] = image' /\ (a' = j' => tbuf' = <<image', 0>>)
    BY <1>6 DEF Acknowledged, Advance, NextPacket
  <2>3. pc' \in {"load", "run"} /\ j' \in 0 .. Last + 2 /\ (pc' = "load" => j' <= Last + 1)
    BY <1>6 DEF NextPacket
  <2>4. target' \in [0 .. Last -> Stored] /\ seal' \in Blocks
    BY <1>5, <1>6
  <2> QED
    BY <1>6, <2>1, <2>2, <2>3, <2>4
<1>7. CASE AnsweredRound
  <2>1. /\ pc = "exchange" /\ NextPacket /\ (Acknowledged \/ UNCHANGED a)
        /\ UNCHANGED <<image, packet, round>> /\ stray' \in 0 .. MaxStray
        /\ missed' \subseteq Blocks /\ (Deliver \/ UNCHANGED board)
    BY <1>7 DEF AnsweredRound, Acknowledged
  <2> HIDE DEF PositionInv
  <2> QED
    BY <1>6, <2>1
<1>8. CASE UnansweredRound
  <2>1. stray' \in 0 .. MaxStray /\ UNCHANGED missed
        /\ (Deliver \/ UNCHANGED board)
    BY <1>8 DEF UnansweredRound
  <2>2. target' \in [0 .. Last -> Stored] /\ seal' \in Blocks
    BY <1>5, <1>8, <2>1 DEF UnansweredRound
  <2>3. CASE round' = 0
    <3>1. /\ pc = "exchange" /\ NextPacket /\ round' = 0
          /\ UNCHANGED <<image, a, packet>>
      BY <1>8, <2>3 DEF UnansweredRound
    <3>2. j' = j + 1 /\ pc' \in {"load", "run"} /\ (pc' = "load" => j' <= Last + 1)
      BY <3>1 DEF NextPacket
    <3> QED BY <2>1, <2>2, <3>1, <3>2
  <2>4. CASE round' # 0
    <3>1. pc = "exchange" /\ round' = round - 1 /\ UNCHANGED <<image, a, packet, j, pc>>
      BY <1>8, <2>4 DEF UnansweredRound
    <3>2. round \in 1 .. Rounds
      BY <3>1
    <3>3. \A r \in 1 .. Rounds : r - 1 \in 0 .. Rounds
      OBVIOUS
    <3>4. round' \in 0 .. Rounds /\ round' >= 1
      BY <2>4, <3>1, <3>2, <3>3
    <3> QED BY <2>1, <2>2, <3>1, <3>4
  <2> QED
    BY <2>3, <2>4
<1>9. CASE StrayAnswer
  <2>1. /\ pc = "exchange" /\ NextPacket /\ (Acknowledged \/ UNCHANGED a)
        /\ UNCHANGED <<image, packet, round>> /\ stray' \in 0 .. MaxStray
        /\ missed' \subseteq Blocks /\ (Deliver \/ UNCHANGED board)
    BY <1>9 DEF StrayAnswer, Acknowledged, Uncovered
  <2> HIDE DEF PositionInv
  <2> QED
    BY <1>6, <2>1
<1>10. CASE Run
  BY <1>10 DEF Run, StrayAnswersMove
<1>11. CASE UNCHANGED vars
  BY <1>11 DEF vars
<1> QED
  BY <1>1, <1>2, <1>3, <1>7, <1>8, <1>9, <1>10, <1>11 DEF Next

\* The position, the held-back bytes and all ranges hold of every behaviour.
LEMMA PositionInvAlways == Spec => []PositionInv
<1>1. Init => PositionInv
  BY SendAssumption DEF Init, PositionInv, TypeOK, Position, HeldBack, Blocks, Stored,
     PowerUpKey, NoBlock
<1>2. PositionInv /\ [Next]_vars => PositionInv'
  BY PositionInvInductive
<1> QED
  BY <1>1, <1>2, PTL DEF Spec

\* TypeOK holds of every behaviour of the sender.
THEOREM SendTypeCorrect == Spec => []TypeOK
<1>1. PositionInv => TypeOK
  BY DEF PositionInv
<1> QED
  BY <1>1, PositionInvAlways, PTL

-----------------------------------------------------------------------------
(***************************************************************************)
(* Where the blocks are.  An answer that comes late may hide that a block  *)
(* is missing, but the position still lags behind the loop once a packet   *)
(* is passed over, and the four bytes are out of reach from then on.       *)
(***************************************************************************)
Aligned(i) == \A n \in 0 .. Last : target[n].block[1] = i => target[n].block[2] = n

AlignedInv ==
  /\ \A n \in 0 .. Last : target[n].block[1] <= image
  /\ image # 0 /\ a = j => Aligned(image)
  /\ seal # NoBlock =>
       Aligned(seal[1]) /\ seal[1] <= image /\ (seal[1] = image => a \in {0, Last + 1})
  /\ seal # NoBlock /\ seal[1] = image /\ pc \in {"load", "exchange"} => a = Last + 1

\* A packet goes to the position of its number, or the four bytes stay back.
LEMMA AlignedInvInductive == PositionInv /\ AlignedInv /\ [Next]_vars => AlignedInv'
<1> SUFFICES ASSUME PositionInv, AlignedInv, [Next]_vars PROVE AlignedInv'
  OBVIOUS
<1> USE SendAssumption DEF PositionInv, TypeOK, Position, AlignedInv, Aligned, packet, board
<1>0. /\ image \in Nat /\ seal[1] \in Nat
      /\ \A n \in 0 .. Last : target[n].block[1] \in Nat /\ target[n].block[2] \in Nat
  BY DEF Blocks, Stored
<1>1. CASE BeginImage
  BY <1>0, <1>1 DEF BeginImage
<1>2. CASE ReadFails
  BY <1>0, <1>2 DEF ReadFails, NextPacket
<1>3. CASE LoadPacket
  BY <1>0, <1>3 DEF LoadPacket, RememberKey
<1>4. ASSUME pc = "exchange", Deliver \/ UNCHANGED board, UNCHANGED image,
             \/ UNCHANGED <<j, pc, a>>
             \/ NextPacket /\ (Acknowledged \/ UNCHANGED a)
      PROVE  AlignedInv'
  <2>1. \/ UNCHANGED <<j, pc, a>>
        \/ j' = j + 1 /\ pc' \in {"load", "run"} /\ (a' = a \/ (a <= Last /\ a' = a + 1))
    BY <1>4 DEF NextPacket, Acknowledged, Advance, IsData
  <2>2. CASE UNCHANGED board
    BY <1>0, <1>4, <2>1, <2>2
  <2>3. CASE Deliver /\ IsData
    <3>1. a \in 0 .. Last /\ target' = [target EXCEPT ![a] = [block |-> Block(j), plain |-> plain]]
      BY <2>3 DEF Deliver, IsData
    <3>2. target'[a].block[1] = image /\ target'[a].block[2] = j
      BY <3>1 DEF Block
    <3>3. \A n \in 0 .. Last : n # a => target'[n] = target[n]
      BY <3>1
    <3>4. seal' = NoBlock \/ (seal' = seal /\ a > 0)
      BY <2>3 DEF Deliver
    <3>5. \A n \in 0 .. Last : target'[n].block[1] <= image
      BY <1>0, <3>2, <3>3
    <3>6. a' = j' => Aligned(image)'
      BY <1>4, <2>1, <3>1, <3>2, <3>3
    <3>7. CASE seal' = NoBlock
      BY <1>4, <3>5, <3>6, <3>7
    <3>8. CASE seal # NoBlock /\ seal' = seal
      <4>1. seal[1] < image
        BY <1>0, <1>4, <3>1, <3>8
      <4>2. Aligned(seal[1])'
        BY <3>2, <3>3, <3>8, <4>1
      <4> QED
        BY <1>0, <1>4, <3>5, <3>6, <3>8, <4>1, <4>2
    <3> QED
      BY <3>4, <3>7, <3>8
  <2>4. CASE Deliver /\ ~IsData
    <3>1. /\ a = Last + 1 /\ j = Last + 1 /\ a' = a
          /\ tbuf[1] = image /\ UNCHANGED target /\ seal' = tbuf /\ image # 0
      BY <1>4, <2>1, <2>4 DEF Deliver, IsData, HeldBack
    <3>2. Aligned(image)' /\ Aligned(seal[1])' /\ seal'[1] = image'
      BY <1>4, <3>1
    <3>3. \A n \in 0 .. Last : target'[n].block[1] <= image'
      BY <1>4, <3>1
    <3> HIDE DEF Aligned
    <3> QED
      BY <1>0, <1>4, <3>1, <3>2, <3>3
  <2> QED
    BY <1>4, <2>2, <2>3, <2>4
<1>5. CASE AnsweredRound
  BY <1>4, <1>5 DEF AnsweredRound, Acknowledged, Advance
<1>6. CASE UnansweredRound
  BY <1>4, <1>6 DEF UnansweredRound
<1>7. CASE StrayAnswer
  BY <1>4, <1>7 DEF StrayAnswer, Acknowledged, Advance
<1>8. CASE Run
  BY <1>0, <1>8 DEF Run
<1>9. CASE UNCHANGED vars
  BY <1>9 DEF vars
<1> QED
  BY <1>1, <1>2, <1>3, <1>5, <1>6, <1>7, <1>8, <1>9 DEF Next

LEMMA AlignedInvAlways == Spec => []AlignedInv
<1>1. Init => AlignedInv
  BY SendAssumption DEF Init, AlignedInv, Aligned, NoBlock
<1>2. PositionInv /\ AlignedInv /\ [Next]_vars => AlignedInv'
  BY AlignedInvInductive
<1> QED
  BY <1>1, <1>2, PositionInvAlways, PTL DEF Spec

\* Late answers or not: no startable image has a block at another's address.
THEOREM OnlyAlignedImagesStart == Spec => []SealedMeansAligned
<1>1. AlignedInv => SealedMeansAligned
  BY DEF AlignedInv, Aligned, SealedMeansAligned
<1> QED
  BY <1>1, AlignedInvAlways, PTL

-----------------------------------------------------------------------------
(***************************************************************************)
(* What the blocks are.  A position equal to the loop's packet means that  *)
(* every block before it is in place or was credited with another packet's *)
(* answer.  The four bytes of an older image stay only if the first packet *)
(* of the image at hand was; that packet would have taken them away.       *)
(***************************************************************************)
Placed ==
  a = j => \A n \in 0 .. Last :
             n < a => target[n].block = <<image, n>> \/ <<image, n>> \in missed

Sealed ==
  seal # NoBlock =>
    /\ seal[2] = 0
    /\ \A n \in 0 .. Last : target[n].block = <<seal[1], n>> \/ Excused(seal[1], n)
    /\ seal[1] < image => target[0].block[1] < image
    /\ seal[1] < image /\ a > 0 => <<image, 0>> \in missed

WholeInv == Placed /\ Sealed

BoardInv == PositionInv /\ AlignedInv

\* An exchange leaves the four bytes over a whole image, or takes them away.
LEMMA ExchangeKeepsWhole ==
  ASSUME BoardInv, WholeInv, pc = "exchange", Deliver \/ UNCHANGED board,
         UNCHANGED image, missed \subseteq missed',
         \/ UNCHANGED <<j, a, missed>>
         \/ j' = j + 1 /\ UNCHANGED <<a, missed>>
         \/ j' = j + 1 /\ Advance /\ Deliver
         \/ j' = j + 1 /\ Advance /\ missed' = missed \union Uncovered
  PROVE  WholeInv'
<1> USE SendAssumption DEF BoardInv, PositionInv, TypeOK, Position, AlignedInv, WholeInv, board
<1>0. /\ image \in Nat /\ seal[1] \in Nat
      /\ \A n \in 0 .. Last : target[n].block[1] \in Nat
  BY DEF Blocks, Stored
<1>1. IsData => a \in 0 .. Last /\ (Deliver => target' = [target EXCEPT ![a] = [block |-> <<image, j>>, plain |-> plain]])
  BY DEF IsData, Deliver, Block
<1>2. ASSUME NEW n \in 0 .. Last
      PROVE  \/ target'[n] = target[n]
             \/ IsData /\ Deliver /\ n = a /\ target'[n].block = <<image, j>>
  BY <1>1 DEF IsData, Deliver
<1>3. Placed'
  <2>1. ASSUME a' = j', NEW n \in 0 .. Last, n < a'
        PROVE  target'[n].block = <<image, n>> \/ <<image, n>> \in missed'
    <3>1. a = j /\ (n < a \/ n = a)
      BY <1>0, <2>1 DEF Advance, IsData
    <3>2. CASE n < a
      BY <1>2, <2>1, <3>1, <3>2 DEF Placed
    <3>3. CASE n = a
      <4>1. IsData /\ a' = a + 1 /\ j' = j + 1
        BY <2>1, <3>1, <3>3 DEF Advance, IsData
      <4>2. Deliver \/ missed' = missed \union Uncovered
        BY <4>1
      <4>3. CASE Deliver
        BY <1>1, <3>1, <3>3, <4>1, <4>3
      <4>4. CASE missed' = missed \union Uncovered
        BY <3>1, <3>3, <4>1, <4>4 DEF Uncovered, Block
      <4> QED
        BY <4>2, <4>3, <4>4
    <3> QED
      BY <3>1, <3>2, <3>3
  <2> QED
    BY <2>1 DEF Placed
<1>4. CASE UNCHANGED board
  <2>1. ASSUME seal # NoBlock, seal[1] < image, a' > 0
        PROVE  <<image, 0>> \in missed'
    <3>1. CASE a > 0
      BY <2>1, <3>1 DEF Sealed
    <3>2. CASE a = 0
      <4>1. IsData /\ Advance
        BY <2>1, <3>2 DEF IsData
      <4>2. target'[0].block # <<image, j>>
        BY <1>0, <1>4, <2>1 DEF Sealed
      <4>3. ~Deliver
        BY <1>1, <1>4, <2>1, <3>2, <4>1, <4>2
      <4> QED
        BY <2>1, <3>2, <4>1, <4>2, <4>3 DEF Uncovered, Block
    <3> QED
      BY <1>0, <3>1, <3>2
  <2>2. \A i \in Nat, n \in 0 .. Last : Excused(i, n) => Excused(i, n)'
    BY <1>4 DEF Excused
  <2> HIDE DEF Excused
  <2>3. Sealed'
    BY <1>0, <1>4, <2>1, <2>2 DEF Sealed
  <2> QED
    BY <1>3, <2>3
<1>5. CASE Deliver /\ IsData
  <2>1. seal' = NoBlock \/ (seal' = seal /\ a > 0)
    BY <1>1, <1>5 DEF Deliver
  <2>2. CASE seal' = NoBlock
    BY <1>3, <2>2 DEF Sealed, NoBlock
  <2>3. CASE seal # NoBlock /\ seal' = seal /\ a > 0
    <3>1. seal[1] < image /\ <<image, 0>> \in missed
      BY <1>0, <1>1, <1>5, <2>3 DEF Sealed
    <3>2. ASSUME NEW n \in 0 .. Last
          PROVE  target'[n].block = <<seal[1], n>> \/ Excused(seal[1], n)'
      <4>1. CASE target'[n] = target[n]
        BY <2>3, <4>1 DEF Sealed, Excused
      <4>2. CASE target'[n].block = <<image, j>>
        BY <2>3, <3>1, <4>2 DEF Excused
      <4> QED
        BY <1>2, <4>1, <4>2
    <3>3. target'[0] = target[0]
      BY <1>1, <1>2, <2>3
    <3> HIDE DEF Excused
    <3>4. Sealed'
      BY <1>0, <2>3, <3>1, <3>2, <3>3 DEF Sealed
    <3> QED
      BY <1>3, <3>4
  <2> QED
    BY <2>1, <2>2, <2>3
<1>6. CASE Deliver /\ ~IsData
  <2>1. a = Last + 1 /\ j = Last + 1 /\ tbuf = <<image, 0>> /\ UNCHANGED target /\ seal' = tbuf
    BY <1>6 DEF Deliver, IsData, HeldBack
  <2>2. \A n \in 0 .. Last : target'[n].block = <<image, n>> \/ <<image, n>> \in missed'
    BY <2>1 DEF Placed
  <2>3. seal'[1] = image' /\ seal'[2] = 0
    BY <2>1
  <2>4. Sealed'
    BY <1>0, <2>2, <2>3 DEF Sealed, Excused
  <2> QED
    BY <1>3, <2>4
<1> QED
  BY <1>4, <1>5, <1>6

\* A hole in a startable image was credited to its packet, at every step.
LEMMA WholeInvInductive == BoardInv /\ WholeInv /\ [Next]_vars => WholeInv'
<1> SUFFICES ASSUME BoardInv, WholeInv, [Next]_vars PROVE WholeInv'
  OBVIOUS
<1>1. ASSUME UNCHANGED <<image, target, seal, missed>>,
             a' = a /\ (j' = j \/ j' = j + 1)
      PROVE  WholeInv'
  <2>1. Sealed'
    BY <1>1 DEF WholeInv, Sealed, Excused
  <2>2. Placed'
    BY <1>1, SendAssumption DEF BoardInv, PositionInv, TypeOK, Position, WholeInv, Placed
  <2> QED
    BY <2>1, <2>2 DEF WholeInv
<1>2. CASE BeginImage
  <2>1. image \in Nat /\ seal[1] \in Nat /\ target[0].block[1] <= image
        /\ target[0].block[1] \in Nat
    BY SendAssumption DEF BoardInv, PositionInv, TypeOK, AlignedInv, Blocks, Stored
  <2>2. a' = 0 /\ image' = image + 1 /\ UNCHANGED <<target, seal, missed>>
    BY <1>2 DEF BeginImage, board
  <2>3. Sealed'
    BY <2>1, <2>2 DEF WholeInv, Sealed, Excused
  <2>4. Placed'
    BY <2>2 DEF Placed
  <2> QED
    BY <2>3, <2>4 DEF WholeInv
<1>3. CASE ReadFails
  BY <1>1, <1>3 DEF ReadFails, NextPacket, board
<1>4. CASE LoadPacket
  BY <1>1, <1>4 DEF LoadPacket, board
<1>5. CASE AnsweredRound
  BY <1>5, ExchangeKeepsWhole DEF AnsweredRound, Acknowledged, NextPacket
<1>6. CASE UnansweredRound
  BY <1>6, ExchangeKeepsWhole DEF UnansweredRound, NextPacket
<1>7. CASE StrayAnswer
  BY <1>7, ExchangeKeepsWhole DEF StrayAnswer, Acknowledged, NextPacket
<1>8. CASE Run
  BY <1>1, <1>8 DEF Run, board
<1>9. CASE UNCHANGED vars
  BY <1>1, <1>9 DEF vars
<1> QED
  BY <1>2, <1>3, <1>4, <1>5, <1>6, <1>7, <1>8, <1>9 DEF Next

\* Of every behaviour: an image becomes startable only whole, but for packets
\* that another packet's answer was credited to.
THEOREM OnlyWholeImagesStart == Spec => []SealedMeansWhole
<1>1. Init => WholeInv
  BY SendAssumption DEF Init, WholeInv, Placed, Sealed
<1>2. BoardInv /\ WholeInv /\ [Next]_vars => WholeInv'
  BY WholeInvInductive
<1>3. WholeInv => SealedMeansWhole
  BY DEF WholeInv, Sealed, SealedMeansWhole
<1>4. PositionInv /\ AlignedInv => BoardInv
  BY DEF BoardInv
<1> QED
  BY <1>1, <1>2, <1>3, <1>4, PositionInvAlways, AlignedInvAlways, PTL DEF Spec

-----------------------------------------------------------------------------
(***************************************************************************)
(* How the blocks were decoded.  The key moves on with every packet that   *)
(* is read, so at a position equal to the loop's packet it is the word in  *)
(* front of that packet; only the first packet of a later image finds the  *)
(* key the image before it left.                                           *)
(***************************************************************************)
KeyInStep ==
  /\ image = 0 => mask = PowerUpKey /\ pc = "rest"
  /\ pc = "load" /\ a = j /\ j > 0 => mask = <<image, j - 1>>
  /\ pc = "load" /\ j = 0 /\ image = 1 => mask = PowerUpKey
  /\ pc = "exchange" => mask = <<image, j>>
  /\ pc = "exchange" /\ a = j /\ (j > 0 \/ image = 1) => plain = 1

Decoded(i) ==
  \A n \in 0 .. Last :
    target[n].block = <<i, n>> /\ (n > 0 \/ i = 1) => target[n].plain = 1

DecodedInv ==
  /\ KeyInStep
  /\ image # 0 => Decoded(image)
  /\ seal # NoBlock => Decoded(seal[1])

\* A block that is stored at its own address was decoded with its own key.
LEMMA DecodedInvInductive == BoardInv /\ DecodedInv /\ [Next]_vars => DecodedInv'
<1> SUFFICES ASSUME BoardInv, DecodedInv, [Next]_vars PROVE DecodedInv'
  OBVIOUS
<1> USE SendAssumption DEF BoardInv, PositionInv, TypeOK, Position, AlignedInv,
        DecodedInv, packet, board
<1>0. /\ image \in Nat /\ seal[1] \in Nat
      /\ \A n \in 0 .. Last : target[n].block[1] \in Nat
  BY DEF Blocks, Stored
<1>1. CASE BeginImage
  <2>1. KeyInStep'
    BY <1>1 DEF BeginImage, KeyInStep, PowerUpKey
  <2>2. \A n \in 0 .. Last : target[n].block[1] # image + 1
    BY <1>0
  <2>3. Decoded(image)'
    BY <1>1, <2>2 DEF BeginImage, Decoded
  <2> QED
    BY <1>1, <2>1, <2>3 DEF BeginImage, Decoded
<1>2. CASE ReadFails
  BY <1>2 DEF ReadFails, NextPacket, KeyInStep, Decoded
<1>3. CASE LoadPacket
  <2>1. a = j /\ (j > 0 \/ image = 1) => mask = KeyOf(j)
    BY <1>3 DEF LoadPacket, RememberKey, KeyInStep, KeyOf, Block
  <2>2. KeyInStep'
    BY <1>3, <2>1 DEF LoadPacket, RememberKey, KeyInStep, Block
  <2> QED
    BY <1>3, <2>2 DEF LoadPacket, Decoded
<1>4. ASSUME pc = "exchange", Deliver \/ UNCHANGED board, UNCHANGED <<image, packet>>
      PROVE  (image # 0 => Decoded(image)') /\ (seal # NoBlock => Decoded(seal[1]))'
  <2>1. CASE UNCHANGED board
    BY <1>4, <2>1 DEF Decoded
  <2>2. CASE Deliver /\ IsData
    <3>1. a \in 0 .. Last /\ target' = [target EXCEPT ![a] = [block |-> <<image, j>>, plain |-> plain]]
      BY <2>2 DEF Deliver, IsData, Block
    <3>2. target'[a].block = <<image, j>> /\ target'[a].plain = plain
      BY <3>1
    <3>3. \A n \in 0 .. Last : n # a => target'[n] = target[n]
      BY <3>1
    <3>4. image # 0 => Decoded(image)'
      BY <1>4, <3>2, <3>3 DEF Decoded, KeyInStep
    <3>5. seal' = NoBlock \/ seal' = seal
      BY <2>2 DEF Deliver
    <3>6. (seal # NoBlock => Decoded(seal[1]))'
      BY <1>0, <1>4, <3>2, <3>3, <3>5 DEF Decoded, KeyInStep
    <3> QED
      BY <3>4, <3>6
  <2>3. CASE Deliver /\ ~IsData
    <3>1. tbuf[1] = image /\ UNCHANGED target /\ seal' = tbuf /\ image # 0
      BY <1>4, <2>3 DEF Deliver, IsData, HeldBack
    <3> QED
      BY <1>4, <3>1 DEF Decoded
  <2> QED
    BY <1>4, <2>1, <2>2, <2>3
<1>5. ASSUME pc = "exchange", UNCHANGED <<image, packet>>,
             \/ UNCHANGED <<j, pc, a>>
             \/ NextPacket /\ (Acknowledged \/ UNCHANGED a)
      PROVE  KeyInStep'
  BY <1>5 DEF KeyInStep, NextPacket, Acknowledged, Advance, IsData
<1>6. CASE AnsweredRound
  BY <1>4, <1>5, <1>6 DEF AnsweredRound, Acknowledged
<1>7. CASE UnansweredRound
  BY <1>4, <1>5, <1>7 DEF UnansweredRound
<1>8. CASE StrayAnswer
  BY <1>4, <1>5, <1>8 DEF StrayAnswer, Acknowledged
<1>9. CASE Run
  BY <1>9 DEF Run, KeyInStep, Decoded
<1>10. CASE UNCHANGED vars
  BY <1>10 DEF vars, KeyInStep, Decoded
<1> QED
  BY <1>1, <1>2, <1>3, <1>6, <1>7, <1>8, <1>9, <1>10 DEF Next

\* Of every behaviour: what a startable image has in its place is decoded, but
\* for the first packet of images that are not the first since power-up.
THEOREM OnlyDecodedImagesStart == Spec => []SealedMeansDecoded
<1>1. Init => DecodedInv
  BY SendAssumption DEF Init, DecodedInv, KeyInStep, NoBlock, PowerUpKey
<1>2. BoardInv /\ DecodedInv /\ [Next]_vars => DecodedInv'
  BY DecodedInvInductive
<1>3. DecodedInv => SealedMeansDecoded
  BY DEF DecodedInv, Decoded, SealedMeansDecoded
<1>4. PositionInv /\ AlignedInv => BoardInv
  BY DEF BoardInv
<1> QED
  BY <1>1, <1>2, <1>3, <1>4, PositionInvAlways, AlignedInvAlways, PTL DEF Spec
=============================================================================
