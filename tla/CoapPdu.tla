------------------------------ MODULE CoapPdu ------------------------------
(***************************************************************************)
(* The options of a CoAP message (src/cantcoap): CoapPDU::addOption keeps  *)
(* them sorted in memory whatever the order they are added in, each header *)
(* holding the difference to the number before it, and CoapPDU::validate   *)
(* takes a received message apart again.  One message is built, given a    *)
(* payload, and read by a receiver, cut short or whole: recvfrom cuts what *)
(* does not fit the caller's buffer.  The bytes are those behind the fixed *)
(* header and the token.  What options a message has is left to its user;  *)
(* remoteupdate.cpp adds them before the payload and sets that once.       *)
(***************************************************************************)
EXTENDS Integers, Sequences, FiniteSets

CONSTANTS Numbers,     \* option numbers in use
          Lengths,     \* lengths of option values
          Bytes,       \* the last byte of a value
          Payloads,    \* lengths of payloads
          MaxAdds,     \* bound: options added to one message
          MaxFailures  \* bound: allocations of it that fail

Word == 65536  \* what uint16_t counts to

ASSUME PduAssumption ==
  /\ Numbers \subseteq 0 .. Word - 1 /\ Lengths \subseteq 0 .. Word - 1
  /\ Bytes \subseteq 0 .. 255 /\ Payloads \subseteq Nat
  /\ MaxAdds \in Nat /\ MaxFailures \in Nat

BLOCK2 == 23
Marker == 255
MoreBit == 8

VARIABLES
  pdu,         \* _pdu behind the token, up to _pduLength
  numOptions,  \* _numOptions
  maxAdded,    \* _maxAddedOptionNumber
  payload,     \* the bytes from _payloadPointer on, _payloadLength of them
  received,    \* what the receiver has made of the message
  added,       \* history: the options whose addOption returned 0, in turn
  failures,    \* history: how many allocations failed
  spoiled      \* history: one of them was for an option at the end

message == <<pdu, numOptions, maxAdded, payload>>
vars == <<message, received, added, failures, spoiled>>

\* The other bytes differ from the last one.
Value(byte, length) == [i \in 1 .. length |-> IF i = length THEN byte ELSE 255 - byte]
Options == [number : Numbers, value : {Value(b, n) : b \in Bytes, n \in Lengths}]
Unread == [verdict |-> "none"]

Init ==
  /\ pdu = <<>> /\ numOptions = 0 /\ maxAdded = 0 /\ payload = <<>>
  /\ received = Unread
  /\ added = <<>> /\ failures = 0 /\ spoiled = FALSE

(***************************************************************************)
(* Numbers in headers.  htons swaps the bytes on this processor and the    *)
(* code then puts the upper byte of the result first, so the lower byte of *)
(* the number comes first; the reading side swaps in the same way.         *)
(***************************************************************************)
ExtraBytes(n) == IF n < 13 THEN 0 ELSE IF n < 269 THEN 1 ELSE 2
Nibble(n) == IF n < 13 THEN n ELSE 12 + ExtraBytes(n)
Extension(n) ==
  CASE ExtraBytes(n) = 0 -> <<>>
    [] ExtraBytes(n) = 1 -> <<n - 13>>
    [] ExtraBytes(n) = 2 -> <<(n - 269) % 256, (n - 269) \div 256>>

Encoded(delta, value) ==
  <<16 * Nibble(delta) + Nibble(Len(value))>>
    \o Extension(delta) \o Extension(Len(value)) \o value

\* Behind its end a receive buffer holds zeros: reset() clears all of it.
At(s, p) == IF p \in DOMAIN s THEN s[p] ELSE 0
Upper(s, p) == At(s, p) \div 16
Lower(s, p) == At(s, p) % 16

Extended(nibble, s, p) ==
  CASE nibble < 13 -> nibble
    [] nibble = 13 -> At(s, p) + 13
    [] nibble > 13 -> (At(s, p) + 256 * At(s, p + 1) + 269) % Word

DeltaAt(s, p) == Extended(Upper(s, p), s, p + 1)
LengthAt(s, p) ==
  LET skipped == CASE Upper(s, p) = 13 -> 1 [] Upper(s, p) = 14 -> 2 [] OTHER -> 0
  IN  Extended(Lower(s, p), s, p + 1 + skipped)
TotalAt(s, p) ==
  LET length == LengthAt(s, p)
  IN  1 + ExtraBytes(DeltaAt(s, p)) + ExtraBytes(length) + length

\* Mutant of Fits: the length of the option is not compared with what is left.
FitsUnchecked(s, p) ==
  /\ Upper(s, p) # 15 /\ Lower(s, p) # 15
  /\ p + ExtraBytes(Upper(s, p)) + ExtraBytes(Lower(s, p)) <= Len(s)

\* What validate asks of the option at p.  The bytes a header needs are
\* counted from its nibbles, so a nibble of 14 counts for one byte.
Fits(s, p) ==
  /\ Upper(s, p) # 15 /\ Lower(s, p) # 15
  /\ p + ExtraBytes(Upper(s, p)) + ExtraBytes(Lower(s, p)) <= Len(s)
  /\ p + TotalAt(s, p) - 1 <= Len(s)

\* A walk over options, and where it goes on.
EndOf(walk) == IF walk = <<>> THEN 1 ELSE walk[Len(walk)].next
NumberBefore(walk, i) == IF i = 1 THEN 0 ELSE walk[i - 1].number
Plain(walk) == [i \in DOMAIN walk |-> [number |-> walk[i].number, value |-> walk[i].value]]

\* At p is the payload marker, the end, or what is no option.
Stops(s, p) == p > Len(s) \/ At(s, p) = Marker \/ ~Fits(s, p)

\* The n bytes from p on.
Stored(s, p, n) == [k \in 1 .. n |-> At(s, p + k - 1)]

\* The option at p that ends before next, its number counted on from before.
OptionAt(s, p, next, before) ==
  [at |-> p, next |-> next, number |-> (before + DeltaAt(s, p)) % Word,
   value |-> Stored(s, next - LengthAt(s, p), LengthAt(s, p))]

\* The option behind those of the walk.
OptionBehind(s, walk) ==
  OptionAt(s, EndOf(walk), EndOf(walk) + TotalAt(s, EndOf(walk)),
           NumberBefore(walk, Len(walk) + 1))

\* The walk goes on behind the n options seen so far; with fewer it has stopped.
GoOn(s, walk, n) ==
  IF Len(walk) < n \/ Stops(s, EndOf(walk)) THEN walk ELSE Append(walk, OptionBehind(s, walk))

\* The first n options, or all there are.
FirstOptions(s) ==
  LET first[n \in Nat] == IF n = 0 THEN <<>> ELSE GoOn(s, first[n - 1], n - 1)
  IN  first

\* The walk over the options that validate, getOptions and
\* findInsertionPosition have in common.  An option takes a byte at least.
Walk(s) == FirstOptions(s)[Len(s)]

(***************************************************************************)
(* Adding options and a payload                                            *)
(***************************************************************************)
\* Behind all options, or before the first of the walk with a greater number.
PositionIn(walk, number) ==
  LET behind == {i \in DOMAIN walk : walk[i].number > number}
      first == CHOOSE i \in behind : \A j \in behind : i <= j
  IN  CASE number >= maxAdded \/ pdu = <<>> -> [at |-> Len(pdu) + 1, prev |-> maxAdded]
        [] number < maxAdded /\ pdu # <<>> /\ behind = {} ->
             [at |-> EndOf(walk), prev |-> NumberBefore(walk, Len(walk) + 1)]
        [] number < maxAdded /\ pdu # <<>> /\ behind # {} ->
             [at |-> walk[first].at, prev |-> NumberBefore(walk, first)]

FindInsertionPosition(number) == PositionIn(Walk(pdu), number)

AtEnd(number) == FindInsertionPosition(number).at = Len(pdu) + 1

\* Mutant of Delta: the difference is kept as a signed number.
DeltaSigned(number) == number - FindInsertionPosition(number).prev

\* The difference is kept in sixteen bits.
Delta(number) == (number - FindInsertionPosition(number).prev) % Word

\* Mutant of Rebased: the option behind keeps its difference.
RebasedNot(p, number, prev) == SubSeq(pdu, p, Len(pdu))

\* The rest of the message from p on, whose first option now follows number.
Rebased(p, number, prev) ==
  LET old == DeltaAt(pdu, p)
      new == (prev + old - number) % Word
  IN  <<16 * Nibble(new) + Lower(pdu, p)>> \o Extension(new)
        \o SubSeq(pdu, p + 1 + ExtraBytes(old), Len(pdu))

Building == payload = <<>> /\ received = Unread /\ Len(added) < MaxAdds

PutAtEnd(option) ==
  /\ AtEnd(option.number)
  /\ pdu' = pdu \o Encoded(Delta(option.number), option.value)
  /\ maxAdded' = option.number
  /\ numOptions' = numOptions + 1

\* An option put before another one is not counted.
InsertBefore(option) ==
  LET place == FindInsertionPosition(option.number)
  IN  /\ ~AtEnd(option.number)
      /\ pdu' = SubSeq(pdu, 1, place.at - 1)
                  \o Encoded(Delta(option.number), option.value)
                  \o Rebased(place.at, option.number, place.prev)
      /\ UNCHANGED <<maxAdded, numOptions>>

AddOption(option) ==
  /\ PutAtEnd(option) \/ InsertBefore(option)
  /\ added' = added \o <<option>>
  /\ UNCHANGED <<payload, received, failures, spoiled>>

\* The number is noted as the greatest before realloc is tried.
AddOptionFails(option) ==
  /\ failures < MaxFailures
  /\ failures' = failures + 1
  /\ maxAdded' = IF AtEnd(option.number) THEN option.number ELSE maxAdded
  /\ spoiled' = (spoiled \/ AtEnd(option.number))
  /\ UNCHANGED <<pdu, numOptions, payload, received, added>>

SetPayload(length) ==
  /\ payload = <<>> /\ received = Unread /\ length > 0
  /\ payload' = Value(Marker, length)
  /\ pdu' = pdu \o <<Marker>> \o payload'
  /\ UNCHANGED <<numOptions, maxAdded, received, added, failures, spoiled>>

(***************************************************************************)
(* Receiving                                                               *)
(***************************************************************************)
Validate(s) ==
  LET walk == Walk(s)
      end == EndOf(walk)
  IN  CASE end > Len(s) ->
             [verdict |-> "valid", numOptions |-> Len(walk), payload |-> <<>>]
        [] end < Len(s) /\ s[end] = Marker ->
             [verdict |-> "valid", numOptions |-> Len(walk),
              payload |-> SubSeq(s, end + 1, Len(s))]
        [] end <= Len(s) /\ (s[end] # Marker \/ end = Len(s)) -> [verdict |-> "invalid"]

\* getOptions walks over as many options as validate has counted.
GetOptions(s, count) == Plain(SubSeq(Walk(s), 1, count))

\* Mutant of GetOptionsBlock2Next: the first byte is looked at.
Block2NextOfFirst(options) ==
  \E i \in DOMAIN options :
    LET value == options[i].value
    IN  /\ options[i].number = BLOCK2 /\ Len(value) \in {1, 2}
        /\ (value[1] \div MoreBit) % 2 = 1

\* Of a Block2 value of one or two bytes the last is looked at, of any other none.
GetOptionsBlock2Next(options) ==
  \E i \in DOMAIN options :
    LET value == options[i].value
    IN  /\ options[i].number = BLOCK2 /\ Len(value) \in {1, 2}
        /\ (value[Len(value)] \div MoreBit) % 2 = 1

Receive(cut) ==
  /\ received = Unread
  /\ LET s == SubSeq(pdu, 1, cut)
         result == Validate(s)
     IN  received' = IF result.verdict = "invalid"
                     THEN [verdict |-> "invalid", whole |-> cut = Len(pdu)]
                     ELSE LET options == GetOptions(s, result.numOptions)
                          IN  [verdict |-> "valid", options |-> options,
                               payload |-> result.payload, whole |-> cut = Len(pdu),
                               more |-> GetOptionsBlock2Next(options)]
  /\ UNCHANGED <<message, added, failures, spoiled>>

Next ==
  \/ Building /\ \E option \in Options : AddOption(option) \/ AddOptionFails(option)
  \/ \E length \in Payloads : SetPayload(length)
  \/ \E cut \in 0 .. Len(pdu) : Receive(cut)

Spec == Init /\ [][Next]_vars

-----------------------------------------------------------------------------
(***************************************************************************)
(* Properties                                                              *)
(***************************************************************************)
\* Every byte of the message is a byte, the count and the greatest number
\* stay in the types they are kept in, and the receiver is told a verdict.
TypeOK ==
  /\ pdu \in Seq(0 .. 255)
  /\ numOptions \in 0 .. MaxAdds /\ maxAdded \in {0} \cup Numbers
  /\ payload \in Seq(0 .. 255) /\ Len(payload) \in {0} \cup Payloads
  /\ received.verdict \in {"none", "valid", "invalid"}
  /\ added \in Seq(Options) /\ Len(added) <= MaxAdds
  /\ failures \in 0 .. MaxFailures /\ spoiled \in BOOLEAN

\* The options in the order of their numbers, equal ones as they were added.
Sorted(options) ==
  LET rank(i) == Cardinality({j \in DOMAIN options :
                     \/ options[j].number < options[i].number
                     \/ options[j].number = options[i].number /\ j <= i})
  IN  [k \in DOMAIN options |-> options[CHOOSE i \in DOMAIN options : rank(i) = k]]

\* Added in whatever order, the options in the message are those added, sorted
\* by number with equal numbers in their own order (the segments of a path),
\* each with its value: re-encoding the option behind an inserted one loses
\* nothing.  Only an allocation that failed for an option at the end breaks
\* this: addOption has noted the number by then, and the next option's
\* difference is taken from an option that is not there.
OptionsInOrder == ~spoiled => Plain(Walk(pdu)) = Sorted(added)

\* getNumOptions returns the number of options that the message has, as its
\* comment says (cantcoap.cpp:819).  It does not: addOption counts an option
\* put at the end and returns from the path that puts one before another
\* without counting, so after Block2 and then Uri-Path there are two options
\* in the message and one in the count.
CountIsOfOptions == numOptions = Len(Walk(pdu))

IsPrefixOf(s, t) == Len(s) <= Len(t) /\ s = SubSeq(t, 1, Len(s))

\* A message received whole is valid and gives back the options and the
\* payload.  Of one that was cut short the receiver, if it does not refuse it,
\* has the first options and then the first bytes of the payload, never
\* anything made of a cut option; payload comes only behind all the options.
ReceiverReadsWhatWasSent ==
  /\ received.verdict = "valid" /\ ~spoiled =>
       LET sent == Sorted(added)
       IN  /\ IsPrefixOf(received.options, sent)
           /\ IsPrefixOf(received.payload, payload)
           /\ received.payload # <<>> => received.options = sent
           /\ received.whole => received.options = sent /\ received.payload = payload
  /\ received.verdict = "invalid" => ~received.whole

\* A receiver goes on to the next block exactly when a Block2 option it has
\* received says that more follow, its value read as the number it stands for,
\* as long as that number has at most two bytes: getOptionsBlock2Next takes a
\* longer one for the last block.
UintOf(value) ==
  CASE value = <<>> -> 0
    [] Len(value) = 1 -> value[1]
    [] Len(value) = 2 -> 256 * value[1] + value[2]
BlockSaysMore(option) ==
  /\ option.number = BLOCK2
  /\ Len(option.value) <= 2 /\ (UintOf(option.value) \div MoreBit) % 2 = 1
MoreIsWhatWasSent ==
  received.verdict = "valid" /\ ~spoiled =>
    LET sent == Sorted(added)
    IN  received.more <=> \E i \in 1 .. Len(received.options) : BlockSaysMore(sent[i])
=============================================================================
