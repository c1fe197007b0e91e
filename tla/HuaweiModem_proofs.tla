------------------------- MODULE HuaweiModem_proofs -------------------------
(***************************************************************************)
(* Proofs about HuaweiModem, and AtCommand in it, for every size of the    *)
(* buffer and the endpoint, and every number of faults, reads and resets.  *)
(* The registration needs only that no line is changed on its way          *)
(* (TruthInv).  The fill pointer needs that transfers end with a line      *)
(* (WholeInv), and the answers, on top of that, that the reads left reach  *)
(* the command's own line (OwnInv).                                        *)
(***************************************************************************)
EXTENDS HuaweiModem, TLAPS, WellFoundedInduction

Commands == {"ATZ E1 V1", "AT+CREG?", "AT+CGDCONT"}
Answers == {"OK", "+CREG", "refusal", "urc"}
Stats == {"none", "searching", "registered", "denied"}

\* A character is a mark or of a text, as its place says.
Characters ==
  {x \in [place : 1 .. 9, text : Commands \cup Answers \cup {"CR", "LF"},
          stat : Stats, now : BOOLEAN] :
     /\ x.place \in {1, 2} => x.text \in Commands
     /\ x.place \in {3, 4, 8} => x.text = "CR"
     /\ x.place \in {5, 9} => x.text = "LF"
     /\ x.place \in {6, 7} => x.text \in Answers}

\* TypeOK but for the bound of the fill pointer, with the range of the wire and
\* the buffer; the pointer is never short of the data.
Types ==
  /\ at \in {"rest", "write", "read", "seek", "end", "check", "done"}
  /\ m_transactionCommand \in Commands \cup {"none"}
  /\ at # "rest" => m_transactionCommand \in Commands /\ pc \in {"atz", "creg", "apn"}
  /\ m_transactionState \in {"IDLE", "COMMAND_SENT", "READING_RESULT"}
  /\ m_transactionResult \in {"AT_OK", "AT_ERROR"}
  /\ m_inputBuf \in Seq(Characters) /\ wire \in Seq(Characters)
  /\ m_inputPos \in Nat /\ m_inputPos >= Len(m_inputBuf)
  /\ at \notin {"seek", "end", "check"} => m_inputBuf = <<>>
  /\ lineDetected \in BOOLEAN
  /\ tries \in 0 .. Reads - 1 /\ ret \in {"OK", "NET_MOREINFO", "failed"}
  /\ heard \in Stats
  /\ reg \in {"searching", "registered", "denied"} /\ own \in BOOLEAN
  /\ pc \in {"rest", "init", "wait", "atz", "creg", "apn", "ppp"}
  /\ resets \in 0 .. Resets - 1 /\ status \in {"REGISTERING", "OK", "FAILED"}
  /\ m_dongleConnected \in BOOLEAN /\ m_atOpen \in BOOLEAN
  /\ result \in {"none", "OK", "NET_AUTH", "failed"}
  /\ dongle \in {"absent", "found", "gone"}
  /\ noise \in Nat /\ splits \in Nat /\ late \in Nat /\ errors \in Nat
  /\ noise + splits + late + errors <= MaxFaults

\* What is known of the registration, wherever it is kept, is so.
Says(h, r) == h \in {"registered", "denied"} => r = h
Tells(s, r) == \A i \in DOMAIN s : Says(s[i].stat, r)

TruthInv ==
  /\ Tells(wire, reg) /\ Tells(m_inputBuf, reg) /\ Says(heard, reg)
  /\ status = "OK" => reg = "registered"
  /\ status = "FAILED" => reg = "denied"
  /\ OpenIsRegistered

\* Echoes and lines follow each other, the first and the last one whole.
Follows(x, y) == IF Ends(x) THEN Starts(y) ELSE y.place = x.place + 1
Adjacent(s) == \A i \in 1 .. Len(s) - 1 : Follows(s[i], s[i + 1])
Whole(s) == s # <<>> => Starts(s[1]) /\ Ends(s[Len(s)])

\* As long as no transfer is cut: what was read is parsed to its end, and the
\* start of a line is behind when its end is looked for.
BufferWhole ==
  /\ Adjacent(m_inputBuf)
  /\ at = "seek" => Whole(m_inputBuf)
  /\ at = "end" => /\ m_inputBuf # <<>> /\ m_inputBuf[1].place = 6
                   /\ Ends(m_inputBuf[Len(m_inputBuf)])
  /\ at \notin {"seek", "end"} => m_inputBuf = <<>>
  /\ m_inputPos = Len(m_inputBuf) /\ (lineDetected <=> at = "end")

WholeInv == splits = 0 => Adjacent(wire) /\ Whole(wire) /\ BufferWhole

\* All that is still to be parsed, and how far into it the last transfer goes.
Stream == m_inputBuf \o wire
InHand == Len(m_inputBuf)

\* Nothing but lines.
OnlyLines(s) == \A i \in 1 .. Len(s) : s[i].place >= 4

\* The command's echo is at p, and its answer's first line behind that.
EchoAt(p) ==
  /\ p + 8 <= Len(Stream) /\ Len(Stream) <= p + 14
  /\ Stream[p].place = 1 /\ Stream[p].text = m_transactionCommand
  /\ Stream[p + 5].place = 6 /\ Stream[p + 5].now
  /\ \A i \in 1 .. Len(Stream) : i \notin p .. p + 2 => Stream[i].place >= 4

\* The reads left, but for those that may still go to lines nobody asked for
\* and empty transfers.
Usable == tries - (Reads - 3 - noise)

\* They reach the echo and the line behind it.
ReadsLeft(p) ==
  IF at = "read" THEN p - 1 <= 6 * (Usable - 1)
  ELSE IF p > InHand THEN p - 1 - InHand <= 6 * (Usable - 2)
  ELSE Usable >= 1

\* The echo is awaited; or the command's own line comes next, or is the one
\* whose end is looked for; or it was read.
EchoAhead ==
  /\ m_transactionState = "COMMAND_SENT"
  /\ \E p \in 1 .. Len(Stream) : EchoAt(p) /\ ReadsLeft(p)
AnswerAhead ==
  /\ m_transactionState = "READING_RESULT" /\ OnlyLines(Stream)
  /\ at # "end" => /\ Len(Stream) \in 6 .. 12
                   /\ Stream[3].place = 6 /\ Stream[3].now
  /\ at = "end" => Len(Stream) \in 4 .. 10 /\ Stream[1].now
  /\ (InHand = 0 /\ at # "read") => Usable >= 1
  /\ at = "read" => Usable >= 0
Answered ==
  /\ m_transactionState = "IDLE" /\ at # "read" /\ own
  /\ OnlyLines(Stream) /\ Len(Stream) <= 6

\* Between commands there are only lines nobody asked for and what is left of
\* one answer; a command that ends has read its own line, unless it failed.
InStep ==
  /\ dongle = "gone" => wire = <<>> /\ at \in {"rest", "write", "read", "done"}
  /\ at \in {"rest", "write", "done"} => OnlyLines(wire) /\ Len(wire) <= 6 * (1 + noise)
  /\ at = "done" /\ ret # "failed" => own
  /\ at \in {"read", "seek", "end", "check"} /\ dongle # "gone" =>
       EchoAhead \/ AnswerAhead \/ Answered

\* Nothing was cut or late, and the reads cover the lines nobody asked for.
Undisturbed == splits = 0 /\ late = 0 /\ noise + 3 <= Reads

OwnInv == Undisturbed => InStep

-----------------------------------------------------------------------------
\* A set of numbers that is not empty has a least one.
LEMMA LeastNumber ==
  ASSUME NEW T \in SUBSET Nat, T # {}
  PROVE  \E x \in T : \A y \in T : x <= y
<1> DEFINE less == {p \in Nat \X Nat : p[1] < p[2]}
<1>1. less = OpToRel(<, Nat)
  BY DEF OpToRel
<1>2. IsWellFoundedOn(less, Nat)
  BY <1>1, NatLessThanWellFounded
<1>3. PICK x \in T : \A y \in T : <<y, x>> \notin less
  BY <1>2, WFMin
<1>4. ASSUME NEW y \in T
      PROVE  x <= y
  <2>1. x \in Nat /\ y \in Nat /\ <<y, x>> \notin less
    BY <1>3
  <2> QED BY <2>1
<1> QED BY <1>4

\* Where finds the first character with the text, or none.
LEMMA WhereFinds ==
  ASSUME m_inputBuf \in Seq(Characters), NEW t
  PROVE  /\ Where(t) \in 0 .. Len(m_inputBuf)
         /\ Where(t) > 0 => m_inputBuf[Where(t)].text = t
         /\ \A i \in 1 .. Len(m_inputBuf) :
              m_inputBuf[i].text = t => Where(t) > 0 /\ Where(t) <= i
<1> DEFINE found == {i \in DOMAIN m_inputBuf : m_inputBuf[i].text = t}
<1>1. found \in SUBSET Nat /\ found \subseteq 1 .. Len(m_inputBuf)
  OBVIOUS
<1>2. CASE found = {}
  <2>1. Where(t) = 0
    BY <1>2 DEF Where
  <2> QED BY <1>2, <2>1
<1>3. CASE found # {}
  <2>1. \E i \in found : \A k \in found : i <= k
    BY <1>1, <1>3, LeastNumber
  <2>2. Where(t) = CHOOSE i \in found : \A k \in found : i <= k
    BY <1>3 DEF Where
  <2>3. Where(t) \in found /\ \A k \in found : Where(t) <= k
    BY <2>1, <2>2
  <2> QED BY <1>1, <2>3
<1> QED BY <1>2, <1>3

\* The front of a sequence and what is behind it.
LEMMA Front ==
  ASSUME NEW S, NEW s \in Seq(S), NEW n \in 0 .. Len(s)
  PROVE  /\ SubSeq(s, 1, n) \in Seq(S) /\ Len(SubSeq(s, 1, n)) = n
         /\ \A i \in 1 .. n : SubSeq(s, 1, n)[i] = s[i]
OBVIOUS

LEMMA Rest ==
  ASSUME NEW S, NEW s \in Seq(S), NEW n \in 0 .. Len(s)
  PROVE  /\ SubSeq(s, n + 1, Len(s)) \in Seq(S)
         /\ Len(SubSeq(s, n + 1, Len(s))) = Len(s) - n
         /\ \A i \in 1 .. Len(s) - n : SubSeq(s, n + 1, Len(s))[i] = s[i + n]
OBVIOUS

\* One sequence behind another.
LEMMA Joined ==
  ASSUME NEW S, NEW s \in Seq(S), NEW t \in Seq(S)
  PROVE  /\ s \o t \in Seq(S) /\ Len(s \o t) = Len(s) + Len(t)
         /\ \A i \in 1 .. Len(s) : (s \o t)[i] = s[i]
         /\ \A i \in 1 .. Len(t) : (s \o t)[i + Len(s)] = t[i]
OBVIOUS

\* What the modem sends is made of characters.
LEMMA EchoType ==
  ASSUME NEW c \in Commands
  PROVE  Echo(c) \in Seq(Characters) /\ Len(Echo(c)) = 3
<1>1. Mark(1, c) \in Characters /\ Mark(2, c) \in Characters
  BY DEF Mark, Char, Characters, Stats
<1>2. Mark(3, "CR") \in Characters
  BY DEF Mark, Char, Characters, Stats
<1> QED BY <1>1, <1>2 DEF Echo

LEMMA LineType ==
  ASSUME NEW t \in Answers, NEW s \in Stats, NEW b \in BOOLEAN
  PROVE  Line(t, s, b) \in Seq(Characters) /\ Len(Line(t, s, b)) = 6
<1>1. Mark(4, "CR") \in Characters /\ Mark(8, "CR") \in Characters
  BY DEF Mark, Char, Characters, Stats
<1>2. Mark(5, "LF") \in Characters /\ Mark(9, "LF") \in Characters
  BY DEF Mark, Char, Characters, Stats
<1>3. Char(6, t, s, b) \in Characters /\ Char(7, t, s, b) \in Characters
  BY DEF Char, Characters
<1> QED BY <1>1, <1>2, <1>3 DEF Line

LEMMA OlderType ==
  ASSUME wire \in Seq(Characters)
  PROVE  /\ Older \in Seq(Characters) /\ Len(Older) = Len(wire)
         /\ \A i \in 1 .. Len(wire) : /\ Older[i].place = wire[i].place
                                      /\ Older[i].text = wire[i].text
                                      /\ Older[i].stat = wire[i].stat
<1>1. \A x \in Characters : [x EXCEPT !.now = FALSE] \in Characters
  BY DEF Characters
<1>2. \A i \in 1 .. Len(wire) : wire[i] \in Characters
  OBVIOUS
<1>3. \A x \in Characters : LET y == [x EXCEPT !.now = FALSE] IN
        y.place = x.place /\ y.text = x.text /\ y.stat = x.stat
  BY DEF Characters
<1> QED BY <1>1, <1>2, <1>3 DEF Older

-----------------------------------------------------------------------------
(* The steps of the parser, as the invariants need them.                   *)

\* What is discarded is the front of the buffer, and the pointer moves with it.
LEMMA DiscardShifts ==
  ASSUME Types, NEW k \in 0 .. Len(m_inputBuf), Discard(k)
  PROVE  /\ m_inputBuf' \in Seq(Characters)
         /\ Len(m_inputBuf') = Len(m_inputBuf) - k
         /\ \A i \in 1 .. Len(m_inputBuf) - k : m_inputBuf'[i] = m_inputBuf[i + k]
         /\ m_inputPos' = m_inputPos - k
         /\ m_inputPos' \in Nat /\ m_inputPos' >= Len(m_inputBuf')
<1>1. m_inputBuf' = SubSeq(m_inputBuf, k + 1, Len(m_inputBuf))
  BY DEF Discard
<1>2. m_inputPos' = m_inputPos - k
  BY DEF Discard, Shifted
<1>3. m_inputBuf \in Seq(Characters)
  BY DEF Types
<1>4. m_inputBuf' \in Seq(Characters) /\ Len(m_inputBuf') = Len(m_inputBuf) - k
  BY <1>1, <1>3, Rest
<1>5. \A i \in 1 .. Len(m_inputBuf) - k : m_inputBuf'[i] = m_inputBuf[i + k]
  BY <1>1, <1>3, Rest
<1>6. m_inputPos' \in Nat /\ m_inputPos' >= Len(m_inputBuf')
  BY <1>2, <1>4 DEF Types
<1> QED BY <1>2, <1>4, <1>5, <1>6

\* What a line does, by the state it is met in.
LEMMA LineRead ==
  ASSUME Types, NEW l \in Seq(Characters), ProcessReadLine(l)
  PROVE  /\ m_transactionCommand' = m_transactionCommand
         /\ m_transactionState' \in {"IDLE", "COMMAND_SENT", "READING_RESULT"}
         /\ m_transactionResult' \in {"AT_OK", "AT_ERROR"}
         /\ heard' \in Stats /\ own' \in BOOLEAN
         /\ heard' # heard => Len(l) = 2 /\ heard' = l[1].stat
<1>1. m_transactionCommand' = m_transactionCommand
  BY DEF ProcessReadLine
<1>2. /\ m_transactionState' \in {"IDLE", "COMMAND_SENT", "READING_RESULT"}
      /\ m_transactionResult' \in {"AT_OK", "AT_ERROR"}
  BY DEF ProcessReadLine, Types
<1>3. heard' = heard \/ (TextOf(l) = "+CREG" /\ heard' = l[1].stat)
  BY DEF ProcessReadLine
<1>4. own' = own \/ own' = (TextOf(l) # "other" /\ l[1].now)
  BY DEF ProcessReadLine
<1>5. TextOf(l) # "other" => Len(l) = 2 /\ l[1] \in Characters
  BY DEF TextOf
<1>6. heard' \in Stats
  BY <1>3, <1>5 DEF Types, Characters
<1>7. own' \in BOOLEAN
  BY <1>4 DEF Types
<1> QED BY <1>1, <1>2, <1>3, <1>5, <1>6, <1>7

\* The line before the character at k.
LEMMA BeforeIsFront ==
  ASSUME Types, NEW k \in 1 .. Len(m_inputBuf)
  PROVE  /\ Before(k) \in Seq(Characters) /\ Len(Before(k)) = k - 1
         /\ \A i \in 1 .. k - 1 : Before(k)[i] = m_inputBuf[i]
BY Front DEF Before, Types

\* Every step of the parser throws some of the buffer away, if not nothing, and
\* reads the line before a CR, if any.
LEMMA ParserStep ==
  ASSUME Types, PreProcess
  PROVE  /\ at \in {"seek", "end"} /\ at' \in {"seek", "end", "check"}
         /\ UNCHANGED <<tries, ret, modem, counts, m_transactionCommand>>
         /\ lineDetected' \in BOOLEAN
         /\ \E k \in 0 .. Len(m_inputBuf) : Discard(k)
         /\ \/ NoLine
            \/ \E k \in 1 .. Len(m_inputBuf) : ProcessReadLine(Before(k))
<1>1. /\ at \in {"seek", "end"} /\ at' \in {"seek", "end", "check"}
      /\ UNCHANGED <<tries, ret, modem, counts>>
  BY DEF PreProcess, Parse, StartOfLine, LoneCR, EchoLine, LoneLF, NoStart, EndOfLine,
         BrokenLine, NoEnd
<1>2. lineDetected' \in BOOLEAN
  BY DEF PreProcess, StartOfLine, LoneCR, EchoLine, LoneLF, NoStart, EndOfLine,
         BrokenLine, NoEnd, Types, input
<1>3. Where("CR") \in 0 .. Len(m_inputBuf) /\ m_inputBuf \in Seq(Characters)
  BY WhereFinds DEF Types
<1>4. UNCHANGED input => Discard(0)
  <2>1. SubSeq(m_inputBuf, 1, Len(m_inputBuf)) = m_inputBuf
    BY <1>3
  <2> QED BY <2>1 DEF Discard, Shifted, input, Types
<1>5. \E k \in 0 .. Len(m_inputBuf) : Discard(k)
  BY <1>3, <1>4 DEF PreProcess, StartOfLine, LoneCR, EchoLine, LoneLF, NoStart, EndOfLine,
     BrokenLine, NoEnd, IsAt
<1>6. NoLine \/ \E k \in 1 .. Len(m_inputBuf) : ProcessReadLine(Before(k))
  BY <1>3 DEF PreProcess, StartOfLine, LoneCR, EchoLine, LoneLF, NoStart, EndOfLine,
     BrokenLine, NoEnd
<1>7. UNCHANGED m_transactionCommand
  BY <1>6 DEF NoLine, transaction, ProcessReadLine
<1> QED BY <1>1, <1>2, <1>5, <1>6, <1>7

\* The answer to a command.
LEMMA AnswerType ==
  ASSUME Types, NEW c \in Commands
  PROVE  AnswerLines(c) \in Seq(Characters) /\ Len(AnswerLines(c)) \in {6, 12}
<1>1. Line("OK", "none", TRUE) \in Seq(Characters) /\ Len(Line("OK", "none", TRUE)) = 6
  BY LineType DEF Answers, Stats
<1>2. Line("+CREG", reg, TRUE) \in Seq(Characters) /\ Len(Line("+CREG", reg, TRUE)) = 6
  BY LineType DEF Answers, Stats, Types
<1>3. \A s, t \in Seq(Characters) : s \o t \in Seq(Characters) /\ Len(s \o t) = Len(s) + Len(t)
  BY Joined
<1>4. /\ Line("+CREG", reg, TRUE) \o Line("OK", "none", TRUE) \in Seq(Characters)
      /\ Len(Line("+CREG", reg, TRUE) \o Line("OK", "none", TRUE)) = 12
  <2>1. 6 + 6 = 12
    OBVIOUS
  <2> QED BY Zenon, <1>1, <1>2, <1>3, <2>1
<1>5. CASE c = "AT+CREG?"
  BY <1>4, <1>5 DEF AnswerLines
<1>6. CASE c # "AT+CREG?"
  BY <1>1, <1>6 DEF AnswerLines
<1> QED BY <1>5, <1>6

\* What a command puts on the wire: the echo and the answer, behind what is left.
LEMMA WriteSends ==
  ASSUME Types, Write
  PROVE  /\ wire' \in Seq(Characters)
         /\ \E a \in Seq(Characters) :
              /\ wire' = Older \o Echo(m_transactionCommand) \o a
              /\ \/ a = AnswerLines(m_transactionCommand)
                 \/ a = Line("refusal", "none", TRUE)
<1>1. m_transactionCommand \in Commands
  BY DEF Types, Write
<1>2. /\ AnswerLines(m_transactionCommand) \in Seq(Characters)
      /\ Line("refusal", "none", TRUE) \in Seq(Characters)
  BY <1>1, AnswerType, LineType DEF Answers, Stats
<1>3. PICK a \in Seq(Characters) :
        /\ wire' = Older \o Echo(m_transactionCommand) \o a
        /\ \/ a = AnswerLines(m_transactionCommand)
           \/ a = Line("refusal", "none", TRUE)
  BY <1>2 DEF Write
<1>4. Older \o Echo(m_transactionCommand) \in Seq(Characters)
  BY <1>1, OlderType, EchoType, Joined DEF Types
<1>5. wire' \in Seq(Characters)
  BY <1>3, <1>4, Joined
<1> QED BY <1>3, <1>5

-----------------------------------------------------------------------------
\* Types is inductive.
LEMMA InitTypes == Init => Types
<1>1. <<>> \in Seq(Characters) /\ Len(<<>>) = 0
  OBVIOUS
<1>2. 0 \in 0 .. Reads - 1 /\ 0 \in 0 .. Resets - 1 /\ 0 + 0 + 0 + 0 <= MaxFaults
  BY AtAssumption, ResetsAssumption
<1>3. Init => /\ lineDetected \in BOOLEAN /\ own \in BOOLEAN
              /\ m_dongleConnected \in BOOLEAN /\ m_atOpen \in BOOLEAN
  BY DEF Init, AtInit
<1> QED BY <1>1, <1>2, <1>3 DEF Init, AtInit, Types, Stats

LEMMA TypesNext == Types /\ [Next]_vars => Types'
<1> SUFFICES ASSUME Types, [Next]_vars
             PROVE  Types'
  OBVIOUS
<1> USE DEF atVars, transaction, input, modem, counts, init, vars
<1> DEFINE Back == /\ at = "done" /\ tries' = 0 /\ ret' = "OK" /\ heard' \in Stats /\ own' \in BOOLEAN
                   /\ UNCHANGED <<transaction, input, modem, counts, m_dongleConnected, dongle>>
<1>0. 0 \in 0 .. Reads - 1
  BY AtAssumption
<1>1. CASE Connect
  BY <1>1 DEF Connect, Types
<1>2. CASE InitDongle
  <2>1. Resets - 1 \in 0 .. Resets - 1
    BY ResetsAssumption
  <2> QED BY <1>2, <2>1 DEF InitDongle, Types
<1>3. CASE DongleConnected
  <2>1. Resets - 1 \in 0 .. Resets - 1
    BY ResetsAssumption
  <2> QED BY <1>3, <2>1 DEF DongleConnected, Types
<1>4. CASE TryConnect
  BY <1>4 DEF TryConnect, Types
<1>5. CASE Command
  <2>1. /\ at' = "write" /\ m_transactionCommand' \in Commands /\ pc \in {"atz", "creg", "apn"}
        /\ heard' = "none" /\ own' = FALSE
        /\ UNCHANGED <<m_transactionState, m_transactionResult, input, tries, ret,
                       modem, counts, pc, init, dongle>>
    BY <1>5 DEF Command, Execute, Commands
  <2>2. m_inputBuf = <<>> /\ UNCHANGED <<m_inputBuf, m_inputPos>>
    BY <1>5, <2>1 DEF Command, Execute, Types
  <2>3. /\ m_inputBuf' \in Seq(Characters) /\ wire' \in Seq(Characters)
        /\ m_inputPos' \in Nat /\ m_inputPos' >= Len(m_inputBuf')
    BY <2>1, <2>2 DEF Types
  <2>4. m_transactionCommand' \in Commands \cup {"none"} /\ heard' \in Stats /\ own' \in BOOLEAN
    BY <2>1 DEF Stats
  <2> QED BY <2>1, <2>2, <2>3, <2>4 DEF Types
<1>6. CASE dongle = "found" /\ Write /\ UNCHANGED <<pc, init, dongle>>
  <2>1. wire' \in Seq(Characters)
    BY <1>6, WriteSends
  <2>2. tries' \in 0 .. Reads - 1
    BY <1>6, AtAssumption DEF Write
  <2>3. noise' + splits' + late' + errors' <= MaxFaults /\ errors' \in Nat
    <3>1. /\ UNCHANGED <<noise, splits, late>>
          /\ errors' = errors \/ (MayFail /\ errors' = errors + 1)
      BY <1>6 DEF Write
    <3> QED BY <3>1, AtAssumption DEF MayFail, Types
  <2>4. /\ at = "write" /\ at' = "read" /\ m_transactionState' = "COMMAND_SENT"
        /\ UNCHANGED <<m_transactionCommand, m_transactionResult, input, ret, heard,
                       reg, own, noise, splits, late, pc, init, dongle>>
    BY <1>6 DEF Write
  <2> QED BY <2>1, <2>2, <2>3, <2>4 DEF Types
<1>7. CASE dongle = "found" /\ Read /\ UNCHANGED <<pc, init, dongle>>
  <2>1. PICK n \in 1 .. EndpointSize :
          /\ n <= Len(wire)
          /\ m_inputBuf' = SubSeq(wire, 1, n) /\ m_inputPos' = m_inputPos + n
          /\ wire' = SubSeq(wire, n + 1, Len(wire))
          /\ IF Ends(wire[n]) THEN UNCHANGED splits
                              ELSE MayFail /\ splits' = splits + 1
    BY <1>7 DEF Read
  <2>2. n \in 0 .. Len(wire) /\ wire \in Seq(Characters)
    BY <2>1 DEF Types
  <2>3. m_inputBuf' \in Seq(Characters) /\ Len(m_inputBuf') = n
    BY <2>1, <2>2, Front
  <2>4. wire' \in Seq(Characters)
    BY <2>1, <2>2, Rest
  <2>5. m_inputPos' \in Nat /\ m_inputPos' >= Len(m_inputBuf')
    BY <2>1, <2>2, <2>3 DEF Types
  <2>6. splits' \in Nat /\ noise' + splits' + late' + errors' <= MaxFaults
    BY <1>7, <2>1, AtAssumption DEF Read, MayFail, Types
  <2> QED BY <1>7, <2>3, <2>4, <2>5, <2>6 DEF Read, Types
<1>8. CASE WriteFails(dongle = "found") /\ UNCHANGED <<pc, init, dongle>>
  <2>1. errors' \in Nat /\ noise' + splits' + late' + errors' <= MaxFaults
    <3>1. /\ UNCHANGED <<noise, splits, late>>
          /\ errors' = errors \/ (MayFail /\ errors' = errors + 1)
      BY <1>8 DEF WriteFails
    <3> QED BY <3>1, AtAssumption DEF MayFail, Types
  <2> QED BY <1>8, <2>1 DEF WriteFails, Types
<1>20. CASE dongle = "found" /\ ReadEmpty /\ UNCHANGED <<pc, init, dongle>>
  <2>1. noise' \in Nat /\ noise' + splits' + late' + errors' <= MaxFaults
    BY <1>20, AtAssumption DEF ReadEmpty, MayFail, Types
  <2> QED BY <1>20, <2>1 DEF ReadEmpty, Types
<1>9. CASE ReadFails /\ UNCHANGED <<pc, init, dongle>>
  <2>1. late' \in Nat /\ noise' + splits' + late' + errors' <= MaxFaults
    BY <1>9, AtAssumption DEF ReadFails, MayFail, Types
  <2> QED BY <1>9, <2>1 DEF ReadFails, Types
<1>10. CASE CheckLoop /\ UNCHANGED <<pc, init, dongle>>
  <2>1. m_inputBuf' = <<>> /\ m_inputBuf' \in Seq(Characters) /\ Len(m_inputBuf') = 0
    BY <1>10 DEF CheckLoop
  <2>2. m_inputPos' \in Nat /\ lineDetected' \in BOOLEAN
    <3>1. \/ m_inputPos' = 0 /\ lineDetected' = FALSE
          \/ UNCHANGED <<m_inputPos, lineDetected>>
      BY <1>10 DEF CheckLoop
    <3>2. lineDetected' \in BOOLEAN
      BY <3>1 DEF Types
    <3>3. m_inputPos' \in Nat
      BY <3>1 DEF Types
    <3> QED BY <3>2, <3>3
  <2>3. /\ at' \in {"read", "done"} /\ tries' \in 0 .. Reads - 1
        /\ ret' \in {"OK", "NET_MOREINFO", "failed"}
    BY <1>10, AtAssumption DEF CheckLoop, Types, ReadAgain
  <2> QED BY <1>10, <2>1, <2>2, <2>3 DEF CheckLoop, Types
<1>11. CASE PreProcess /\ UNCHANGED <<pc, init, dongle>>
  <2>1. /\ at \in {"seek", "end"} /\ at' \in {"seek", "end", "check"}
        /\ UNCHANGED <<tries, ret, wire, reg, noise, splits, late, errors,
                       m_transactionCommand>>
        /\ lineDetected' \in BOOLEAN
    BY <1>11, ParserStep
  <2>2. /\ m_inputBuf' \in Seq(Characters)
        /\ m_inputPos' \in Nat /\ m_inputPos' >= Len(m_inputBuf')
    BY <1>11, ParserStep, DiscardShifts
  <2>3. /\ m_transactionState' \in {"IDLE", "COMMAND_SENT", "READING_RESULT"}
        /\ m_transactionResult' \in {"AT_OK", "AT_ERROR"}
        /\ heard' \in Stats /\ own' \in BOOLEAN
    <3>1. CASE NoLine
      BY <3>1 DEF NoLine, Types
    <3>2. ASSUME NEW k \in 1 .. Len(m_inputBuf), ProcessReadLine(Before(k))
          PROVE  /\ m_transactionState' \in {"IDLE", "COMMAND_SENT", "READING_RESULT"}
                 /\ m_transactionResult' \in {"AT_OK", "AT_ERROR"}
                 /\ heard' \in Stats /\ own' \in BOOLEAN
      BY <3>2, BeforeIsFront, LineRead
    <3> QED BY <1>11, <3>1, <3>2, ParserStep
  <2> QED BY <1>11, <2>1, <2>2, <2>3 DEF Types
<1>12. CASE ResetReturned
  <2>1. resets' \in 0 .. Resets - 1
    <3>1. resets' = resets \/ resets' = 0 \/ (resets > 0 /\ resets' = resets - 1)
      BY <1>12 DEF ResetReturned
    <3> QED BY <3>1, ResetsAssumption DEF Types
  <2>2. pc' \in {"creg", "atz", "rest"} /\ (result' = result \/ result' = "failed")
    BY <1>12 DEF ResetReturned, Returned, Returns
  <2>3. status' = "REGISTERING" /\ UNCHANGED m_atOpen
    BY <1>12 DEF ResetReturned
  <2>4. at' = "rest" /\ Back
    BY <1>12 DEF ResetReturned, Returned, Stats
  <2> QED BY <1>0, <2>1, <2>2, <2>3, <2>4 DEF Types
<1>13. CASE RegistrationReturned
  <2>1. status' \in {"REGISTERING", "OK", "FAILED"}
    BY <1>13 DEF RegistrationReturned
  <2>2. pc' \in {"creg", "rest", "apn"} /\ (result' = result \/ result' = "NET_AUTH")
    BY <1>13 DEF RegistrationReturned, Returned, Returns
  <2>3. at' = "rest" /\ Back /\ UNCHANGED resets
    BY <1>13 DEF RegistrationReturned, Returned, Stats
  <2>4. m_atOpen' \in BOOLEAN
    BY <1>13 DEF RegistrationReturned, Types
  <2> QED BY <1>0, <2>1, <2>2, <2>3, <2>4 DEF Types
<1>14. CASE ApnReturned
  <2>1. at' = "rest" /\ pc' = "ppp" /\ Back /\ UNCHANGED init
    BY <1>14 DEF ApnReturned, Returned, Stats
  <2> QED BY <1>0, <2>1 DEF Types
<1>15. CASE PppConnect
  <2>1. wire' \in Seq(Characters)
    BY <1>15 DEF PppConnect
  <2>2. at = "rest" /\ at' = "rest"
    BY <1>15 DEF PppConnect, Types
  <2> QED BY <1>15, <2>1, <2>2 DEF PppConnect, Returns, Types
<1>16. CASE ModemReports /\ UNCHANGED <<pc, init, dongle>>
  <2>1. wire' \in Seq(Characters)
    BY <1>16, LineType, Joined DEF ModemReports, Types, Answers, Stats
  <2>2. noise' \in Nat /\ noise' + splits' + late' + errors' <= MaxFaults
    BY <1>16, AtAssumption DEF ModemReports, MayFail, Types
  <2>3. UNCHANGED <<at, transaction, input, tries, ret, heard, reg, own, splits, late,
                    errors, pc, init, dongle>>
    BY <1>16 DEF ModemReports
  <2> QED BY <2>1, <2>2, <2>3 DEF Types
<1>17. CASE ModemRegisters /\ UNCHANGED <<pc, init, dongle>>
  BY <1>17 DEF ModemRegisters, Types
<1>18. CASE Unplug
  <2>1. wire' \in Seq(Characters)
    BY <1>18 DEF Unplug
  <2> QED BY <1>18, <2>1 DEF Unplug, Types
<1>19. CASE UNCHANGED vars
  BY <1>19 DEF Types
<1> QED BY <1>1, <1>2, <1>3, <1>4, <1>5, <1>6, <1>7, <1>8, <1>9, <1>10, <1>11, <1>12,
           <1>13, <1>14, <1>15, <1>16, <1>17, <1>18, <1>19, <1>20
        DEF Next, Host, Transaction, Modem

-----------------------------------------------------------------------------
(* The registration.                                                       *)

\* Two sequences that tell the registration do so together.
LEMMA ToldTogether ==
  ASSUME NEW s \in Seq(Characters), NEW t \in Seq(Characters), NEW r,
         Tells(s, r), Tells(t, r)
  PROVE  Tells(s \o t, r)
<1>1. ASSUME NEW i \in 1 .. Len(s) + Len(t)
      PROVE  Says((s \o t)[i].stat, r)
  <2>1. CASE i <= Len(s)
    BY <2>1, Joined DEF Tells
  <2>2. CASE i > Len(s)
    <3>1. i - Len(s) \in 1 .. Len(t) /\ (i - Len(s)) + Len(s) = i
      BY <2>2
    <3>2. (s \o t)[i] = t[i - Len(s)]
      BY <3>1, Joined
    <3> QED BY <3>1, <3>2 DEF Tells
  <2> QED BY <2>1, <2>2
<1>2. DOMAIN (s \o t) = 1 .. Len(s) + Len(t)
  BY Joined
<1> QED BY <1>1, <1>2 DEF Tells

\* So does what is left of a sequence.
LEMMA RestTells ==
  ASSUME NEW s \in Seq(Characters), NEW u \in Seq(Characters), NEW n \in 0 .. Len(s),
         Len(u) = Len(s) - n, \A i \in 1 .. Len(s) - n : u[i] = s[i + n],
         NEW r, Tells(s, r)
  PROVE  Tells(u, r)
<1>1. ASSUME NEW i \in 1 .. Len(s) - n
      PROVE  Says(u[i].stat, r)
  <2>1. i + n \in DOMAIN s
    OBVIOUS
  <2>2. Says(s[i + n].stat, r)
    BY <2>1 DEF Tells
  <2> QED BY <2>2
<1>2. DOMAIN u = 1 .. Len(s) - n
  OBVIOUS
<1> QED BY <1>1, <1>2 DEF Tells

\* The modem tells its registration, where it tells any.
LEMMA LineTells ==
  ASSUME NEW t \in Answers, NEW h \in Stats, NEW b \in BOOLEAN, NEW r, Says(h, r)
  PROVE  Tells(Line(t, h, b), r)
BY DEF Line, Mark, Char, Tells, Says

LEMMA EchoTells ==
  ASSUME NEW c \in Commands, NEW r
  PROVE  Tells(Echo(c), r)
BY DEF Echo, Mark, Char, Tells, Says

LEMMA WriteTells ==
  ASSUME Types, Tells(wire, reg), Write
  PROVE  Tells(wire', reg)
<1>1. PICK a \in Seq(Characters) :
        /\ wire' = Older \o Echo(m_transactionCommand) \o a
        /\ \/ a = AnswerLines(m_transactionCommand)
           \/ a = Line("refusal", "none", TRUE)
  BY WriteSends
<1>2. m_transactionCommand \in Commands
  BY DEF Types, Write
<1>3. Older \in Seq(Characters) /\ Tells(Older, reg)
  BY OlderType DEF Tells, Types
<1>4. Tells(a, reg)
  <2>1. /\ Tells(Line("OK", "none", TRUE), reg) /\ Tells(Line("refusal", "none", TRUE), reg)
        /\ Tells(Line("+CREG", reg, TRUE), reg)
    BY LineTells DEF Answers, Stats, Says, Types
  <2>2. Line("OK", "none", TRUE) \in Seq(Characters) /\ Line("+CREG", reg, TRUE) \in Seq(Characters)
    BY LineType DEF Answers, Stats, Types
  <2>3. Tells(Line("+CREG", reg, TRUE) \o Line("OK", "none", TRUE), reg)
    BY <2>1, <2>2, ToldTogether
  <2> QED BY <1>1, <2>1, <2>3 DEF AnswerLines
<1>5. Echo(m_transactionCommand) \in Seq(Characters) /\ Tells(Echo(m_transactionCommand), reg)
  BY <1>2, EchoType, EchoTells
<1>6. /\ Older \o Echo(m_transactionCommand) \in Seq(Characters)
      /\ Tells(Older \o Echo(m_transactionCommand), reg)
  BY <1>3, <1>5, Joined, ToldTogether
<1> QED BY <1>1, <1>4, <1>6, ToldTogether

\* TruthInv is inductive.
LEMMA InitTruth == Init => TruthInv
BY DEF Init, AtInit, TruthInv, Tells, Says, OpenIsRegistered

LEMMA TruthNext == Types /\ TruthInv /\ [Next]_vars => TruthInv'
<1> SUFFICES ASSUME Types, TruthInv, [Next]_vars
             PROVE  TruthInv'
  OBVIOUS
<1> USE DEF atVars, transaction, input, modem, counts, init, vars
<1>1. CASE Connect
  BY <1>1 DEF Connect, TruthInv, OpenIsRegistered
<1>2. CASE InitDongle
  BY <1>2 DEF InitDongle, TruthInv, OpenIsRegistered
<1>3. CASE DongleConnected
  BY <1>3 DEF DongleConnected, TruthInv, OpenIsRegistered
<1>4. CASE TryConnect
  BY <1>4 DEF TryConnect, TruthInv, OpenIsRegistered
<1>5. CASE Command
  BY <1>5 DEF Command, Execute, TruthInv, OpenIsRegistered, Says
<1>6. CASE dongle = "found" /\ Write /\ UNCHANGED <<pc, init, dongle>>
  <2>1. Tells(wire', reg)
    BY <1>6, WriteTells DEF TruthInv
  <2>2. UNCHANGED <<input, heard, reg, init>>
    BY <1>6 DEF Write
  <2> QED BY <2>1, <2>2 DEF TruthInv, OpenIsRegistered
<1>7. CASE dongle = "found" /\ Read /\ UNCHANGED <<pc, init, dongle>>
  <2>1. PICK n \in 1 .. EndpointSize :
          /\ n <= Len(wire)
          /\ m_inputBuf' = SubSeq(wire, 1, n)
          /\ wire' = SubSeq(wire, n + 1, Len(wire))
    BY <1>7 DEF Read
  <2>2. n \in 0 .. Len(wire) /\ wire \in Seq(Characters)
    BY <2>1 DEF Types
  <2>3. Tells(m_inputBuf', reg)
    BY <2>1, <2>2, Front DEF Tells, TruthInv
  <2>4. Tells(wire', reg)
    <3>1. Len(wire') = Len(wire) - n /\ wire' \in Seq(Characters)
      BY <2>1, <2>2, Rest
    <3>2. \A i \in 1 .. Len(wire) - n : wire'[i] = wire[i + n]
      BY <2>1, <2>2, Rest
    <3> QED BY <2>2, <3>1, <3>2, RestTells DEF TruthInv
  <2>5. UNCHANGED <<heard, reg, init>>
    BY <1>7 DEF Read
  <2> QED BY <2>3, <2>4, <2>5 DEF TruthInv, OpenIsRegistered
<1>8. CASE WriteFails(dongle = "found") /\ UNCHANGED <<pc, init, dongle>>
  BY <1>8 DEF WriteFails, TruthInv, OpenIsRegistered
<1>20. CASE dongle = "found" /\ ReadEmpty /\ UNCHANGED <<pc, init, dongle>>
  BY <1>20 DEF ReadEmpty, TruthInv, OpenIsRegistered
<1>9. CASE ReadFails /\ UNCHANGED <<pc, init, dongle>>
  BY <1>9 DEF ReadFails, TruthInv, OpenIsRegistered
<1>10. CASE CheckLoop /\ UNCHANGED <<pc, init, dongle>>
  <2>1. m_inputBuf' = <<>> /\ UNCHANGED <<heard, wire, reg, init>>
    BY <1>10 DEF CheckLoop
  <2> QED BY <2>1 DEF TruthInv, OpenIsRegistered, Tells
<1>11. CASE PreProcess /\ UNCHANGED <<pc, init, dongle>>
  <2>1. UNCHANGED <<wire, reg>> /\ m_inputBuf \in Seq(Characters)
    BY <1>11, ParserStep DEF Types
  <2>2. Tells(m_inputBuf', reg)
    <3>1. PICK k \in 0 .. Len(m_inputBuf) : Discard(k)
      BY <1>11, ParserStep
    <3>2. /\ m_inputBuf' \in Seq(Characters) /\ Len(m_inputBuf') = Len(m_inputBuf) - k
          /\ \A i \in 1 .. Len(m_inputBuf) - k : m_inputBuf'[i] = m_inputBuf[i + k]
      BY <3>1, DiscardShifts
    <3> QED BY <2>1, <3>2, RestTells DEF TruthInv
  <2>3. Says(heard', reg)
    <3>1. CASE NoLine
      BY <3>1 DEF NoLine, TruthInv
    <3>2. ASSUME NEW k \in 1 .. Len(m_inputBuf), ProcessReadLine(Before(k))
          PROVE  Says(heard', reg)
      <4>1. heard' # heard => Len(Before(k)) = 2 /\ heard' = Before(k)[1].stat
        BY <3>2, BeforeIsFront, LineRead
      <4>2. Len(Before(k)) = k - 1 /\ \A i \in 1 .. k - 1 : Before(k)[i] = m_inputBuf[i]
        BY <3>2, BeforeIsFront
      <4>3. heard' # heard => 1 \in 1 .. Len(m_inputBuf) /\ heard' = m_inputBuf[1].stat
        BY <2>1, <4>1, <4>2
      <4> QED BY <2>1, <4>3 DEF TruthInv, Tells
    <3> QED BY <1>11, <3>1, <3>2, ParserStep
  <2> QED BY <1>11, <2>1, <2>2, <2>3 DEF TruthInv, OpenIsRegistered
<1>12. CASE ResetReturned
  BY <1>12 DEF ResetReturned, Returned, Returns, TruthInv, OpenIsRegistered, Says
<1>13. CASE RegistrationReturned
  <2>1. UNCHANGED <<input, wire, reg>> /\ Says(heard', reg)
    BY <1>13 DEF RegistrationReturned, Returned, Says
  <2>2. status' = Judged(heard)
    BY <1>13 DEF RegistrationReturned
  <2>3. /\ status' = "OK" => reg = "registered"
        /\ status' = "FAILED" => reg = "denied"
    BY <2>2 DEF Judged, TruthInv, Says, Types, Stats
  <2>4. m_atOpen' => m_atOpen \/ status' = "OK"
    BY <1>13 DEF RegistrationReturned
  <2>5. result' = "NET_AUTH" => result = "NET_AUTH" \/ status' = "FAILED"
    BY <1>13 DEF RegistrationReturned, Returns
  <2> QED BY <2>1, <2>3, <2>4, <2>5 DEF TruthInv, OpenIsRegistered
<1>14. CASE ApnReturned
  BY <1>14 DEF ApnReturned, Returned, TruthInv, OpenIsRegistered, Says
<1>15. CASE PppConnect
  <2>1. wire' = <<>> /\ result' # "NET_AUTH"
        /\ UNCHANGED <<input, heard, reg, status, m_atOpen>>
    BY <1>15 DEF PppConnect, Returns
  <2> QED BY <2>1 DEF TruthInv, OpenIsRegistered, Tells
<1>16. CASE ModemReports /\ UNCHANGED <<pc, init, dongle>>
  <2>1. /\ Line("urc", "none", FALSE) \in Seq(Characters)
        /\ Tells(Line("urc", "none", FALSE), reg)
    BY LineType, LineTells DEF Answers, Stats, Says
  <2>2. Tells(wire \o Line("urc", "none", FALSE), reg)
    BY <2>1, ToldTogether DEF TruthInv, Types
  <2>3. wire' = wire \o Line("urc", "none", FALSE) /\ UNCHANGED <<input, heard, reg, init>>
    BY <1>16 DEF ModemReports
  <2> QED BY <2>2, <2>3 DEF TruthInv, OpenIsRegistered
<1>17. CASE ModemRegisters /\ UNCHANGED <<pc, init, dongle>>
  <2>1. reg = "searching" /\ UNCHANGED <<wire, input, heard, init>>
    BY <1>17 DEF ModemRegisters
  <2>2. \A h, r : reg = "searching" /\ Says(h, reg) => Says(h, r)
    BY DEF Says
  <2>3. Tells(wire, reg') /\ Tells(m_inputBuf, reg') /\ Says(heard, reg')
    BY <2>1, <2>2 DEF TruthInv, Tells
  <2> QED BY <2>1, <2>3 DEF TruthInv, OpenIsRegistered
<1>18. CASE Unplug
  <2>1. wire' = <<>> /\ UNCHANGED <<input, heard, reg, init>>
    BY <1>18 DEF Unplug
  <2> QED BY <2>1 DEF TruthInv, OpenIsRegistered, Tells
<1>19. CASE UNCHANGED vars
  BY <1>19 DEF TruthInv, OpenIsRegistered
<1> QED BY <1>1, <1>2, <1>3, <1>4, <1>5, <1>6, <1>7, <1>8, <1>9, <1>10, <1>11, <1>12,
           <1>13, <1>14, <1>15, <1>16, <1>17, <1>18, <1>19, <1>20
        DEF Next, Host, Transaction, Modem

\* The modem is taken for ready, or for denied, only when it said so: nothing
\* that connect, the processor or the parser keeps says otherwise, whatever was
\* cut, late or left over, for every size of the buffers.
THEOREM NetworkSaidSo == Spec => []OpenIsRegistered
<1>1. Init => Types /\ TruthInv
  BY InitTypes, InitTruth
<1>2. Types /\ TruthInv /\ [Next]_vars => Types' /\ TruthInv'
  BY TypesNext, TruthNext
<1>3. TruthInv => OpenIsRegistered
  BY DEF TruthInv
<1> QED BY <1>1, <1>2, <1>3, PTL DEF Spec

-----------------------------------------------------------------------------
(* Whole lines.                                                            *)

\* Within an echo or a line, the next character is there, at the next place.
LEMMA NextPlace ==
  ASSUME NEW s \in Seq(Characters), Adjacent(s), Ends(s[Len(s)]),
         NEW i \in 1 .. Len(s), s[i].place \notin {3, 9}
  PROVE  i + 1 \in 1 .. Len(s) /\ s[i + 1].place = s[i].place + 1
<1>1. i # Len(s)
  BY DEF Ends
<1>2. i \in 1 .. Len(s) - 1
  BY <1>1
<1>3. Follows(s[i], s[i + 1])
  BY <1>2 DEF Adjacent
<1> QED BY <1>2, <1>3 DEF Follows, Ends

\* A sequence that starts a line holds it all.
LEMMA LineIsWhole ==
  ASSUME NEW s \in Seq(Characters), Adjacent(s), Ends(s[Len(s)]),
         Len(s) >= 1, s[1].place = 4
  PROVE  /\ Len(s) >= 6
         /\ s[2].place = 5 /\ s[3].place = 6 /\ s[4].place = 7
         /\ s[5].place = 8 /\ s[6].place = 9
<1>1. 2 \in 1 .. Len(s) /\ s[2].place = 5
  BY NextPlace
<1>2. 3 \in 1 .. Len(s) /\ s[3].place = 6
  BY <1>1, NextPlace
<1>3. 4 \in 1 .. Len(s) /\ s[4].place = 7
  BY <1>2, NextPlace
<1>4. 5 \in 1 .. Len(s) /\ s[5].place = 8
  BY <1>3, NextPlace
<1>5. 6 \in 1 .. Len(s) /\ s[6].place = 9
  BY <1>4, NextPlace
<1> QED BY <1>1, <1>2, <1>3, <1>4, <1>5

\* One that starts an echo holds it all.
LEMMA EchoIsWhole ==
  ASSUME NEW s \in Seq(Characters), Adjacent(s), Ends(s[Len(s)]),
         Len(s) >= 1, s[1].place = 1
  PROVE  Len(s) >= 3 /\ s[2].place = 2 /\ s[3].place = 3
<1>1. 2 \in 1 .. Len(s) /\ s[2].place = 2
  BY NextPlace
<1>2. 3 \in 1 .. Len(s) /\ s[3].place = 3
  BY <1>1, NextPlace
<1> QED BY <1>1, <1>2

\* One that is behind the start of a line holds the rest of it.
LEMMA TextIsWhole ==
  ASSUME NEW s \in Seq(Characters), Adjacent(s), Ends(s[Len(s)]),
         Len(s) >= 1, s[1].place = 6
  PROVE  /\ Len(s) >= 4
         /\ s[2].place = 7 /\ s[3].place = 8 /\ s[4].place = 9
<1>1. 2 \in 1 .. Len(s) /\ s[2].place = 7
  BY NextPlace
<1>2. 3 \in 1 .. Len(s) /\ s[3].place = 8
  BY <1>1, NextPlace
<1>3. 4 \in 1 .. Len(s) /\ s[4].place = 9
  BY <1>2, NextPlace
<1> QED BY <1>1, <1>2, <1>3

\* The first n characters, and what is behind them.
LEMMA FrontAdjacent ==
  ASSUME NEW s \in Seq(Characters), NEW u \in Seq(Characters), NEW n \in 0 .. Len(s),
         Len(u) = n, \A i \in 1 .. n : u[i] = s[i], Adjacent(s)
  PROVE  Adjacent(u)
<1>1. ASSUME NEW i \in 1 .. n - 1
      PROVE  Follows(u[i], u[i + 1])
  <2>1. i \in 1 .. Len(s) - 1 /\ i \in 1 .. n /\ i + 1 \in 1 .. n
    OBVIOUS
  <2>2. Follows(s[i], s[i + 1])
    BY <2>1 DEF Adjacent
  <2> QED BY <2>1, <2>2
<1> QED BY <1>1 DEF Adjacent

LEMMA RestAdjacent ==
  ASSUME NEW s \in Seq(Characters), NEW u \in Seq(Characters), NEW n \in 0 .. Len(s),
         Len(u) = Len(s) - n, \A i \in 1 .. Len(s) - n : u[i] = s[i + n], Adjacent(s)
  PROVE  /\ Adjacent(u)
         /\ Len(u) > 0 => u[Len(u)] = s[Len(s)] /\ u[1] = s[n + 1]
         /\ n > 0 /\ Len(u) > 0 /\ Ends(s[n]) => Starts(u[1])
<1>1. ASSUME NEW i \in 1 .. (Len(s) - n) - 1
      PROVE  Follows(u[i], u[i + 1])
  <2>1. /\ i + n \in 1 .. Len(s) - 1
        /\ i \in 1 .. Len(s) - n /\ i + 1 \in 1 .. Len(s) - n /\ (i + 1) + n = (i + n) + 1
    OBVIOUS
  <2>2. Follows(s[i + n], s[(i + n) + 1])
    BY <2>1 DEF Adjacent
  <2>3. u[i] = s[i + n] /\ u[i + 1] = s[(i + 1) + n]
    BY <2>1
  <2> QED BY <2>1, <2>2, <2>3
<1>2. Adjacent(u)
  BY <1>1 DEF Adjacent
<1>3. Len(u) > 0 => u[Len(u)] = s[Len(s)] /\ u[1] = s[n + 1]
  OBVIOUS
<1>4. ASSUME n > 0, Len(u) > 0, Ends(s[n])
      PROVE  Starts(u[1])
  <2>1. n \in 1 .. Len(s) - 1
    BY <1>4
  <2>2. Follows(s[n], s[n + 1])
    BY <2>1 DEF Adjacent
  <2> QED BY <1>3, <1>4, <2>2 DEF Follows
<1> QED BY <1>2, <1>3, <1>4

\* Whole echoes and lines behind whole echoes and lines.
LEMMA WholeTogether ==
  ASSUME NEW s \in Seq(Characters), NEW t \in Seq(Characters),
         Adjacent(s), Whole(s), Adjacent(t), Whole(t)
  PROVE  Adjacent(s \o t) /\ Whole(s \o t)
<1> DEFINE u == s \o t
<1>1. /\ u \in Seq(Characters) /\ Len(u) = Len(s) + Len(t)
      /\ \A i \in 1 .. Len(s) : u[i] = s[i]
      /\ \A i \in 1 .. Len(t) : u[i + Len(s)] = t[i]
  BY Joined
<1>2. ASSUME Len(s) > 0
      PROVE  Starts(s[1]) /\ Ends(s[Len(s)])
  BY <1>2 DEF Whole
<1>3. ASSUME Len(t) > 0
      PROVE  Starts(t[1]) /\ Ends(t[Len(t)])
  BY <1>3 DEF Whole
<1>4. \A i \in 1 .. Len(t) : i + Len(s) \in 1 .. Len(u)
  BY <1>1
<1> HIDE DEF u
<1>5. ASSUME NEW i \in 1 .. Len(u) - 1
      PROVE  Follows(u[i], u[i + 1])
  <2>1. CASE i < Len(s)
    <3>1. i \in 1 .. Len(s) - 1 /\ i \in 1 .. Len(s) /\ i + 1 \in 1 .. Len(s)
      BY <2>1
    <3> QED BY <1>1, <3>1 DEF Adjacent
  <2>2. CASE i = Len(s)
    <3>1. 1 \in 1 .. Len(t) /\ 1 + Len(s) = i + 1 /\ Len(s) \in 1 .. Len(s)
      BY <1>1, <2>2
    <3>2. u[i] = s[Len(s)] /\ u[i + 1] = t[1]
      BY <1>1, <2>2, <3>1
    <3> QED BY <1>2, <1>3, <3>1, <3>2 DEF Follows
  <2>3. CASE i > Len(s)
    <3>1. PICK k \in 1 .. Len(t) - 1 : i = k + Len(s)
      <4>1. i - Len(s) \in 1 .. Len(t) - 1 /\ i = (i - Len(s)) + Len(s)
        BY <1>1, <2>3
      <4> QED BY <4>1
    <3>2. k \in 1 .. Len(t) /\ k + 1 \in 1 .. Len(t) /\ (k + 1) + Len(s) = i + 1
      BY <3>1
    <3>3. u[i] = t[k] /\ u[i + 1] = t[k + 1]
      BY <1>1, <3>1, <3>2
    <3>4. Follows(t[k], t[k + 1])
      BY <3>1 DEF Adjacent
    <3> QED BY <3>3, <3>4
  <2> QED BY <2>1, <2>2, <2>3
<1>6. ASSUME Len(u) > 0
      PROVE  Starts(u[1]) /\ Ends(u[Len(u)])
  <2>1. Starts(u[1])
    <3>1. CASE Len(s) > 0
      BY <1>1, <1>2, <3>1
    <3>2. CASE Len(s) = 0
      BY <1>1, <1>3, <1>6, <3>2
    <3> QED BY <3>1, <3>2
  <2>2. Ends(u[Len(u)])
    <3>1. CASE Len(t) > 0
      BY <1>1, <1>3, <3>1
    <3>2. CASE Len(t) = 0
      BY <1>1, <1>2, <1>6, <3>2
    <3> QED BY <3>1, <3>2
  <2> QED BY <2>1, <2>2
<1>7. u # <<>> => Len(u) > 0
  BY <1>1
<1>8. Adjacent(u) /\ Whole(u)
  BY <1>5, <1>6, <1>7 DEF Adjacent, Whole
<1> QED BY <1>8 DEF u

\* What the modem sends is whole, and so is what it sent before.
LEMMA EchoWhole ==
  ASSUME NEW c \in Commands
  PROVE  Adjacent(Echo(c)) /\ Whole(Echo(c))
BY DEF Adjacent, Whole, Follows, Starts, Ends, Echo, Mark, Char

LEMMA LineWhole ==
  ASSUME NEW t \in Answers, NEW s \in Stats, NEW b \in BOOLEAN
  PROVE  Adjacent(Line(t, s, b)) /\ Whole(Line(t, s, b))
BY DEF Adjacent, Whole, Follows, Starts, Ends, Line, Mark, Char

LEMMA OlderWhole ==
  ASSUME Types, Adjacent(wire), Whole(wire)
  PROVE  Adjacent(Older) /\ Whole(Older)
<1>1. /\ Older \in Seq(Characters) /\ Len(Older) = Len(wire) /\ wire \in Seq(Characters)
      /\ \A i \in 1 .. Len(wire) : Older[i].place = wire[i].place
  BY OlderType DEF Types
<1>2. ASSUME NEW i \in 1 .. Len(wire) - 1
      PROVE  Follows(Older[i], Older[i + 1])
  <2>1. i \in 1 .. Len(wire) /\ i + 1 \in 1 .. Len(wire)
    OBVIOUS
  <2>2. Follows(wire[i], wire[i + 1])
    BY DEF Adjacent
  <2> QED BY <1>1, <2>1, <2>2 DEF Follows, Starts, Ends
<1>3. Adjacent(Older)
  BY <1>1, <1>2 DEF Adjacent
<1>4. ASSUME Len(wire) > 0
      PROVE  Starts(Older[1]) /\ Ends(Older[Len(wire)])
  <2>1. Starts(wire[1]) /\ Ends(wire[Len(wire)])
    BY <1>4 DEF Whole
  <2>2. 1 \in 1 .. Len(wire) /\ Len(wire) \in 1 .. Len(wire)
    BY <1>1, <1>4
  <2> QED BY <1>1, <2>1, <2>2 DEF Starts, Ends
<1>5. Older # <<>> => Len(wire) > 0
  BY <1>1
<1> QED BY <1>1, <1>3, <1>4, <1>5 DEF Whole

LEMMA WriteWhole ==
  ASSUME Types, Adjacent(wire), Whole(wire), Write
  PROVE  Adjacent(wire') /\ Whole(wire')
<1>1. PICK a \in Seq(Characters) :
        /\ wire' = Older \o Echo(m_transactionCommand) \o a
        /\ \/ a = AnswerLines(m_transactionCommand)
           \/ a = Line("refusal", "none", TRUE)
  BY WriteSends
<1>2. m_transactionCommand \in Commands
  BY DEF Types, Write
<1>3. Older \in Seq(Characters) /\ Adjacent(Older) /\ Whole(Older)
  BY OlderType, OlderWhole DEF Types
<1>4. Adjacent(a) /\ Whole(a)
  <2>1. \A t \in Answers : \A s \in Stats :
          /\ Line(t, s, TRUE) \in Seq(Characters)
          /\ Adjacent(Line(t, s, TRUE)) /\ Whole(Line(t, s, TRUE))
    BY LineType, LineWhole
  <2>2. /\ {"OK", "+CREG", "refusal"} \subseteq Answers /\ "none" \in Stats /\ reg \in Stats
    BY DEF Answers, Stats, Types
  <2>3. /\ Adjacent(Line("+CREG", reg, TRUE) \o Line("OK", "none", TRUE))
        /\ Whole(Line("+CREG", reg, TRUE) \o Line("OK", "none", TRUE))
    BY <2>1, <2>2, WholeTogether
  <2> QED BY <1>1, <2>1, <2>2, <2>3 DEF AnswerLines
<1>5. /\ Echo(m_transactionCommand) \in Seq(Characters)
      /\ Adjacent(Echo(m_transactionCommand)) /\ Whole(Echo(m_transactionCommand))
  BY <1>2, EchoType, EchoWhole
<1>6. /\ Older \o Echo(m_transactionCommand) \in Seq(Characters)
      /\ Adjacent(Older \o Echo(m_transactionCommand))
      /\ Whole(Older \o Echo(m_transactionCommand))
  BY <1>3, <1>5, Joined, WholeTogether
<1> QED BY <1>1, <1>4, <1>6, WholeTogether

\* What is parsed when whole echoes and lines are: nothing, the start of a line,
\* an echo, or the rest of a line.
SeekNothing ==
  /\ m_inputBuf = <<>> /\ at' = "check" /\ NoLine
  /\ m_inputBuf' = <<>> /\ UNCHANGED <<m_inputPos, lineDetected>>
SeekLine ==
  /\ Len(m_inputBuf) >= 6 /\ m_inputBuf[1].place = 4 /\ m_inputBuf[3].place = 6
  /\ m_inputBuf[2].place = 5
  /\ Discard(2) /\ at' = "end" /\ lineDetected' = TRUE /\ NoLine
SeekEcho ==
  /\ Len(m_inputBuf) >= 3 /\ m_inputBuf[1].place = 1
  /\ m_inputBuf[2].place = 2 /\ m_inputBuf[3].place = 3
  /\ Discard(3) /\ at' = "seek" /\ lineDetected' = FALSE /\ ProcessReadLine(Before(3))
EndLine ==
  /\ Len(m_inputBuf) >= 4 /\ m_inputBuf[1].place = 6
  /\ m_inputBuf[2].place = 7 /\ m_inputBuf[3].place = 8 /\ m_inputBuf[4].place = 9
  /\ Discard(4) /\ at' = "seek" /\ lineDetected' = FALSE /\ ProcessReadLine(Before(3))

LEMMA SeekStep ==
  ASSUME Types, at = "seek", PreProcess,
         Adjacent(m_inputBuf), Whole(m_inputBuf), m_inputPos = Len(m_inputBuf)
  PROVE  SeekNothing \/ SeekLine \/ SeekEcho
<1>1. m_inputBuf \in Seq(Characters)
  BY DEF Types
<1>2. \A i \in 1 .. Len(m_inputBuf) : m_inputBuf[i] \in Characters
  BY <1>1
<1>3. StartOfLine \/ LoneCR \/ EchoLine \/ LoneLF \/ NoStart
  BY DEF PreProcess, EndOfLine, BrokenLine, NoEnd, Parse
<1>4. CASE m_inputBuf = <<>>
  <2>1. Len(m_inputBuf) = 0
    BY <1>4
  <2>2. Where("CR") = 0 /\ ~IsAt("LF", 1)
    BY <1>1, <2>1, WhereFinds DEF IsAt
  <2>3. NoStart
    BY <1>3, <2>2 DEF StartOfLine, LoneCR, EchoLine, LoneLF
  <2> QED BY <1>4, <2>3 DEF NoStart, SeekNothing, input
<1>5. CASE m_inputBuf # <<>> /\ m_inputBuf[1].place = 4
  <2>1. Len(m_inputBuf) >= 1 /\ Ends(m_inputBuf[Len(m_inputBuf)])
    BY <1>1, <1>5 DEF Whole
  <2>2. Len(m_inputBuf) >= 6 /\ m_inputBuf[2].place = 5 /\ m_inputBuf[3].place = 6
    BY <1>1, <1>5, <2>1, LineIsWhole
  <2>3. /\ m_inputBuf[1].text = "CR" /\ m_inputBuf[2].text = "LF"
        /\ m_inputBuf[3].text # "CR"
    BY <1>2, <1>5, <2>2 DEF Characters, Answers
  <2>4. Where("CR") = 1
    BY <1>1, <2>2, <2>3, WhereFinds
  <2>5. IsAt("LF", 2) /\ ~IsAt("CR", 3)
    BY <2>2, <2>3 DEF IsAt
  <2>6. StartOfLine
    BY <1>3, <2>2, <2>4, <2>5 DEF LoneCR, EchoLine, LoneLF, NoStart
  <2>7. Discard(2) /\ lineDetected' = TRUE /\ NoLine
    BY <2>5, <2>6 DEF StartOfLine
  <2>8. at' = "end"
    BY <2>6, <2>7 DEF StartOfLine
  <2> QED BY <1>5, <2>2, <2>7, <2>8 DEF SeekLine
<1>6. CASE m_inputBuf # <<>> /\ m_inputBuf[1].place = 1
  <2>1. Len(m_inputBuf) >= 1 /\ Ends(m_inputBuf[Len(m_inputBuf)])
    BY <1>1, <1>6 DEF Whole
  <2>2. Len(m_inputBuf) >= 3 /\ m_inputBuf[2].place = 2 /\ m_inputBuf[3].place = 3
    BY <1>1, <1>6, <2>1, EchoIsWhole
  <2>3. /\ m_inputBuf[1].text # "CR" /\ m_inputBuf[2].text # "CR"
        /\ m_inputBuf[3].text = "CR"
    <3>1. /\ m_inputBuf[1] \in Characters /\ m_inputBuf[2] \in Characters
          /\ m_inputBuf[3] \in Characters
      BY <1>1, <1>2, <2>2
    <3> QED BY <1>6, <2>2, <3>1 DEF Characters, Commands
  <2>4. Where("CR") = 3
    <3>1. Where("CR") \in 1 .. 3 /\ m_inputBuf[Where("CR")].text = "CR"
      BY <1>1, <2>2, <2>3, WhereFinds
    <3> QED BY <2>3, <3>1
  <2>5. ~IsAt("LF", 4)
    <3>1. ASSUME 4 <= Len(m_inputBuf)
          PROVE  m_inputBuf[4].text # "LF"
      <4>1. 3 \in 1 .. Len(m_inputBuf) - 1 /\ 3 + 1 = 4 /\ 4 \in 1 .. Len(m_inputBuf)
        BY <1>1, <3>1
      <4>2. Follows(m_inputBuf[3], m_inputBuf[4])
        BY <4>1 DEF Adjacent
      <4>3. m_inputBuf[4].place \in {1, 4} /\ m_inputBuf[4] \in Characters
        BY <1>2, <2>2, <4>1, <4>2 DEF Follows, Starts, Ends
      <4> QED BY <4>3 DEF Characters, Commands
    <3> QED BY <3>1 DEF IsAt
  <2>6. EchoLine
    BY <1>3, <2>4 DEF StartOfLine, LoneCR, LoneLF, NoStart
  <2>7. ProcessReadLine(Before(3)) /\ Discard(3) /\ at' = "seek" /\ lineDetected' = FALSE
    <3>1. Where("CR") + 1 = 4
      BY <2>4
    <3> QED BY <2>4, <2>5, <2>6, <3>1 DEF EchoLine
  <2> QED BY <1>6, <2>2, <2>7 DEF SeekEcho
<1>7. m_inputBuf # <<>> => m_inputBuf[1].place \in {1, 4}
  BY DEF Whole, Starts
<1> QED BY <1>4, <1>5, <1>6, <1>7

LEMMA EndStep ==
  ASSUME Types, at = "end", PreProcess,
         Adjacent(m_inputBuf), m_inputBuf # <<>>, m_inputBuf[1].place = 6,
         Ends(m_inputBuf[Len(m_inputBuf)]), m_inputPos = Len(m_inputBuf)
  PROVE  EndLine
<1>1. m_inputBuf \in Seq(Characters)
  BY DEF Types
<1>2. \A i \in 1 .. Len(m_inputBuf) : m_inputBuf[i] \in Characters
  BY <1>1
<1>3. EndOfLine \/ BrokenLine \/ NoEnd
  BY DEF PreProcess, StartOfLine, LoneCR, EchoLine, LoneLF, NoStart, Parse
<1>4. /\ Len(m_inputBuf) >= 4
      /\ m_inputBuf[2].place = 7 /\ m_inputBuf[3].place = 8 /\ m_inputBuf[4].place = 9
  BY <1>1, TextIsWhole
<1>5. /\ m_inputBuf[1].text # "CR" /\ m_inputBuf[2].text # "CR"
      /\ m_inputBuf[3].text = "CR" /\ m_inputBuf[4].text = "LF"
  BY <1>2, <1>4 DEF Characters, Answers
<1>6. Where("CR") = 3
  <2>1. Where("CR") \in 1 .. 3 /\ m_inputBuf[Where("CR")].text = "CR"
    BY <1>1, <1>4, <1>5, WhereFinds
  <2> QED BY <1>5, <2>1
<1>7. Where("CR") + 1 = 4 /\ IsAt("LF", 4) /\ Behind(Where("CR")) >= 2
  BY <1>1, <1>4, <1>5, <1>6 DEF IsAt, Behind
<1>8. EndOfLine
  <2>1. Where("CR") # 0 /\ ~(Behind(Where("CR")) < 2)
    BY <1>1, <1>4, <1>6 DEF Behind
  <2> QED BY <1>3, <1>7, <2>1 DEF BrokenLine, NoEnd
<1> QED BY <1>4, <1>6, <1>7, <1>8 DEF EndOfLine, EndLine

\* Such a parser step leaves whole echoes and lines.
LEMMA ParsedWhole ==
  ASSUME Types, BufferWhole, PreProcess
  PROVE  BufferWhole'
<1>1. m_inputBuf \in Seq(Characters) /\ m_inputPos = Len(m_inputBuf) /\ Adjacent(m_inputBuf)
  BY DEF Types, BufferWhole
<1>2. at \in {"seek", "end"}
  BY ParserStep
<1>3. m_inputBuf # <<>> => Ends(m_inputBuf[Len(m_inputBuf)])
  BY <1>2 DEF BufferWhole, Whole
<1>4. ASSUME NEW k \in 0 .. Len(m_inputBuf), Discard(k)
      PROVE  /\ m_inputBuf' \in Seq(Characters) /\ Adjacent(m_inputBuf')
             /\ m_inputPos' = Len(m_inputBuf')
             /\ m_inputBuf' # <<>> => /\ Len(m_inputBuf') > 0
                                      /\ Ends(m_inputBuf'[Len(m_inputBuf')])
                                      /\ m_inputBuf'[1] = m_inputBuf[k + 1]
             /\ k > 0 /\ Ends(m_inputBuf[k]) => Whole(m_inputBuf')
  <2>1. /\ m_inputBuf' \in Seq(Characters) /\ Len(m_inputBuf') = Len(m_inputBuf) - k
        /\ \A i \in 1 .. Len(m_inputBuf) - k : m_inputBuf'[i] = m_inputBuf[i + k]
        /\ m_inputPos' = m_inputPos - k
    BY <1>4, DiscardShifts
  <2>2. /\ Adjacent(m_inputBuf')
        /\ Len(m_inputBuf') > 0 => /\ m_inputBuf'[Len(m_inputBuf')] = m_inputBuf[Len(m_inputBuf)]
                                   /\ m_inputBuf'[1] = m_inputBuf[k + 1]
        /\ k > 0 /\ Len(m_inputBuf') > 0 /\ Ends(m_inputBuf[k]) => Starts(m_inputBuf'[1])
    BY <1>1, <2>1, RestAdjacent
  <2>3. m_inputBuf' # <<>> => Len(m_inputBuf') > 0 /\ m_inputBuf # <<>>
    BY <1>1, <2>1
  <2> QED BY <1>1, <1>3, <2>1, <2>2, <2>3 DEF Whole
<1>5. CASE at = "seek"
  <2>1. SeekNothing \/ SeekLine \/ SeekEcho
    BY <1>1, <1>5, SeekStep DEF BufferWhole
  <2>2. CASE SeekNothing
    BY <1>1, <1>5, <2>2 DEF SeekNothing, BufferWhole, Adjacent
  <2>3. CASE SeekLine
    <3>1. /\ Len(m_inputBuf) >= 6 /\ m_inputBuf[3].place = 6
          /\ Discard(2) /\ at' = "end" /\ lineDetected' = TRUE
      BY <2>3 DEF SeekLine
    <3>2. 2 \in 0 .. Len(m_inputBuf) /\ 2 + 1 = 3
      BY <1>1, <3>1
    <3>3. m_inputBuf' # <<>>
      BY <1>1, <3>1, <3>2, DiscardShifts
    <3> QED BY <1>4, <3>1, <3>2, <3>3 DEF BufferWhole
  <2>4. CASE SeekEcho
    <3>1. /\ Len(m_inputBuf) >= 3 /\ m_inputBuf[3].place = 3
          /\ Discard(3) /\ at' = "seek" /\ lineDetected' = FALSE
      BY <2>4 DEF SeekEcho
    <3>2. 3 \in 0 .. Len(m_inputBuf)
      BY <1>1, <3>1
    <3> QED BY <1>4, <3>1, <3>2 DEF BufferWhole, Ends
  <2> QED BY <2>1, <2>2, <2>3, <2>4
<1>6. CASE at = "end"
  <2>1. EndLine
    BY <1>1, <1>6, EndStep DEF BufferWhole
  <2>2. /\ Len(m_inputBuf) >= 4 /\ m_inputBuf[4].place = 9
        /\ Discard(4) /\ at' = "seek" /\ lineDetected' = FALSE
    BY <2>1 DEF EndLine
  <2>3. 4 \in 0 .. Len(m_inputBuf)
    BY <1>1, <2>2
  <2> QED BY <1>4, <2>2, <2>3 DEF BufferWhole, Ends
<1> QED BY <1>2, <1>5, <1>6

\* A transfer that is not cut brings whole echoes and lines, and leaves such.
LEMMA ReadWhole ==
  ASSUME Types, WholeInv, Read, splits' = 0
  PROVE  /\ splits = 0 /\ lineDetected = FALSE /\ m_inputBuf = <<>>
         /\ \E n \in 1 .. Len(wire) :
              /\ Ends(wire[n])
              /\ m_inputBuf' = SubSeq(wire, 1, n) /\ wire' = SubSeq(wire, n + 1, Len(wire))
         /\ m_inputBuf' # <<>> /\ m_inputPos' = Len(m_inputBuf')
         /\ Adjacent(m_inputBuf') /\ Whole(m_inputBuf') /\ Adjacent(wire') /\ Whole(wire')
<1>1. PICK n \in 1 .. EndpointSize :
        /\ n <= Len(wire)
        /\ m_inputBuf' = SubSeq(wire, 1, n) /\ m_inputPos' = m_inputPos + n
        /\ wire' = SubSeq(wire, n + 1, Len(wire))
        /\ IF Ends(wire[n]) THEN UNCHANGED splits
                            ELSE MayFail /\ splits' = splits + 1
  BY DEF Read
<1>2. splits \in Nat /\ wire \in Seq(Characters) /\ n \in 0 .. Len(wire) /\ n \in 1 .. Len(wire)
  BY <1>1 DEF Types
<1>3. splits = 0 /\ Ends(wire[n])
  BY <1>1, <1>2
<1>4. /\ Adjacent(wire) /\ Whole(wire) /\ ~lineDetected /\ m_inputPos = 0 /\ m_inputBuf = <<>>
  BY <1>3 DEF WholeInv, BufferWhole, Read
<1>5. /\ m_inputBuf' \in Seq(Characters) /\ Len(m_inputBuf') = n
      /\ \A i \in 1 .. n : m_inputBuf'[i] = wire[i]
  BY <1>1, <1>2, Front
<1>6. Adjacent(m_inputBuf') /\ m_inputBuf' # <<>> /\ m_inputPos' = Len(m_inputBuf')
  <2>1. Adjacent(m_inputBuf')
    BY <1>2, <1>4, <1>5, FrontAdjacent
  <2>2. m_inputPos' = 0 + n
    BY <1>1, <1>4
  <2> QED BY <1>2, <1>5, <2>1, <2>2
<1>7. Whole(m_inputBuf')
  <2>1. Starts(wire[1])
    BY <1>2, <1>4 DEF Whole
  <2> QED BY <1>2, <1>3, <1>5, <2>1 DEF Whole
<1>8. /\ wire' \in Seq(Characters) /\ Len(wire') = Len(wire) - n
      /\ \A i \in 1 .. Len(wire) - n : wire'[i] = wire[i + n]
  BY <1>1, <1>2, Rest
<1>9. /\ Adjacent(wire')
      /\ Len(wire') > 0 => wire'[Len(wire')] = wire[Len(wire)]
      /\ Len(wire') > 0 => Starts(wire'[1])
  BY <1>2, <1>3, <1>4, <1>8, RestAdjacent
<1>10. Whole(wire')
  BY <1>2, <1>4, <1>8, <1>9 DEF Whole
<1>11. lineDetected = FALSE
  BY <1>4 DEF Types
<1> QED BY <1>1, <1>2, <1>3, <1>4, <1>6, <1>7, <1>9, <1>10, <1>11

\* WholeInv is inductive.
LEMMA InitWhole == Init => WholeInv
BY DEF Init, AtInit, WholeInv, BufferWhole, Adjacent, Whole

LEMMA WholeNext == Types /\ WholeInv /\ [Next]_vars => WholeInv'
<1> SUFFICES ASSUME Types, WholeInv, [Next]_vars, splits' = 0
             PROVE  Adjacent(wire') /\ Whole(wire') /\ BufferWhole'
  BY DEF WholeInv
<1> USE DEF atVars, transaction, input, modem, counts, init, vars
<1> DEFINE Same == UNCHANGED <<m_inputBuf, m_inputPos, lineDetected, splits>>
<1>0. ASSUME Same, at \notin {"seek", "end"}, at' \notin {"seek", "end"}
      PROVE  Adjacent(wire) /\ Whole(wire) /\ BufferWhole'
  BY <1>0 DEF WholeInv, BufferWhole
<1>1. CASE Connect \/ InitDongle \/ DongleConnected \/ TryConnect
  BY <1>1 DEF Connect, InitDongle, DongleConnected, TryConnect, WholeInv, BufferWhole
<1>2. CASE Command
  <2>1. at = "rest" /\ at' = "write" /\ Same /\ UNCHANGED wire
    BY <1>2 DEF Command, Execute
  <2> QED BY <1>0, <2>1
<1>3. CASE dongle = "found" /\ Write /\ UNCHANGED <<pc, init, dongle>>
  <2>1. at = "write" /\ at' = "read" /\ Same
    BY <1>3 DEF Write
  <2>2. Adjacent(wire) /\ Whole(wire) /\ BufferWhole'
    BY <1>0, <2>1
  <2> QED BY <1>3, <2>2, WriteWhole
<1>4. CASE dongle = "found" /\ Read /\ UNCHANGED <<pc, init, dongle>>
  <2>1. /\ lineDetected = FALSE /\ m_inputPos' = Len(m_inputBuf')
        /\ Adjacent(m_inputBuf') /\ Whole(m_inputBuf') /\ Adjacent(wire') /\ Whole(wire')
    BY <1>4, ReadWhole
  <2>2. at' = "seek" /\ lineDetected' = FALSE
    BY <1>4, <2>1 DEF Read
  <2> QED BY <2>1, <2>2 DEF BufferWhole
<1>5. CASE (WriteFails(dongle = "found") \/ ReadFails \/ (dongle = "found" /\ ReadEmpty))
           /\ UNCHANGED <<pc, init, dongle>>
  <2>1. at \in {"write", "read"} /\ at' \in {"done", "check"} /\ Same /\ UNCHANGED wire
    BY <1>5 DEF WriteFails, ReadFails, ReadEmpty
  <2> QED BY <1>0, <2>1
<1>6. CASE CheckLoop /\ UNCHANGED <<pc, init, dongle>>
  <2>1. splits = 0 /\ at = "check" /\ UNCHANGED wire
    BY <1>6 DEF CheckLoop
  <2>2. Adjacent(wire) /\ Whole(wire) /\ m_inputPos = 0 /\ ~lineDetected
    BY <2>1 DEF WholeInv, BufferWhole
  <2>3. m_inputBuf' = <<>> /\ m_inputPos' = 0 /\ ~lineDetected' /\ at' \in {"read", "done"}
    BY <1>6, <2>2 DEF CheckLoop
  <2> QED BY <2>1, <2>2, <2>3 DEF BufferWhole, Adjacent
<1>7. CASE PreProcess /\ UNCHANGED <<pc, init, dongle>>
  <2>1. UNCHANGED <<wire, splits>>
    BY <1>7, ParserStep
  <2>2. Adjacent(wire) /\ Whole(wire) /\ BufferWhole
    BY <2>1 DEF WholeInv
  <2> QED BY <1>7, <2>1, <2>2, ParsedWhole
<1>8. CASE ResetReturned \/ RegistrationReturned \/ ApnReturned
  <2>1. at = "done" /\ at' = "rest" /\ Same /\ UNCHANGED wire
    BY <1>8 DEF ResetReturned, RegistrationReturned, ApnReturned, Returned
  <2> QED BY <1>0, <2>1
<1>9. CASE PppConnect \/ Unplug
  <2>1. wire' = <<>> /\ UNCHANGED at /\ Same
    BY <1>9 DEF PppConnect, Unplug
  <2>2. BufferWhole'
    BY <2>1 DEF WholeInv, BufferWhole
  <2> QED BY <2>1, <2>2 DEF Adjacent, Whole
<1>10. CASE ModemReports /\ UNCHANGED <<pc, init, dongle>>
  <2>1. /\ wire' = wire \o Line("urc", "none", FALSE) /\ UNCHANGED at /\ Same
    BY <1>10 DEF ModemReports
  <2>2. Adjacent(wire) /\ Whole(wire) /\ BufferWhole' /\ wire \in Seq(Characters)
    BY <2>1 DEF WholeInv, BufferWhole, Types
  <2>3. /\ Line("urc", "none", FALSE) \in Seq(Characters)
        /\ Adjacent(Line("urc", "none", FALSE)) /\ Whole(Line("urc", "none", FALSE))
    BY LineType, LineWhole DEF Answers, Stats
  <2> QED BY <2>1, <2>2, <2>3, WholeTogether
<1>11. CASE (ModemRegisters /\ UNCHANGED <<pc, init, dongle>>) \/ UNCHANGED vars
  BY <1>11 DEF ModemRegisters, WholeInv, BufferWhole
<1> QED BY <1>1, <1>2, <1>3, <1>4, <1>5, <1>6, <1>7, <1>8, <1>9, <1>10, <1>11
        DEF Next, Host, Transaction, Modem

\* As long as transfers end with a line, the fill pointer is where the data ends
\* whenever a line is looked for, and a read starts at the front of the buffer:
\* for every size of the endpoint, and however many lines a transfer brings.
THEOREM PointerIsWhole == Spec => []FillPointerWhole
<1>1. Init => Types /\ WholeInv
  BY InitTypes, InitWhole
<1>2. Types /\ WholeInv /\ [Next]_vars => Types' /\ WholeInv'
  BY TypesNext, WholeNext
<1>3. WholeInv => FillPointerWhole
  BY DEF WholeInv, BufferWhole, FillPointerWhole
<1> QED BY <1>1, <1>2, <1>3, PTL DEF Spec

\* What is in the buffer came with one transfer.
OneTransfer == Len(m_inputBuf) <= EndpointSize

LEMMA OneTransferNext ==
  ASSUME Types, OneTransfer, [Next]_vars
  PROVE  OneTransfer'
<1> USE DEF atVars, transaction, input, modem, counts, init, vars
<1>1. CASE dongle = "found" /\ Read
  <2>1. PICK n \in 1 .. EndpointSize : n <= Len(wire) /\ m_inputBuf' = SubSeq(wire, 1, n)
    BY <1>1 DEF Read
  <2>2. wire \in Seq(Characters) /\ n \in 0 .. Len(wire)
    BY <2>1, AtAssumption DEF Types
  <2>3. Len(m_inputBuf') = n
    BY <2>1, <2>2, Front
  <2> QED BY <2>1, <2>3, AtAssumption DEF OneTransfer
<1>2. CASE PreProcess
  <2>1. PICK k \in 0 .. Len(m_inputBuf) : Discard(k)
    BY <1>2, ParserStep
  <2>2. Len(m_inputBuf') = Len(m_inputBuf) - k /\ Len(m_inputBuf) \in Nat
    BY <2>1, DiscardShifts DEF Types
  <2> QED BY <2>1, <2>2, AtAssumption DEF OneTransfer
<1>3. CASE CheckLoop
  BY <1>3, AtAssumption DEF CheckLoop, OneTransfer
<1>4. CASE UNCHANGED m_inputBuf
  BY <1>4 DEF OneTransfer
<1>5. [Next]_vars => \/ dongle = "found" /\ Read
                     \/ PreProcess \/ CheckLoop \/ UNCHANGED m_inputBuf
  BY DEF Next, Host, Transaction, Modem, Connect, InitDongle, DongleConnected, TryConnect,
     Command, Execute, Write, WriteFails, ReadEmpty, ReadFails, ResetReturned, RegistrationReturned,
     ApnReturned, Returned, PppConnect, Unplug, ModemReports, ModemRegisters
<1> QED BY <1>1, <1>2, <1>3, <1>4, <1>5

\* Every variable stays in its range, and the fill pointer inside any buffer
\* that is larger than a transfer as long as none was cut.
THEOREM RangesKept == Spec => []TypeOK
<1>1. Init => Types /\ WholeInv /\ OneTransfer
  BY InitTypes, InitWhole, AtAssumption DEF Init, AtInit, OneTransfer
<1>2. Types /\ WholeInv /\ OneTransfer /\ [Next]_vars => Types' /\ WholeInv' /\ OneTransfer'
  BY TypesNext, WholeNext, OneTransferNext
<1>3. Types /\ WholeInv /\ OneTransfer => TypeOK
  <2> SUFFICES ASSUME Types, WholeInv, OneTransfer
               PROVE  TypeOK
    OBVIOUS
  <2>1. ASSUME splits = 0
        PROVE  m_inputPos < BufSize
    <3>1. m_inputPos = Len(m_inputBuf)
      BY <2>1 DEF WholeInv, BufferWhole
    <3> QED BY <3>1, AtAssumption DEF OneTransfer, Types
  <2> QED BY <2>1 DEF Types, TypeOK, Stats
<1> QED BY <1>1, <1>2, <1>3, PTL DEF Spec

-----------------------------------------------------------------------------
(* The command's own answer.                                               *)

\* Cat hides how two sequences are joined from proofs that need only this.
Cat(s, t) == s \o t

LEMMA Together ==
  ASSUME NEW s \in Seq(Characters), NEW t \in Seq(Characters)
  PROVE  /\ Cat(s, t) \in Seq(Characters) /\ Len(Cat(s, t)) = Len(s) + Len(t)
         /\ \A i \in 1 .. Len(s) : Cat(s, t)[i] = s[i]
         /\ \A i \in 1 .. Len(t) : Cat(s, t)[i + Len(s)] = t[i]
BY Joined DEF Cat

LEMMA StreamType ==
  ASSUME Types
  PROVE  /\ Stream \in Seq(Characters) /\ Len(Stream) = InHand + Len(wire) /\ InHand \in Nat
         /\ \A i \in 1 .. InHand : Stream[i] = m_inputBuf[i]
         /\ \A i \in 1 .. Len(wire) : Stream[i + InHand] = wire[i]
         /\ m_inputBuf = <<>> => Stream = wire /\ InHand = 0
<1>1. m_inputBuf \in Seq(Characters) /\ wire \in Seq(Characters)
  BY DEF Types
<1>2. Stream = Cat(m_inputBuf, wire)
  BY DEF Stream, Cat
<1>3. m_inputBuf = <<>> => Stream = wire /\ InHand = 0
  BY <1>1 DEF Stream, InHand
<1>4. InHand \in Nat
  BY <1>1 DEF InHand
<1> QED BY <1>1, <1>2, <1>3, <1>4, Together DEF InHand

\* The same after a step.
LEMMA StreamTypeAfter ==
  ASSUME m_inputBuf' \in Seq(Characters), wire' \in Seq(Characters)
  PROVE  /\ Stream' \in Seq(Characters) /\ Len(Stream') = InHand' + Len(wire') /\ InHand' \in Nat
         /\ \A i \in 1 .. InHand' : Stream'[i] = m_inputBuf'[i]
         /\ \A i \in 1 .. Len(wire') : Stream'[i + InHand'] = wire'[i]
         /\ m_inputBuf' = <<>> => Stream' = wire' /\ InHand' = 0
<1>2. Stream' = Cat(m_inputBuf', wire')
  BY DEF Stream, Cat
<1>3. m_inputBuf' = <<>> => Stream' = wire' /\ InHand' = 0
  BY DEF Stream, InHand
<1>4. InHand' \in Nat
  BY DEF InHand
<1> QED BY <1>2, <1>3, <1>4, Together DEF InHand

\* A step of the parser takes what it discards from the front of the stream.
LEMMA StreamMoves ==
  ASSUME Types, NEW k \in 0 .. Len(m_inputBuf), Discard(k), UNCHANGED wire
  PROVE  /\ InHand' = InHand - k /\ InHand' \in Nat
         /\ Len(Stream') = Len(Stream) - k /\ Len(Stream') \in Nat
         /\ \A i \in 1 .. Len(Stream) - k : Stream'[i] = Stream[i + k]
<1>1. m_inputBuf \in Seq(Characters) /\ wire \in Seq(Characters)
  BY DEF Types
<1>2. /\ m_inputBuf' \in Seq(Characters) /\ Len(m_inputBuf') = Len(m_inputBuf) - k
      /\ \A i \in 1 .. Len(m_inputBuf) - k : m_inputBuf'[i] = m_inputBuf[i + k]
  BY DiscardShifts
<1>3. /\ Len(Stream) = Len(m_inputBuf) + Len(wire)
      /\ \A i \in 1 .. Len(m_inputBuf) : Stream[i] = m_inputBuf[i]
      /\ \A i \in 1 .. Len(wire) : Stream[i + Len(m_inputBuf)] = wire[i]
  BY StreamType DEF InHand
<1>5. /\ Len(Stream') = Len(m_inputBuf') + Len(wire)
      /\ \A i \in 1 .. Len(m_inputBuf') : Stream'[i] = m_inputBuf'[i]
      /\ \A i \in 1 .. Len(wire) : Stream'[i + Len(m_inputBuf')] = wire[i]
  BY <1>1, <1>2, StreamTypeAfter DEF InHand
<1>6. ASSUME NEW i \in 1 .. Len(Stream) - k
      PROVE  Stream'[i] = Stream[i + k]
  <2>1. CASE i <= Len(m_inputBuf')
    <3>1. i \in 1 .. Len(m_inputBuf') /\ i + k \in 1 .. Len(m_inputBuf)
      BY <1>1, <1>2, <2>1
    <3> QED BY <1>2, <1>3, <1>5, <3>1
  <2>2. CASE i > Len(m_inputBuf')
    <3>1. PICK j \in 1 .. Len(wire) : i = j + Len(m_inputBuf')
      <4>1. /\ i - Len(m_inputBuf') \in 1 .. Len(wire)
            /\ i = (i - Len(m_inputBuf')) + Len(m_inputBuf')
        BY <1>1, <1>2, <1>3, <2>2
      <4> QED BY <4>1
    <3>2. i + k = j + Len(m_inputBuf)
      BY <1>1, <1>2, <3>1
    <3> QED BY <1>3, <1>5, <3>1, <3>2
  <2> QED BY <1>1, <1>2, <2>1, <2>2
<1> QED BY <1>1, <1>2, <1>3, <1>5, <1>6 DEF InHand

\* What is behind the first k characters: the echo comes k sooner.
LEMMA EchoMoves ==
  ASSUME Types, NEW k \in 0 .. Len(m_inputBuf), Discard(k), UNCHANGED wire,
         UNCHANGED m_transactionCommand, NEW p \in 1 .. Len(Stream), EchoAt(p), p > k
  PROVE  p - k \in 1 .. Len(Stream') /\ EchoAt(p - k)'
<1>1. /\ Len(Stream') = Len(Stream) - k /\ Len(Stream) \in Nat
      /\ \A i \in 1 .. Len(Stream) - k : Stream'[i] = Stream[i + k]
  BY StreamMoves, StreamType
<1> DEFINE q == p - k
<1>2. q \in Nat /\ q + k = p /\ q >= 1
  OBVIOUS
<1>3. p + 8 <= Len(Stream) /\ Len(Stream) <= p + 14
  BY DEF EchoAt
<1>4. q + 8 <= Len(Stream') /\ Len(Stream') <= q + 14
  BY <1>1, <1>2, <1>3
<1>5. /\ q \in 1 .. Len(Stream) - k /\ q + 5 \in 1 .. Len(Stream) - k
      /\ (q + 5) + k = p + 5
  BY <1>1, <1>2, <1>3
<1>6. Stream'[q] = Stream[p] /\ Stream'[q + 5] = Stream[p + 5]
  BY <1>1, <1>2, <1>5
<1>7. ASSUME NEW i \in 1 .. Len(Stream'), i \notin q .. q + 2
      PROVE  Stream'[i].place >= 4
  <2>1. i + k \in 1 .. Len(Stream) /\ i + k \notin p .. p + 2 /\ i \in 1 .. Len(Stream) - k
    BY <1>1, <1>2, <1>7
  <2>2. Stream[i + k].place >= 4
    BY <2>1 DEF EchoAt
  <2> QED BY <1>1, <2>1, <2>2
<1>8. EchoAt(q)'
  BY <1>4, <1>6, <1>7 DEF EchoAt
<1> QED BY <1>1, <1>5, <1>8

\* Lines stay lines.
LEMMA LinesMove ==
  ASSUME Types, NEW k \in 0 .. Len(m_inputBuf), Discard(k), UNCHANGED wire, OnlyLines(Stream)
  PROVE  OnlyLines(Stream')
<1>1. /\ Len(Stream') = Len(Stream) - k /\ Len(Stream) \in Nat
      /\ \A i \in 1 .. Len(Stream) - k : Stream'[i] = Stream[i + k]
  BY StreamMoves, StreamType
<1>2. ASSUME NEW i \in 1 .. Len(Stream')
      PROVE  Stream'[i].place >= 4
  <2>1. i + k \in 1 .. Len(Stream) /\ i \in 1 .. Len(Stream) - k
    BY <1>1
  <2> QED BY <1>1, <2>1 DEF OnlyLines
<1> QED BY <1>2 DEF OnlyLines

\* The answer starts with a line of its own.
LEMMA AnswerOwn ==
  ASSUME Types, NEW c \in Commands, NEW a,
         a = AnswerLines(c) \/ a = Line("refusal", "none", TRUE)
  PROVE  /\ a \in Seq(Characters) /\ Len(a) \in {6, 12} /\ OnlyLines(a)
         /\ a[3].place = 6 /\ a[3].now
<1>1. \A t \in Answers : \A s \in Stats :
        /\ Line(t, s, TRUE) \in Seq(Characters) /\ Len(Line(t, s, TRUE)) = 6
  BY LineType
<1>2. ASSUME NEW t, NEW s
      PROVE  /\ OnlyLines(Line(t, s, TRUE))
             /\ Line(t, s, TRUE)[3].place = 6 /\ Line(t, s, TRUE)[3].now
  BY DEF OnlyLines, Line, Mark, Char
<1>3. {"OK", "+CREG", "refusal"} \subseteq Answers /\ "none" \in Stats /\ reg \in Stats
  BY DEF Answers, Stats, Types
<1>4. CASE a = Line("refusal", "none", TRUE) \/ a = Line("OK", "none", TRUE)
  BY <1>1, <1>2, <1>3, <1>4
<1>5. CASE a = Cat(Line("+CREG", reg, TRUE), Line("OK", "none", TRUE))
  <2> DEFINE s == Line("+CREG", reg, TRUE)
             t == Line("OK", "none", TRUE)
  <2>1. /\ s \in Seq(Characters) /\ t \in Seq(Characters) /\ Len(s) = 6 /\ Len(t) = 6
        /\ OnlyLines(s) /\ OnlyLines(t) /\ s[3].place = 6 /\ s[3].now
    BY <1>1, <1>2, <1>3
  <2>2. a = Cat(s, t)
    BY <1>5
  <2> HIDE DEF s, t
  <2>3. /\ a \in Seq(Characters) /\ Len(a) = Len(s) + Len(t)
        /\ \A i \in 1 .. Len(s) : a[i] = s[i]
        /\ \A i \in 1 .. Len(t) : a[i + Len(s)] = t[i]
    <3>1. /\ Cat(s, t) \in Seq(Characters) /\ Len(Cat(s, t)) = Len(s) + Len(t)
          /\ \A i \in 1 .. Len(s) : Cat(s, t)[i] = s[i]
          /\ \A i \in 1 .. Len(t) : Cat(s, t)[i + Len(s)] = t[i]
      BY <2>1, Together
    <3> QED BY Zenon, <2>2, <3>1
  <2>4. Len(a) = 12 /\ a[3] = s[3]
    BY <2>1, <2>3
  <2>5. ASSUME NEW i \in 1 .. 12
        PROVE  a[i].place >= 4
    <3>1. CASE i <= 6
      BY <2>1, <2>3, <3>1 DEF OnlyLines
    <3>2. CASE i > 6
      <4>1. i - 6 \in 1 .. 6 /\ (i - 6) + 6 = i
        BY <3>2
      <4>2. a[i] = t[i - 6]
        BY <2>1, <2>3, <4>1
      <4> QED BY <2>1, <4>1, <4>2 DEF OnlyLines
    <3> QED BY <3>1, <3>2
  <2> QED BY <2>1, <2>3, <2>4, <2>5 DEF OnlyLines
<1>6. \/ a = Line("refusal", "none", TRUE) \/ a = Line("OK", "none", TRUE)
      \/ a = Cat(Line("+CREG", reg, TRUE), Line("OK", "none", TRUE))
  BY DEF AnswerLines, Cat
<1> QED BY <1>4, <1>5, <1>6

\* A command is written behind lines only, and the reads reach its answer.
LEMMA WriteAhead ==
  ASSUME Types, Write, OnlyLines(wire), Len(wire) <= 6 * (1 + noise), noise + 3 <= Reads
  PROVE  EchoAhead'
<1>1. PICK a \in Seq(Characters) :
        /\ wire' = Cat(Cat(Older, Echo(m_transactionCommand)), a)
        /\ \/ a = AnswerLines(m_transactionCommand)
           \/ a = Line("refusal", "none", TRUE)
  BY WriteSends DEF Cat
<1>2. /\ m_transactionCommand \in Commands /\ m_inputBuf = <<>> /\ wire \in Seq(Characters)
      /\ m_inputBuf' = <<>> /\ UNCHANGED m_transactionCommand
      /\ m_transactionState' = "COMMAND_SENT" /\ at' = "read" /\ tries' = Reads - 1
  BY DEF Types, Write, input
<1>0. PICK n \in Nat : n = Len(wire)
  BY <1>2
<1> DEFINE e == Echo(m_transactionCommand)
           u == Cat(Older, e)
<1>3. /\ Older \in Seq(Characters) /\ Len(Older) = n /\ n \in Nat
      /\ \A i \in 1 .. n : Older[i].place >= 4
  BY <1>0, <1>2, OlderType DEF OnlyLines
<1>4. /\ a \in Seq(Characters) /\ Len(a) \in {6, 12} /\ OnlyLines(a)
      /\ a[3].place = 6 /\ a[3].now
  BY <1>1, <1>2, AnswerOwn
<1>5. /\ e \in Seq(Characters) /\ Len(e) = 3
      /\ e[1].place = 1 /\ e[1].text = m_transactionCommand
  BY <1>2, EchoType DEF Echo, Mark, Char
<1>6. wire' = Cat(u, a)
  BY <1>1
<1>7. n <= 6 * (1 + noise) /\ noise \in Nat /\ Reads \in Nat
  BY <1>0, AtAssumption DEF Types
<1> HIDE DEF e
<1>8. /\ u \in Seq(Characters) /\ Len(u) = n + 3
      /\ \A i \in 1 .. n : u[i].place >= 4
      /\ u[1 + n].place = 1 /\ u[1 + n].text = m_transactionCommand
  <2>1. /\ u \in Seq(Characters) /\ Len(u) = Len(Older) + Len(e)
        /\ \A i \in 1 .. Len(Older) : u[i] = Older[i]
        /\ \A i \in 1 .. Len(e) : u[i + Len(Older)] = e[i]
    BY <1>3, <1>5, Together
  <2> QED BY <1>3, <1>5, <2>1
<1> HIDE DEF u
<1>9. /\ wire' \in Seq(Characters) /\ Len(wire') = Len(u) + Len(a)
      /\ \A i \in 1 .. Len(u) : wire'[i] = u[i]
      /\ \A i \in 1 .. Len(a) : wire'[i + Len(u)] = a[i]
  <2>1. /\ Cat(u, a) \in Seq(Characters) /\ Len(Cat(u, a)) = Len(u) + Len(a)
        /\ \A i \in 1 .. Len(u) : Cat(u, a)[i] = u[i]
        /\ \A i \in 1 .. Len(a) : Cat(u, a)[i + Len(u)] = a[i]
    <3>1. a \in Seq(Characters) /\ u \in Seq(Characters)
      BY <1>4, <1>8
    <3> QED BY ONLY <3>1, Together
  <2> QED BY Zenon, <1>6, <2>1
<1>10. Stream' = wire' /\ InHand' = 0
  BY <1>2, <1>9, StreamTypeAfter
<1>11. PICK m \in {6, 12} : Len(a) = m /\ Len(wire') = n + 3 + m
  BY <1>3, <1>4, <1>8, <1>9
<1>12. wire'[1 + n] = u[1 + n] /\ wire'[(1 + n) + 5] = a[3]
  <2>1. 1 + n \in 1 .. Len(u) /\ 3 \in 1 .. Len(a) /\ 3 + Len(u) = (1 + n) + 5
    BY <1>3, <1>4, <1>8
  <2> QED BY <1>9, <2>1
<1>13. ASSUME NEW i \in 1 .. Len(wire'), i \notin 1 + n .. (1 + n) + 2
       PROVE  wire'[i].place >= 4
  <2>1. CASE i <= n
    <3>1. i \in 1 .. n /\ i \in 1 .. Len(u)
      BY <1>3, <1>8, <2>1
    <3> QED BY <1>8, <1>9, <3>1
  <2>2. CASE i > n
    <3>1. i - (n + 3) \in 1 .. Len(a) /\ (i - (n + 3)) + Len(u) = i
      BY <1>3, <1>4, <1>8, <1>11, <1>13, <2>2
    <3>2. wire'[i] = a[i - (n + 3)]
      BY <1>9, <3>1
    <3> QED BY <1>4, <3>1, <3>2 DEF OnlyLines
  <2> QED BY <1>3, <2>1, <2>2
<1>14. EchoAt(1 + n)'
  <2>1. (1 + n) + 8 <= Len(wire') /\ Len(wire') <= (1 + n) + 14
    BY <1>11
  <2>2. /\ wire'[1 + n].place = 1 /\ wire'[1 + n].text = m_transactionCommand'
        /\ wire'[(1 + n) + 5].place = 6 /\ wire'[(1 + n) + 5].now
    BY <1>2, <1>4, <1>8, <1>12
  <2> QED BY <1>10, <1>13, <2>1, <2>2 DEF EchoAt
<1>15. ReadsLeft(1 + n)'
  <2>1. (1 + n) - 1 <= 6 * ((2 + noise) - 1)
    BY <1>3, <1>7
  <2>2. at' = "read" /\ Usable' = 2 + noise
    BY <1>2, <1>7 DEF Write, Usable
  <2> QED BY <2>1, <2>2 DEF ReadsLeft
<1>16. 1 + n \in 1 .. Len(Stream')
  BY <1>3, <1>4, <1>10, <1>11
<1>17. m_transactionState' = "COMMAND_SENT"
  BY <1>2
<1> QED BY <1>14, <1>15, <1>16, <1>17 DEF EchoAhead

\* The text before a CR in the third place.
LEMMA TextBefore ==
  ASSUME Types, Len(m_inputBuf) >= 3
  PROVE  /\ Len(Before(3)) = 2 /\ Before(3)[1] = m_inputBuf[1]
         /\ m_inputBuf[1] \in Characters
<1>1. 3 \in 1 .. Len(m_inputBuf) /\ 1 \in 1 .. 3 - 1 /\ 3 - 1 = 2 /\ 1 \in 1 .. Len(m_inputBuf)
  BY DEF Types
<1>2. Len(Before(3)) = 3 - 1 /\ \A i \in 1 .. 3 - 1 : Before(3)[i] = m_inputBuf[i]
  BY <1>1, BeforeIsFront
<1>3. m_inputBuf[1] \in Characters
  BY <1>1 DEF Types
<1> QED BY <1>1, <1>2, <1>3

\* The parser's steps lead from the echo to the answer, and from there on.
LEMMA EchoParsed ==
  ASSUME Types, BufferWhole, PreProcess, EchoAhead
  PROVE  EchoAhead' \/ AnswerAhead'
<1>1. /\ m_inputBuf \in Seq(Characters) /\ m_inputPos = Len(m_inputBuf) /\ Adjacent(m_inputBuf)
      /\ m_transactionCommand \in Commands /\ Usable \in Int
  BY ParserStep, AtAssumption DEF Types, BufferWhole, Usable
<1>2. /\ at \in {"seek", "end"} /\ at' \in {"seek", "end", "check"}
      /\ UNCHANGED <<wire, Usable, m_transactionCommand>>
  BY ParserStep DEF modem, counts, Usable
<1>3. PICK p \in 1 .. Len(Stream) : EchoAt(p) /\ ReadsLeft(p)
  BY DEF EchoAhead
<1>4. m_transactionState = "COMMAND_SENT"
  BY DEF EchoAhead
<1>5. /\ Len(Stream) \in Nat /\ InHand \in Nat /\ InHand = Len(m_inputBuf)
      /\ Len(Stream) = InHand + Len(wire) /\ Len(wire) \in Nat
      /\ \A i \in 1 .. InHand : Stream[i] = m_inputBuf[i]
  BY StreamType DEF InHand, Types
<1>6. /\ p > InHand => p - 1 - InHand <= 6 * (Usable - 2)
      /\ p <= InHand => Usable >= 1
  BY <1>2, <1>3, <1>5 DEF ReadsLeft
<1>7. ASSUME NEW k \in 0 .. Len(m_inputBuf), Discard(k), p > k, m_transactionState' = "COMMAND_SENT"
      PROVE  EchoAhead'
  <2>1. p - k \in 1 .. Len(Stream') /\ EchoAt(p - k)'
    BY <1>2, <1>3, <1>7, EchoMoves
  <2>2. InHand' = InHand - k /\ InHand' \in Nat
    BY <1>2, <1>7, StreamMoves
  <2>3. /\ p - k > InHand' => (p - k) - 1 - InHand' <= 6 * (Usable' - 2)
        /\ p - k <= InHand' => Usable' >= 1
    BY <1>1, <1>2, <1>5, <1>6, <2>2
  <2>4. ReadsLeft(p - k)'
    BY <1>1, <1>2, <1>3, <2>2, <2>3 DEF ReadsLeft
  <2> QED BY <1>7, <2>1, <2>4 DEF EchoAhead
<1>8. CASE at = "seek"
  <2>1. SeekNothing \/ SeekLine \/ SeekEcho
    BY <1>1, <1>8, SeekStep DEF BufferWhole
  <2>2. CASE SeekNothing
    <3>1. UNCHANGED <<m_inputBuf, m_inputPos, m_transactionState>>
      BY <2>2 DEF SeekNothing, NoLine, transaction
    <3>2. UNCHANGED <<Stream, InHand>>
      BY <1>2, <3>1 DEF Stream, InHand
    <3>3. EchoAt(p)'
      BY <1>2, <1>3, <3>2 DEF EchoAt
    <3>4. ReadsLeft(p)'
      BY <1>2, <1>5, <1>6, <3>2 DEF ReadsLeft
    <3> QED BY <1>4, <3>1, <3>2, <3>3, <3>4 DEF EchoAhead
  <2>3. CASE SeekLine
    <3>1. /\ Len(m_inputBuf) >= 6 /\ m_inputBuf[1].place = 4 /\ m_inputBuf[2].place = 5
          /\ Discard(2) /\ m_transactionState' = "COMMAND_SENT"
      BY <1>4, <2>3 DEF SeekLine, NoLine, transaction
    <3>2. Stream[1].place = 4 /\ Stream[2].place = 5 /\ 2 \in 0 .. Len(m_inputBuf)
      BY <1>1, <1>5, <3>1
    <3>3. p # 1 /\ p # 2
      BY <1>3, <3>2 DEF EchoAt
    <3>4. p > 2
      BY <1>3, <1>5, <3>3
    <3> QED BY <1>7, <3>1, <3>2, <3>4
  <2>4. CASE SeekEcho
    <3>1. /\ Len(m_inputBuf) >= 3 /\ m_inputBuf[1].place = 1
          /\ Discard(3) /\ at' = "seek" /\ ProcessReadLine(Before(3))
      BY <2>4 DEF SeekEcho
    <3>2. /\ Stream[1].place = 1 /\ Stream[1] = m_inputBuf[1]
          /\ 3 \in 0 .. Len(m_inputBuf) /\ 3 \in 1 .. Len(m_inputBuf)
      BY <1>1, <1>5, <3>1
    <3>3. p = 1
      <4>1. 1 \in 1 .. Len(Stream) /\ ~(Stream[1].place >= 4)
        BY <1>3, <1>5, <3>2
      <4>2. 1 \in p .. p + 2
        BY <1>3, <4>1 DEF EchoAt
      <4> QED BY <1>3, <1>5, <4>2
    <3>4. TextOf(Before(3)) = m_transactionCommand
      <4>1. Len(Before(3)) = 2 /\ Before(3)[1] = m_inputBuf[1]
        BY <3>1, TextBefore
      <4>2. Stream[1].text = m_transactionCommand
        BY <1>3, <3>3 DEF EchoAt
      <4> QED BY <3>1, <3>2, <4>1, <4>2 DEF TextOf
    <3>5. m_transactionState' = "READING_RESULT"
      BY <1>4, <3>1, <3>4 DEF ProcessReadLine
    <3>6. /\ InHand' = InHand - 3
          /\ Len(Stream') = Len(Stream) - 3
          /\ \A i \in 1 .. Len(Stream) - 3 : Stream'[i] = Stream[i + 3]
      BY <1>2, <3>1, <3>2, StreamMoves
    <3>7. /\ Len(Stream) \in 9 .. 15 /\ Stream[6].place = 6 /\ Stream[6].now
          /\ \A i \in 1 .. Len(Stream) : i \notin 1 .. 3 => Stream[i].place >= 4
      BY <1>3, <1>5, <3>3 DEF EchoAt
    <3>8. OnlyLines(Stream')
      <4>1. ASSUME NEW i \in 1 .. Len(Stream) - 3
            PROVE  Stream'[i].place >= 4
        <5>1. i + 3 \in 1 .. Len(Stream) /\ i + 3 \notin 1 .. 3
          BY <1>5
        <5> QED BY <3>6, <3>7, <5>1
      <4> QED BY <3>6, <4>1 DEF OnlyLines
    <3>9. Len(Stream') \in 6 .. 12 /\ Stream'[3].place = 6 /\ Stream'[3].now
      <4>1. 3 \in 1 .. Len(Stream) - 3 /\ 3 + 3 = 6 /\ Len(Stream) - 3 \in 6 .. 12
        BY <3>7
      <4>2. Stream'[3] = Stream[6]
        BY <3>6, <4>1
      <4> QED BY <3>6, <3>7, <4>1, <4>2
    <3>10. Usable' >= 1
      BY <1>2, <1>5, <1>6, <3>1, <3>3
    <3> QED BY <3>1, <3>5, <3>8, <3>9, <3>10 DEF AnswerAhead
  <2> QED BY <2>1, <2>2, <2>3, <2>4
<1>9. CASE at = "end"
  <2>1. EndLine
    BY <1>1, <1>9, EndStep DEF BufferWhole
  <2>2. /\ Len(m_inputBuf) >= 4 /\ m_inputBuf[1].place = 6 /\ m_inputBuf[2].place = 7
        /\ m_inputBuf[3].place = 8 /\ m_inputBuf[4].place = 9
        /\ Discard(4) /\ ProcessReadLine(Before(3))
    BY <2>1 DEF EndLine
  <2>3. /\ Stream[1].place = 6 /\ Stream[2].place = 7 /\ Stream[3].place = 8
        /\ Stream[4].place = 9 /\ 4 \in 0 .. Len(m_inputBuf) /\ 3 \in 1 .. Len(m_inputBuf)
    BY <1>1, <1>5, <2>2
  <2>4. p # 1 /\ p # 2 /\ p # 3 /\ p # 4
    BY <1>3, <2>3 DEF EchoAt
  <2>5. p > 4
    BY <1>3, <1>5, <2>4
  <2>6. TextOf(Before(3)) # m_transactionCommand
    <3>1. Len(Before(3)) = 2 /\ Before(3)[1] = m_inputBuf[1] /\ m_inputBuf[1] \in Characters
      BY <2>2, TextBefore
    <3>2. TextOf(Before(3)) = m_inputBuf[1].text
      BY <2>2, <3>1 DEF TextOf
    <3> QED BY <1>1, <2>2, <3>1, <3>2 DEF Characters, Answers, Commands
  <2>7. m_transactionState' = "COMMAND_SENT"
    BY <1>4, <2>2, <2>6 DEF ProcessReadLine
  <2> QED BY <1>7, <2>2, <2>3, <2>5, <2>7
<1> QED BY <1>2, <1>8, <1>9

LEMMA AnswerParsed ==
  ASSUME Types, BufferWhole, PreProcess, AnswerAhead \/ Answered
  PROVE  AnswerAhead' \/ Answered'
<1>1. /\ m_inputBuf \in Seq(Characters) /\ m_inputPos = Len(m_inputBuf) /\ Adjacent(m_inputBuf)
  BY DEF Types, BufferWhole
<1>2. /\ at \in {"seek", "end"} /\ at' \in {"seek", "end", "check"}
      /\ UNCHANGED <<wire, Usable, m_transactionCommand>>
  BY ParserStep DEF modem, counts, Usable
<1>3. /\ Len(Stream) \in Nat /\ InHand \in Nat /\ InHand = Len(m_inputBuf)
      /\ Len(Stream) = InHand + Len(wire) /\ Len(wire) \in Nat
      /\ \A i \in 1 .. InHand : Stream[i] = m_inputBuf[i]
  BY StreamType DEF InHand, Types
<1>4. OnlyLines(Stream)
  BY DEF AnswerAhead, Answered
<1>5. ASSUME NEW k \in 0 .. Len(m_inputBuf), Discard(k)
      PROVE  /\ InHand' = InHand - k /\ Len(Stream') = Len(Stream) - k /\ Len(Stream') \in Nat
             /\ \A i \in 1 .. Len(Stream) - k : Stream'[i] = Stream[i + k]
             /\ OnlyLines(Stream')
  BY <1>2, <1>4, <1>5, StreamMoves, LinesMove
<1>6. ASSUME NEW k \in 0 .. Len(m_inputBuf), Discard(k), Answered,
             UNCHANGED <<m_transactionState, own>>
      PROVE  Answered'
  <2>1. Len(Stream') <= 6 /\ OnlyLines(Stream')
    BY <1>3, <1>5, <1>6 DEF Answered
  <2> QED BY <1>2, <1>6, <2>1 DEF Answered
<1>7. CASE at = "seek"
  <2>1. SeekNothing \/ SeekLine \/ SeekEcho
    BY <1>1, <1>7, SeekStep DEF BufferWhole
  <2>2. CASE SeekNothing
    <3>1. UNCHANGED <<m_inputBuf, m_transactionState, own>> /\ at' = "check"
      BY <2>2 DEF SeekNothing, NoLine, transaction
    <3>2. UNCHANGED <<Stream, InHand>>
      BY <1>2, <3>1 DEF Stream, InHand
    <3>3. AnswerAhead => AnswerAhead'
      BY <1>2, <1>7, <3>1, <3>2 DEF AnswerAhead, OnlyLines
    <3>4. Answered => Answered'
      BY <3>1, <3>2 DEF Answered, OnlyLines
    <3> QED BY <3>3, <3>4
  <2>3. CASE SeekLine
    <3>1. /\ Len(m_inputBuf) >= 6 /\ Discard(2) /\ at' = "end"
          /\ UNCHANGED <<m_transactionState, own>>
      BY <2>3 DEF SeekLine, NoLine, transaction
    <3>2. 2 \in 0 .. Len(m_inputBuf) /\ InHand >= 6
      BY <1>1, <1>3, <3>1
    <3>3. Answered => Answered'
      BY <1>6, <3>1, <3>2
    <3>4. ASSUME AnswerAhead
          PROVE  AnswerAhead'
      <4>1. /\ m_transactionState = "READING_RESULT"
            /\ Len(Stream) \in 6 .. 12 /\ Stream[3].now
        BY <1>7, <3>4 DEF AnswerAhead
      <4>2. Len(Stream') \in 4 .. 10 /\ InHand' # 0
        <5>1. Len(Stream') = Len(Stream) - 2 /\ InHand' = InHand - 2
          BY <1>5, <3>1, <3>2
        <5> QED BY <1>3, <3>2, <4>1, <5>1
      <4>3. Stream'[1].now
        <5>1. 1 \in 1 .. Len(Stream) - 2 /\ 1 + 2 = 3
          BY <4>1
        <5> QED BY <1>5, <3>1, <3>2, <4>1, <5>1
      <4> QED BY <1>5, <3>1, <3>2, <4>1, <4>2, <4>3 DEF AnswerAhead
    <3> QED BY <3>3, <3>4
  <2>4. ~SeekEcho
    <3>1. SUFFICES ASSUME SeekEcho
                   PROVE  FALSE
      OBVIOUS
    <3>2. Len(m_inputBuf) >= 3 /\ m_inputBuf[1].place = 1
      BY <3>1 DEF SeekEcho
    <3>3. 1 \in 1 .. Len(Stream) /\ Stream[1].place = 1
      BY <1>3, <3>2
    <3> QED BY <1>4, <3>3 DEF OnlyLines
  <2> QED BY <2>1, <2>2, <2>3, <2>4
<1>8. CASE at = "end"
  <2>1. EndLine
    BY <1>1, <1>8, EndStep DEF BufferWhole
  <2>2. /\ Len(m_inputBuf) >= 4 /\ m_inputBuf[1].place = 6
        /\ Discard(4) /\ at' = "seek" /\ ProcessReadLine(Before(3))
    BY <2>1 DEF EndLine
  <2>3. Stream[1] = m_inputBuf[1] /\ 4 \in 0 .. Len(m_inputBuf) /\ 3 \in 1 .. Len(m_inputBuf)
    BY <1>1, <1>3, <2>2
  <2>4. Answered => Answered'
    <3>1. Answered => UNCHANGED <<m_transactionState, own>>
      BY <2>2 DEF ProcessReadLine, Answered
    <3> QED BY <1>6, <2>2, <2>3, <3>1
  <2>5. ASSUME AnswerAhead
        PROVE  Answered'
    <3>1. /\ m_transactionState = "READING_RESULT"
          /\ Len(Stream) \in 4 .. 10 /\ Stream[1].now
      BY <1>8, <2>5 DEF AnswerAhead
    <3>2. /\ Len(Before(3)) = 2 /\ Before(3)[1] = m_inputBuf[1] /\ m_inputBuf[1] \in Characters
      BY <2>2, TextBefore
    <3>3. TextOf(Before(3)) # "other"
      BY <2>2, <3>2 DEF TextOf, Characters, Answers
    <3>4. own' = (TextOf(Before(3)) # "other" /\ Before(3)[1].now) /\ m_transactionState' = "IDLE"
      BY <2>2, <3>1 DEF ProcessReadLine
    <3>5. own'
      BY <2>3, <3>1, <3>2, <3>3, <3>4
    <3>6. Len(Stream') <= 6 /\ OnlyLines(Stream')
      <4>1. Len(Stream') = Len(Stream) - 4 /\ OnlyLines(Stream')
        BY <1>5, <2>2, <2>3
      <4> QED BY <3>1, <4>1
    <3> QED BY <2>2, <3>4, <3>5, <3>6 DEF Answered
  <2> QED BY <2>4, <2>5
<1> QED BY <1>2, <1>7, <1>8

\* A transfer that is not cut brings at least one echo or line.
LEMMA ReadAhead ==
  ASSUME Types, WholeInv, Read, splits' = 0, EchoAhead \/ AnswerAhead
  PROVE  EchoAhead' \/ AnswerAhead'
<1>1. /\ lineDetected = FALSE /\ m_inputBuf = <<>> /\ m_inputBuf' # <<>>
      /\ Adjacent(m_inputBuf') /\ Whole(m_inputBuf')
  BY ReadWhole
<1>2. PICK n \in 1 .. Len(wire) :
        m_inputBuf' = SubSeq(wire, 1, n) /\ wire' = SubSeq(wire, n + 1, Len(wire))
  BY ReadWhole
<1>3. /\ at = "read" /\ at' = "seek"
      /\ UNCHANGED <<m_transactionCommand, m_transactionState, Usable>>
  BY <1>1 DEF Read, transaction, Usable
<1>4. wire \in Seq(Characters) /\ Len(wire) \in Nat /\ n \in 0 .. Len(wire) /\ Usable \in Int
  BY AtAssumption DEF Types, Usable
<1>5. /\ m_inputBuf' \in Seq(Characters) /\ Len(m_inputBuf') = n
      /\ \A i \in 1 .. n : m_inputBuf'[i] = wire[i]
  BY <1>2, <1>4, Front
<1>6. /\ wire' \in Seq(Characters) /\ Len(wire') = Len(wire) - n
      /\ \A i \in 1 .. Len(wire) - n : wire'[i] = wire[i + n]
  BY <1>2, <1>4, Rest
<1>7. Stream = wire
  BY <1>1, StreamType
<1>8. InHand' = n
  BY <1>5 DEF InHand
<1>9. Len(Stream') = Len(wire) /\ \A i \in 1 .. Len(wire) : Stream'[i] = wire[i]
  <2>1. /\ Len(Stream') = n + Len(wire')
        /\ \A i \in 1 .. n : Stream'[i] = m_inputBuf'[i]
        /\ \A i \in 1 .. Len(wire') : Stream'[i + n] = wire'[i]
    BY <1>5, <1>6, <1>8, StreamTypeAfter
  <2>2. Len(Stream') = Len(wire)
    BY <1>4, <1>6, <2>1
  <2>3. ASSUME NEW i \in 1 .. Len(wire)
        PROVE  Stream'[i] = wire[i]
    <3>1. CASE i <= n
      BY <1>4, <1>5, <2>1, <3>1
    <3>2. CASE i > n
      <4>1. i - n \in 1 .. Len(wire) - n /\ (i - n) + n = i
        BY <1>4, <3>2
      <4>2. wire'[i - n] = wire[i] /\ Stream'[i] = wire'[i - n]
        BY <1>6, <2>1, <4>1
      <4> QED BY <4>2
    <3> QED BY <1>4, <3>1, <3>2
  <2> QED BY <2>2, <2>3
<1>10. CASE EchoAhead
  <2>1. PICK p \in 1 .. Len(Stream) : EchoAt(p) /\ ReadsLeft(p)
    BY <1>10 DEF EchoAhead
  <2>2. p - 1 <= 6 * (Usable - 1) /\ p \in Nat /\ p >= 1
    BY <1>3, <2>1, <1>4, <1>7 DEF ReadsLeft
  <2>3. p > n => n >= 6
    <3>1. SUFFICES ASSUME p > n
                   PROVE  n >= 6
      OBVIOUS
    <3>2. 1 \in 1 .. Len(Stream) /\ 1 \notin p .. p + 2
      BY <1>4, <1>7, <2>2, <3>1
    <3>3. m_inputBuf'[1].place >= 4
      BY <1>5, <1>7, <2>1, <3>2 DEF EchoAt
    <3>4. m_inputBuf'[1].place = 4 /\ Ends(m_inputBuf'[Len(m_inputBuf')])
      BY <1>1, <3>3 DEF Whole, Starts
    <3> QED BY <1>1, <1>4, <1>5, <3>4, LineIsWhole
  <2>4. EchoAt(p)'
    <3>1. p \in 1 .. Len(wire) /\ p + 5 \in 1 .. Len(wire)
      BY <1>4, <1>7, <2>1, <2>2 DEF EchoAt
    <3>2. Stream'[p] = Stream[p] /\ Stream'[p + 5] = Stream[p + 5] /\ Len(Stream') = Len(Stream)
      BY <1>7, <1>9, <3>1
    <3>3. \A i \in 1 .. Len(Stream) : Stream'[i] = Stream[i]
      BY <1>7, <1>9
    <3> QED BY <1>3, <2>1, <3>2, <3>3 DEF EchoAt
  <2>5. ReadsLeft(p)'
    <3>1. p > n => p - 1 - n <= 6 * (Usable - 2)
      BY <1>4, <2>2, <2>3
    <3>2. ~(p > n) => Usable >= 1
      BY <1>4, <2>2
    <3> QED BY <1>3, <1>8, <3>1, <3>2 DEF ReadsLeft
  <2>6. p \in 1 .. Len(Stream')
    BY <1>7, <1>9
  <2>7. m_transactionState' = "COMMAND_SENT"
    BY <1>3, <1>10 DEF EchoAhead
  <2> QED BY <2>4, <2>5, <2>6, <2>7 DEF EchoAhead
<1>11. CASE AnswerAhead
  <2>1. /\ Len(wire) \in 6 .. 12 /\ wire[3].place = 6 /\ wire[3].now
        /\ \A i \in 1 .. Len(wire) : wire[i].place >= 4
    BY <1>3, <1>7, <1>11 DEF AnswerAhead, OnlyLines
  <2>2. 3 \in 1 .. Len(wire) /\ InHand' # 0
    BY <1>4, <1>8, <2>1
  <2>3. OnlyLines(Stream')
    BY <1>9, <2>1 DEF OnlyLines
  <2>4. Len(Stream') \in 6 .. 12 /\ Stream'[3].place = 6 /\ Stream'[3].now
    BY <1>9, <2>1, <2>2
  <2>5. m_transactionState' = "READING_RESULT"
    BY <1>3, <1>11 DEF AnswerAhead
  <2> QED BY <1>3, <2>2, <2>3, <2>4, <2>5 DEF AnswerAhead
<1> QED BY <1>10, <1>11

\* While the echo or the answer is ahead there are reads left.
LEMMA CheckAhead ==
  ASSUME Types, WholeInv, splits = 0, CheckLoop, EchoAhead \/ AnswerAhead,
         noise + 3 <= Reads
  PROVE  at' = "read" /\ (EchoAhead' \/ AnswerAhead')
<1>1. /\ at = "check" /\ m_inputBuf = <<>> /\ m_inputBuf' = <<>>
      /\ UNCHANGED <<wire, m_transactionCommand, m_transactionState>>
  BY DEF WholeInv, BufferWhole, CheckLoop, transaction, modem
<1>2. InHand = 0 /\ UNCHANGED <<Stream, InHand>>
  <2>1. UNCHANGED <<Stream, InHand>>
    BY <1>1 DEF Stream, InHand
  <2> QED BY <1>1, <2>1, StreamType
<1>3. /\ Usable \in Int /\ Len(Stream) \in Nat
      /\ Usable > 0 => tries > 0
      /\ tries' = tries - 1 => Usable' = Usable - 1
  BY StreamType, AtAssumption DEF Types, Usable, CheckLoop, counts
<1>4. CASE EchoAhead
  <2>1. PICK p \in 1 .. Len(Stream) : EchoAt(p) /\ ReadsLeft(p)
    BY <1>4 DEF EchoAhead
  <2>2. p - 1 <= 6 * (Usable - 2) /\ p >= 1 /\ p \in Nat
    BY <1>1, <1>2, <1>3, <2>1 DEF ReadsLeft
  <2>3. tries > 0
    BY <1>3, <2>2
  <2>4. at' = "read" /\ tries' = tries - 1
    BY <1>4, <2>3 DEF CheckLoop, ReadAgain, EchoAhead
  <2>5. EchoAt(p)'
    BY <1>1, <1>2, <2>1 DEF EchoAt
  <2>6. ReadsLeft(p)'
    <3>1. p - 1 <= 6 * (Usable' - 1)
      BY <1>3, <2>2, <2>4
    <3> QED BY <2>4, <3>1 DEF ReadsLeft
  <2> QED BY <1>1, <1>2, <1>4, <2>4, <2>5, <2>6 DEF EchoAhead
<1>5. CASE AnswerAhead
  <2>1. Usable > 0 /\ tries > 0
    BY <1>1, <1>2, <1>3, <1>5 DEF AnswerAhead
  <2>2. at' = "read" /\ tries' = tries - 1
    BY <1>5, <2>1 DEF CheckLoop, ReadAgain, AnswerAhead
  <2>3. Usable' >= 0
    BY <1>3, <2>1, <2>2
  <2> QED BY <1>1, <1>2, <1>5, <2>2, <2>3 DEF AnswerAhead, OnlyLines
<1> QED BY <1>4, <1>5

\* An empty transfer takes a read that is not counted on.
LEMMA EmptyAhead ==
  ASSUME Types, WholeInv, splits = 0, ReadEmpty, EchoAhead \/ AnswerAhead
  PROVE  EchoAhead' \/ AnswerAhead'
<1>1. /\ at = "read" /\ at' = "check" /\ m_inputBuf = <<>> /\ noise' = noise + 1
      /\ UNCHANGED <<m_inputBuf, wire, m_transactionCommand, m_transactionState, tries>>
  BY DEF WholeInv, BufferWhole, ReadEmpty, transaction, input, modem
<1>2. InHand = 0 /\ UNCHANGED <<Stream, InHand>>
  <2>1. UNCHANGED <<Stream, InHand>>
    BY <1>1 DEF Stream, InHand
  <2> QED BY <1>1, <2>1, StreamType
<1>3. Usable \in Int /\ Len(Stream) \in Nat /\ Usable' = Usable + 1
  BY <1>1, StreamType, AtAssumption DEF Types, Usable
<1>4. CASE EchoAhead
  <2>1. PICK p \in 1 .. Len(Stream) : EchoAt(p) /\ ReadsLeft(p)
    BY <1>4 DEF EchoAhead
  <2>2. p - 1 <= 6 * (Usable - 1) /\ p >= 1 /\ p \in Nat
    BY <1>1, <1>3, <2>1 DEF ReadsLeft
  <2>3. p - 1 - 0 <= 6 * (Usable' - 2) /\ p > 0
    BY <1>3, <2>2
  <2>4. EchoAt(p)' /\ ReadsLeft(p)'
    BY <1>1, <1>2, <2>1, <2>3 DEF EchoAt, ReadsLeft
  <2> QED BY <1>1, <1>2, <1>4, <2>4 DEF EchoAhead
<1>5. CASE AnswerAhead
  <2>1. Usable' >= 1
    BY <1>1, <1>3, <1>5 DEF AnswerAhead
  <2> QED BY <1>1, <1>2, <1>5, <2>1 DEF AnswerAhead, OnlyLines
<1> QED BY <1>4, <1>5

\* The lines between two commands, with one more.
LEMMA MoreLines ==
  ASSUME Types, OnlyLines(wire)
  PROVE  /\ Len(wire \o Line("urc", "none", FALSE)) = Len(wire) + 6
         /\ OnlyLines(wire \o Line("urc", "none", FALSE))
<1> DEFINE l == Line("urc", "none", FALSE)
<1>1. l \in Seq(Characters) /\ Len(l) = 6
  BY LineType DEF Answers, Stats
<1>2. OnlyLines(l)
  BY DEF OnlyLines, Line, Mark, Char
<1> HIDE DEF l
<1>3. wire \in Seq(Characters) /\ Len(wire) \in Nat
  BY DEF Types
<1>4. /\ Len(Cat(wire, l)) = Len(wire) + 6
      /\ \A i \in 1 .. Len(wire) : Cat(wire, l)[i] = wire[i]
      /\ \A i \in 1 .. 6 : Cat(wire, l)[i + Len(wire)] = l[i]
  <2>1. /\ Len(Cat(wire, l)) = Len(wire) + Len(l)
        /\ \A i \in 1 .. Len(wire) : Cat(wire, l)[i] = wire[i]
        /\ \A i \in 1 .. Len(l) : Cat(wire, l)[i + Len(wire)] = l[i]
    BY <1>1, <1>3, Together
  <2> QED BY Zenon, <1>1, <2>1
<1>5. ASSUME NEW i \in 1 .. Len(wire) + 6
      PROVE  Cat(wire, l)[i].place >= 4
  <2>1. CASE i <= Len(wire)
    <3>1. i \in 1 .. Len(wire)
      BY <1>3, <2>1
    <3>2. wire[i].place >= 4
      BY <3>1 DEF OnlyLines
    <3> QED BY Zenon, <1>4, <3>1, <3>2
  <2>2. CASE i > Len(wire)
    <3>1. i - Len(wire) \in 1 .. 6 /\ (i - Len(wire)) + Len(wire) = i
      BY <1>3, <2>2
    <3>2. Cat(wire, l)[i] = l[i - Len(wire)]
      BY <1>4, <3>1
    <3> QED BY <1>1, <1>2, <3>1, <3>2 DEF OnlyLines
  <2> QED BY <1>3, <2>1, <2>2
<1>6. Len(Cat(wire, l)) = Len(wire) + 6 /\ OnlyLines(Cat(wire, l))
  BY <1>4, <1>5 DEF OnlyLines
<1> QED BY Zenon, <1>6 DEF Cat, l

\* OwnInv is inductive.
LEMMA InitOwn == Init => OwnInv
BY DEF Init, AtInit, OwnInv, InStep, OnlyLines

LEMMA OwnNext == Types /\ WholeInv /\ OwnInv /\ Types' /\ [Next]_vars => OwnInv'
<1> SUFFICES ASSUME Types, WholeInv, OwnInv, Types', [Next]_vars, Undisturbed'
             PROVE  InStep'
  BY DEF OwnInv
<1> USE DEF atVars, transaction, input, modem, counts, init, vars
<1>a. /\ splits \in Nat /\ splits' \in Nat /\ late \in Nat /\ noise \in Nat /\ Reads \in Nat
      /\ tries \in Int
  BY AtAssumption DEF Types
<1>b. splits' = 0 /\ late' = 0 /\ noise' + 3 <= Reads
  BY DEF Undisturbed
<1>c. ASSUME UNCHANGED <<splits, late, noise>>
      PROVE  splits = 0 /\ late = 0 /\ noise + 3 <= Reads /\ InStep
  BY <1>b, <1>c DEF OwnInv, Undisturbed
<1>1. CASE Connect \/ InitDongle \/ DongleConnected \/ TryConnect
  <2>1. UNCHANGED <<atVars>> /\ (dongle' = "gone" <=> dongle = "gone")
    BY <1>1 DEF Connect, InitDongle, DongleConnected, TryConnect
  <2>2. UNCHANGED <<EchoAhead, AnswerAhead, Answered>>
    BY <2>1 DEF EchoAhead, AnswerAhead, Answered, EchoAt, ReadsLeft, Usable, OnlyLines, Stream, InHand
  <2>3. InStep
    BY <1>c, <2>1
  <2> QED BY <2>1, <2>2, <2>3 DEF InStep, OnlyLines
<1>2. CASE Command
  <2>1. at = "rest" /\ at' = "write" /\ UNCHANGED <<wire, counts, dongle>>
    BY <1>2 DEF Command, Execute
  <2>2. InStep
    BY <1>c, <2>1
  <2> QED BY <2>1, <2>2 DEF InStep, OnlyLines
<1>3. CASE dongle = "found" /\ Write /\ UNCHANGED <<pc, init, dongle>>
  <2>1. at = "write" /\ at' = "read" /\ UNCHANGED <<splits, late, noise, dongle>>
    BY <1>3 DEF Write
  <2>2. InStep /\ noise + 3 <= Reads
    BY <1>c, <2>1
  <2>3. OnlyLines(wire) /\ Len(wire) <= 6 * (1 + noise)
    BY <2>1, <2>2 DEF InStep
  <2>4. EchoAhead'
    BY <1>3, <2>2, <2>3, WriteAhead
  <2> QED BY <1>3, <2>1, <2>4 DEF InStep
<1>4. CASE dongle = "found" /\ Read /\ UNCHANGED <<pc, init, dongle>>
  <2>1. at = "read" /\ lineDetected = FALSE /\ UNCHANGED <<splits, late, noise, dongle>>
    BY <1>4, <1>b, ReadWhole DEF Read
  <2>2. EchoAhead \/ AnswerAhead
    BY <1>4, <1>c, <2>1 DEF InStep, Answered
  <2>3. EchoAhead' \/ AnswerAhead'
    BY <1>4, <1>b, <2>2, ReadAhead
  <2>4. at' = "seek"
    BY <1>4, <2>1 DEF Read
  <2> QED BY <1>4, <2>1, <2>3, <2>4 DEF InStep
<1>5. CASE WriteFails(dongle = "found") /\ UNCHANGED <<pc, init, dongle>>
  <2>1. /\ at = "write" /\ at' = "done" /\ ret' = "failed"
        /\ UNCHANGED <<wire, splits, late, noise, dongle>>
    BY <1>5 DEF WriteFails
  <2>2. InStep
    BY <1>c, <2>1
  <2> QED BY <2>1, <2>2 DEF InStep, OnlyLines
<1>14. CASE dongle = "found" /\ ReadEmpty /\ UNCHANGED <<pc, init, dongle>>
  <2>1. /\ at = "read" /\ at' = "check" /\ noise' = noise + 1
        /\ UNCHANGED <<splits, late, dongle>>
    BY <1>14 DEF ReadEmpty
  <2>2. InStep /\ splits = 0
    BY <1>a, <1>b, <2>1 DEF OwnInv, Undisturbed
  <2>3. EchoAhead \/ AnswerAhead
    BY <1>14, <2>1, <2>2 DEF InStep, Answered
  <2>4. EchoAhead' \/ AnswerAhead'
    BY <1>14, <2>2, <2>3, EmptyAhead
  <2> QED BY <1>14, <2>1, <2>4 DEF InStep
<1>6. CASE ReadFails /\ UNCHANGED <<pc, init, dongle>>
  <2>1. at = "read" /\ at' = "done" /\ ret' = "failed" /\ UNCHANGED <<m_inputBuf, wire, dongle>>
    BY <1>6 DEF ReadFails
  <2>2. wire = <<>> /\ UNCHANGED <<splits, late, noise>>
    BY <1>6, <1>a, <1>b DEF ReadFails
  <2>3. 0 <= 6 * (1 + noise)
    BY <1>a
  <2> QED BY <2>1, <2>2, <2>3 DEF InStep, OnlyLines
<1>7. CASE CheckLoop /\ UNCHANGED <<pc, init, dongle>>
  <2>1. at = "check" /\ UNCHANGED <<wire, transaction, own, splits, late, noise, dongle>>
    BY <1>7 DEF CheckLoop
  <2>2. InStep /\ splits = 0 /\ noise + 3 <= Reads
    BY <1>c, <2>1
  <2>3. dongle # "gone" /\ (EchoAhead \/ AnswerAhead \/ Answered)
    BY <2>1, <2>2 DEF InStep
  <2>4. CASE EchoAhead \/ AnswerAhead
    <3>1. at' = "read" /\ (EchoAhead' \/ AnswerAhead')
      BY <1>7, <2>2, <2>4, CheckAhead
    <3> QED BY <2>1, <2>3, <3>1 DEF InStep
  <2>5. CASE Answered
    <3>1. m_transactionState = "IDLE" /\ own /\ OnlyLines(Stream) /\ Len(Stream) <= 6
      BY <2>5 DEF Answered
    <3>2. at' = "done"
      BY <1>7, <3>1 DEF CheckLoop
    <3>3. Stream = wire
      BY <2>1, <2>2, StreamType DEF WholeInv, BufferWhole
    <3>4. Len(wire) <= 6 * (1 + noise)
      BY <1>a, <3>1, <3>3 DEF Types
    <3> QED BY <2>1, <2>3, <3>1, <3>2, <3>3, <3>4 DEF InStep
  <2> QED BY <2>3, <2>4, <2>5
<1>8. CASE PreProcess /\ UNCHANGED <<pc, init, dongle>>
  <2>1. /\ at \in {"seek", "end"} /\ at' \in {"seek", "end", "check"}
        /\ UNCHANGED <<wire, splits, late, noise, dongle>>
    BY <1>8, ParserStep
  <2>2. InStep /\ BufferWhole
    BY <1>c, <2>1 DEF WholeInv
  <2>3. dongle # "gone" /\ (EchoAhead \/ AnswerAhead \/ Answered)
    BY <2>1, <2>2 DEF InStep
  <2>4. EchoAhead' \/ AnswerAhead' \/ Answered'
    BY <1>8, <2>2, <2>3, EchoParsed, AnswerParsed
  <2> QED BY <2>1, <2>3, <2>4 DEF InStep
<1>9. CASE ResetReturned \/ RegistrationReturned \/ ApnReturned
  <2>1. at = "done" /\ at' = "rest" /\ UNCHANGED <<wire, counts, dongle>>
    BY <1>9 DEF ResetReturned, RegistrationReturned, ApnReturned, Returned
  <2>2. InStep
    BY <1>c, <2>1
  <2>3. /\ dongle = "gone" => wire = <<>>
        /\ OnlyLines(wire) /\ Len(wire) <= 6 * (1 + noise)
    BY <2>1, <2>2 DEF InStep
  <2> QED BY <2>1, <2>3 DEF InStep, OnlyLines
<1>10. CASE PppConnect
  <2>1. pc = "ppp" /\ wire' = <<>> /\ UNCHANGED <<at, counts, dongle>>
    BY <1>10 DEF PppConnect
  <2>2. at = "rest"
    BY <2>1 DEF Types
  <2>3. 0 <= 6 * (1 + noise)
    BY <1>a
  <2> QED BY <2>1, <2>2, <2>3 DEF InStep, OnlyLines
<1>11. CASE Unplug
  <2>1. /\ at \in {"rest", "write", "read"} /\ wire' = <<>> /\ dongle' = "gone"
        /\ UNCHANGED <<at, counts>>
    BY <1>11 DEF Unplug
  <2>2. 0 <= 6 * (1 + noise)
    BY <1>a
  <2> QED BY <2>1, <2>2 DEF InStep, OnlyLines
<1>12. CASE dongle = "found" /\ ModemReports /\ UNCHANGED <<pc, init, dongle>>
  <2>1. /\ at = "rest" /\ wire' = wire \o Line("urc", "none", FALSE) /\ noise' = noise + 1
        /\ UNCHANGED <<at, splits, late, dongle>>
    BY <1>12 DEF ModemReports
  <2>2. InStep
    BY <1>a, <1>b, <2>1 DEF OwnInv, Undisturbed
  <2>3. OnlyLines(wire) /\ Len(wire) <= 6 * (1 + noise) /\ Len(wire) \in Nat
    BY <2>1, <2>2 DEF InStep, Types
  <2>4. OnlyLines(wire') /\ Len(wire') = Len(wire) + 6
    BY <2>1, <2>3, MoreLines
  <2>5. Len(wire') <= 6 * (1 + noise')
    <3>1. noise' = noise + 1
      BY <2>1
    <3> QED BY <1>a, <2>3, <2>4, <3>1
  <2>6. at' = "rest" /\ dongle' # "gone"
    BY <1>12, <2>1
  <2> QED BY <2>4, <2>5, <2>6 DEF InStep
<1>13. CASE (ModemRegisters /\ UNCHANGED <<pc, init, dongle>>) \/ UNCHANGED vars
  <2>1. UNCHANGED <<at, transaction, input, tries, ret, wire, own, counts, dongle>>
    BY <1>13 DEF ModemRegisters
  <2>2. UNCHANGED <<EchoAhead, AnswerAhead, Answered>>
    BY <2>1 DEF EchoAhead, AnswerAhead, Answered, EchoAt, ReadsLeft, Usable, OnlyLines, Stream, InHand
  <2>3. InStep
    BY <1>c, <2>1
  <2> QED BY <2>1, <2>2, <2>3 DEF InStep, OnlyLines
<1> QED BY <1>1, <1>2, <1>3, <1>4, <1>5, <1>6, <1>7, <1>8, <1>9, <1>10, <1>11, <1>12, <1>13, <1>14
        DEF Next, Host, Transaction, Modem

\* A command that returns a result returns its own answer's, whatever is left of
\* older answers and however they are packed, as long as no transfer was cut,
\* none came late, and there are three reads more than lines nobody asked for
\* and empty transfers: for every number of reads and every size of a transfer.
THEOREM AnswersAreOwn == Spec => []AnswerIsOwn
<1>1. Init => Types /\ WholeInv /\ OwnInv
  BY InitTypes, InitWhole, InitOwn
<1>2. Types /\ WholeInv /\ OwnInv /\ [Next]_vars => Types' /\ WholeInv' /\ OwnInv'
  BY TypesNext, WholeNext, OwnNext
<1>3. OwnInv => AnswerIsOwn
  BY DEF OwnInv, Undisturbed, InStep, AnswerIsOwn
<1> QED BY <1>1, <1>2, <1>3, PTL DEF Spec

=============================================================================
