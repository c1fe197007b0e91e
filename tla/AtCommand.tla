----------------------------- MODULE AtCommand -----------------------------
(***************************************************************************)
(* ATCommandsInterface: one AT command at a time.  The command is written, *)
(* then up to five transfers are read from the bulk endpoint, each into    *)
(* the start of a buffer that is cleared before, until a line after the    *)
(* command's echo ends the transaction.                                    *)
(*                                                                         *)
(* The wire is a sequence of characters: CR, LF, and two for each text, the *)
(* least that a transfer can cut.  Each knows its place in the echo or the  *)
(* line it belongs to, 1..3 and 4..9, and what the whole text says.  The    *)
(* refusals (ERROR, COMMAND NOT SUPPORT, +CME and +CMS ERROR) are one text: *)
(* their codes are only logged.  The '>' prompt, which no command of this   *)
(* program asks for, is left out.                                          *)
(*                                                                         *)
(* External: the modem.  It answers the commands in order, and lines       *)
(* nobody asked for come only before a command's echo, as the comments of  *)
(* processReadLine have it.                                                *)
(***************************************************************************)
EXTENDS Naturals, Sequences

CONSTANTS
  BufSize,   \* AT_INPUT_BUF_SIZE: 192
  EndpointSize, \* characters in a transfer: 64
  Reads,     \* transfers read for a command: 5
  MaxFaults  \* bound: lines nobody asked for, empty transfers, transfers that
             \* end within a line, reads that fail before an answer, commands
             \* refused or not written

ASSUME AtAssumption ==
  /\ BufSize \in Nat /\ EndpointSize \in 1 .. BufSize - 1 /\ Reads \in Nat \ {0}
  /\ MaxFaults \in Nat

VARIABLES
  at,           \* "rest"; "write"; "read"; "seek" a line; its "end"; "check"
                \* the loop; "done"
  m_transactionCommand, m_transactionState, m_transactionResult,
  m_inputBuf, m_inputPos, lineDetected,
  tries,        \* reads left after this one
  ret,          \* of executeInternal: "OK", "NET_MOREINFO" or "failed"
  heard,        \* the registration in the line given to the processor
  \* External.
  wire,         \* what the modem has sent or will send, the oldest first
  reg,          \* registration: "searching", then "registered" or "denied"
  \* History, and the counters that bound the model.
  own,          \* the result was set by the answer to the command in hand
  noise, splits, late, errors

transaction == <<m_transactionCommand, m_transactionState, m_transactionResult>>
input == <<m_inputBuf, m_inputPos, lineDetected>>
modem == <<wire, reg>>
counts == <<noise, splits, late, errors>>
atVars == <<at, transaction, input, tries, ret, heard, modem, own, counts>>

\* now: the character belongs to the answer to the command in hand.
Char(p, t, s, b) == [place |-> p, text |-> t, stat |-> s, now |-> b]
Mark(p, t) == Char(p, t, "none", FALSE)

Echo(c) == <<Mark(1, c), Mark(2, c), Mark(3, "CR")>>
Line(t, s, b) ==
  <<Mark(4, "CR"), Mark(5, "LF"), Char(6, t, s, b), Char(7, t, s, b),
    Mark(8, "CR"), Mark(9, "LF")>>
Starts(x) == x.place \in {1, 4}
Ends(x) == x.place \in {3, 9}

(* Plausible mistakes in the code, each in the place of the definition that  *)
(* its comment names.                                                        *)

\* ReadAgain: one read less.
ReadAgainLess(n) == n > 1
\* Shifted: the LF behind a line stays counted, or everything does.
ShiftedShort(k) == m_inputPos + 1 - k
ShiftedNot(k) == m_inputPos

\* What the bound leaves.
MayFail == noise + splits + late + errors < MaxFaults

AtInit ==
  /\ at = "rest" /\ m_transactionCommand = "none" /\ m_transactionState = "IDLE"
  \* The object is a local variable and its result is not initialized.
  /\ m_transactionResult \in {"AT_OK", "AT_ERROR"}
  /\ m_inputBuf = <<>> /\ m_inputPos = 0 /\ lineDetected = FALSE
  /\ tries = 0 /\ ret = "OK" /\ heard = "none"
  /\ wire = <<>> /\ reg = "searching"
  /\ own = FALSE /\ noise = 0 /\ splits = 0 /\ late = 0 /\ errors = 0

-----------------------------------------------------------------------------
(* The modem.                                                              *)

\* Its answer to a command, without the echo.
AnswerLines(c) ==
  LET ok == Line("OK", "none", TRUE) IN
  IF c = "AT+CREG?" THEN Line("+CREG", reg, TRUE) \o ok ELSE ok

\* From now on, what is under way is an answer to an older command.
Older == [i \in DOMAIN wire |-> [wire[i] EXCEPT !.now = FALSE]]

\* A line nobody asked for, between two commands.
ModemReports ==
  /\ at = "rest" /\ MayFail /\ noise' = noise + 1
  /\ wire' = wire \o Line("urc", "none", FALSE)
  /\ UNCHANGED <<at, transaction, input, tries, ret, heard, reg, own,
                 splits, late, errors>>

ModemRegisters ==
  /\ reg = "searching" /\ reg' \in {"registered", "denied"}
  /\ UNCHANGED <<at, transaction, input, tries, ret, heard, wire, own, counts>>

-----------------------------------------------------------------------------
(* executeInternal.                                                        *)

Execute(c) ==
  /\ at = "rest" /\ at' = "write"
  /\ m_transactionCommand' = c
  /\ heard' = "none" /\ own' = FALSE
  /\ UNCHANGED <<m_transactionState, m_transactionResult, input, tries, ret,
                 modem, counts>>

\* atInstWrite: from now on older answers are not this command's.
Write ==
  /\ at = "write" /\ at' = "read"
  /\ m_transactionState' = "COMMAND_SENT" /\ tries' = Reads - 1
  /\ \/ /\ wire' = Older \o Echo(m_transactionCommand)
                     \o AnswerLines(m_transactionCommand)
        /\ UNCHANGED errors
     \/ /\ MayFail /\ errors' = errors + 1
        /\ wire' = Older \o Echo(m_transactionCommand) \o Line("refusal", "none", TRUE)
  /\ UNCHANGED <<m_transactionCommand, m_transactionResult, input, ret, heard,
                 reg, own, noise, splits, late>>

\* Nothing was sent: always so without a dongle, or the bulk transfer's retries
\* ran out.
WriteFails(there) ==
  /\ at = "write" /\ at' = "done" /\ ret' = "failed"
  /\ IF there THEN MayFail /\ errors' = errors + 1 ELSE UNCHANGED errors
  /\ UNCHANGED <<transaction, input, tries, heard, modem, own, noise, splits, late>>

\* A transfer brings what is on the wire up to the end of an echo or a line, or
\* is cut anywhere.  It overwrites the buffer, but the fill pointer moves on
\* from where the last one left it.
Read ==
  /\ at = "read"
  /\ \E n \in 1 .. EndpointSize :
       /\ n <= Len(wire)
       /\ m_inputBuf' = SubSeq(wire, 1, n) /\ m_inputPos' = m_inputPos + n
       /\ wire' = SubSeq(wire, n + 1, Len(wire))
       /\ IF Ends(wire[n]) THEN UNCHANGED splits
                           ELSE MayFail /\ splits' = splits + 1
  /\ at' = IF lineDetected THEN "end" ELSE "seek"
  /\ UNCHANGED <<transaction, lineDetected, tries, ret, heard, reg, own,
                 noise, late, errors>>

\* A transfer without a character costs a read; the parser returns at once.
ReadEmpty ==
  /\ at = "read" /\ at' = "check"
  /\ MayFail /\ noise' = noise + 1
  /\ UNCHANGED <<transaction, input, tries, ret, heard, modem, own,
                 splits, late, errors>>

\* The retries of the bulk transfer run out before the modem sends.
ReadFails ==
  /\ at = "read"
  /\ at' = "done" /\ ret' = "failed"
  /\ IF wire # <<>> THEN MayFail /\ late' = late + 1 ELSE UNCHANGED late
  /\ UNCHANGED <<transaction, input, tries, heard, modem, own, noise, splits, errors>>

ReadAgain(n) == n > 0

\* The buffer is cleared for another read, or the command returns with
\* whatever result there is.
CheckLoop ==
  /\ at = "check"
  /\ m_inputBuf' = <<>>
  /\ IF m_inputPos = BufSize - 1
       THEN m_inputPos' = 0 /\ lineDetected' = FALSE
       ELSE UNCHANGED <<m_inputPos, lineDetected>>
  /\ IF m_transactionState # "IDLE" /\ ReadAgain(tries)
       THEN at' = "read" /\ tries' = tries - 1 /\ UNCHANGED ret
       ELSE /\ at' = "done" /\ UNCHANGED tries
            /\ ret' = IF m_transactionResult = "AT_OK" THEN "OK" ELSE "NET_MOREINFO"
  /\ UNCHANGED <<transaction, heard, modem, own, counts>>

-----------------------------------------------------------------------------
(* processReadLine.  Any line after the echo that is no refusal is a       *)
(* success.                                                                *)

\* What it says, if it is the whole of a text and nothing else.
TextOf(l) == IF Len(l) = 2 /\ l[1].place \in {1, 6} THEN l[1].text ELSE "other"

ProcessReadLine(l) ==
  /\ UNCHANGED m_transactionCommand
  /\ \/ /\ m_transactionState = "COMMAND_SENT"
        /\ m_transactionState' = IF TextOf(l) = m_transactionCommand
                                   THEN "READING_RESULT" ELSE "COMMAND_SENT"
        /\ UNCHANGED <<m_transactionResult, heard, own>>
     \/ /\ m_transactionState = "READING_RESULT"
        /\ m_transactionState' = "IDLE"
        /\ m_transactionResult' = IF TextOf(l) = "refusal" THEN "AT_ERROR" ELSE "AT_OK"
        /\ heard' = IF TextOf(l) = "+CREG" THEN l[1].stat ELSE heard
        /\ own' = (TextOf(l) # "other" /\ l[1].now)
     \/ /\ m_transactionState = "IDLE"
        /\ UNCHANGED <<m_transactionState, m_transactionResult, heard, own>>

NoLine == UNCHANGED <<transaction, heard, own>>

-----------------------------------------------------------------------------
(* preProcessReadLine: the steps of its loop.  Its memmoves are guarded by *)
(* a fill pointer inside the buffer, which TypeOK asserts for whole        *)
(* transfers; what the code does with one outside is undefined.            *)

\* strchr, and 0 for NULL.
Where(t) ==
  LET found == {i \in DOMAIN m_inputBuf : m_inputBuf[i].text = t} IN
  IF found = {} THEN 0 ELSE CHOOSE i \in found : \A k \in found : i <= k
IsAt(t, i) == i <= Len(m_inputBuf) /\ m_inputBuf[i].text = t
Before(k) == SubSeq(m_inputBuf, 1, k - 1)
Behind(k) == m_inputPos - (k - 1) \* m_inputPos - crPos

\* The fill pointer when the first k characters are gone.
Shifted(k) == m_inputPos - k

Discard(k) ==
  /\ m_inputBuf' = SubSeq(m_inputBuf, k + 1, Len(m_inputBuf))
  /\ m_inputPos' = Shifted(k)

Parse(place) ==
  /\ at = place
  /\ UNCHANGED <<tries, ret, modem, counts>>

\* CR LF starts a line, or another CR LF ends one that was not seen.
StartOfLine ==
  /\ Parse("seek") /\ NoLine
  /\ Where("CR") = 1 /\ m_inputPos >= 3 /\ IsAt("LF", 2)
  /\ Discard(2)
  /\ lineDetected' = ~IsAt("CR", 3)
  /\ at' = IF lineDetected' THEN "end" ELSE "check"

LoneCR ==
  /\ Parse("seek") /\ NoLine
  /\ Where("CR") = 1 /\ m_inputPos >= 3 /\ ~IsAt("LF", 2)
  /\ Discard(1) /\ at' = "check" /\ UNCHANGED lineDetected

\* A line without a start may be the echo.
EchoLine ==
  /\ Parse("seek")
  /\ Where("CR") > 1
  /\ ProcessReadLine(Before(Where("CR")))
  /\ Discard(IF IsAt("LF", Where("CR") + 1) THEN Where("CR") + 1 ELSE Where("CR"))
  /\ at' = "seek" /\ lineDetected' = FALSE

LoneLF ==
  /\ Parse("seek") /\ NoLine
  /\ Where("CR") = 0 /\ IsAt("LF", 1)
  /\ Discard(1) /\ at' = "check" /\ UNCHANGED lineDetected

NoStart ==
  /\ Parse("seek") /\ NoLine
  /\ \/ Where("CR") = 1 /\ m_inputPos < 3
     \/ Where("CR") = 0 /\ ~IsAt("LF", 1)
  /\ at' = "check" /\ UNCHANGED input

EndOfLine ==
  /\ Parse("end")
  /\ Where("CR") > 0 /\ Behind(Where("CR")) >= 2 /\ IsAt("LF", Where("CR") + 1)
  /\ ProcessReadLine(Before(Where("CR")))
  /\ Discard(Where("CR") + 1)
  /\ at' = "seek" /\ lineDetected' = FALSE

BrokenLine ==
  /\ Parse("end") /\ NoLine
  /\ Where("CR") > 0 /\ Behind(Where("CR")) >= 2 /\ ~IsAt("LF", Where("CR") + 1)
  /\ Discard(Where("CR"))
  /\ at' = "check" /\ lineDetected' = FALSE

\* More data is needed; lineDetected stays for the next read, which clears
\* the line.
NoEnd ==
  /\ Parse("end") /\ NoLine
  /\ Where("CR") = 0 \/ Behind(Where("CR")) < 2
  /\ at' = "check" /\ UNCHANGED input

PreProcess ==
  \/ StartOfLine \/ LoneCR \/ EchoLine \/ LoneLF \/ NoStart
  \/ EndOfLine \/ BrokenLine \/ NoEnd

=============================================================================
