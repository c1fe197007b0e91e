---------------------------- MODULE HuaweiModem ----------------------------
(***************************************************************************)
(* HuaweiUSBCDMAModem::connect and init over AtCommand: the dongle is      *)
(* awaited once, the link reset with up to seven ATZ, and the network      *)
(* registration asked for until it is known.                               *)
(*                                                                         *)
(* External: the dongle, which appears when it is enumerated and may be    *)
(* pulled out, and m_ppp.connect (module Dialer), which clears the wire.   *)
(* The power gating pin is not connected (main.cpp passes NC).             *)
(***************************************************************************)
EXTENDS AtCommand

CONSTANT Resets \* ATZ commands sent at most: 7

ASSUME ResetsAssumption == Resets \in Nat \ {0}

VARIABLES
  pc,            \* "rest", "init", "wait", "atz", "creg", "apn", "ppp"
  resets,        \* tries of ATCommandsInterface::init
  status,        \* of the CREGProcessor
  m_dongleConnected, m_atOpen,
  result,        \* of connect: "none", "OK", "NET_AUTH" or "failed"
  dongle         \* "absent", "found" or "gone"

init == <<resets, status, m_dongleConnected, m_atOpen, result>>
vars == <<atVars, pc, init, dongle>>

\* Judged: a modem that searches counts as registered, or no line is heeded.
JudgedEarly(h) == IF h = "denied" THEN "FAILED" ELSE "OK"
JudgedNever(h) == "REGISTERING"

Init ==
  /\ AtInit
  /\ pc = "rest" /\ resets = 0 /\ status = "REGISTERING"
  /\ m_dongleConnected = FALSE /\ m_atOpen = FALSE
  /\ result = "none" /\ dongle = "absent"

-----------------------------------------------------------------------------
Connect ==
  /\ pc = "rest" /\ pc' = "init"
  /\ result' = "none"
  /\ UNCHANGED <<atVars, resets, status, m_dongleConnected, m_atOpen, dongle>>

Returns(r) == pc' = "rest" /\ result' = r

\* The dongle is awaited by the first init only.
InitDongle ==
  /\ pc = "init"
  /\ m_dongleConnected' = TRUE
  /\ IF ~m_dongleConnected THEN pc' = "wait" /\ UNCHANGED resets
     ELSE IF m_atOpen THEN pc' = "apn" /\ UNCHANGED resets
     ELSE pc' = "atz" /\ resets' = Resets - 1
  /\ UNCHANGED <<atVars, status, m_atOpen, result, dongle>>

TryConnect ==
  /\ pc = "wait" /\ dongle = "absent"
  /\ dongle' = "found"
  /\ UNCHANGED <<atVars, pc, init>>

DongleConnected ==
  /\ pc = "wait" /\ dongle # "absent"
  /\ pc' = "atz" /\ resets' = Resets - 1
  /\ UNCHANGED <<atVars, status, m_dongleConnected, m_atOpen, result, dongle>>

\* A command is executed at its place in connect.
Command ==
  /\ \/ pc = "atz" /\ Execute("ATZ E1 V1")
     \/ pc = "creg" /\ Execute("AT+CREG?")
     \/ pc = "apn" /\ Execute("AT+CGDCONT")
  /\ UNCHANGED <<pc, init, dongle>>

\* It returns, and its local variables are gone.
Returned(place) ==
  /\ pc = place /\ at = "done" /\ at' = "rest"
  /\ tries' = 0 /\ ret' = "OK" /\ heard' = "none" /\ own' = FALSE
  /\ UNCHANGED <<transaction, input, modem, counts, m_dongleConnected, dongle>>

ResetReturned ==
  /\ Returned("atz")
  /\ \/ ret = "OK" /\ pc' = "creg" /\ resets' = 0 /\ UNCHANGED result
     \/ ret # "OK" /\ resets > 0 /\ resets' = resets - 1 /\ UNCHANGED <<pc, result>>
     \/ ret # "OK" /\ resets = 0 /\ Returns("failed") /\ UNCHANGED resets
  /\ status' = "REGISTERING" \* a new CREGProcessor
  /\ UNCHANGED m_atOpen

Judged(h) == CASE h = "none"       -> status
               [] h = "searching"  -> "REGISTERING"
               [] h = "registered" -> "OK"
               [] h = "denied"     -> "FAILED"

\* The result of the command is not looked at.
RegistrationReturned ==
  /\ Returned("creg")
  /\ status' = Judged(heard)
  /\ \/ status' = "REGISTERING" /\ UNCHANGED <<pc, m_atOpen, result>>
     \/ status' = "FAILED" /\ Returns("NET_AUTH") /\ UNCHANGED m_atOpen
     \/ status' = "OK" /\ pc' = "apn" /\ m_atOpen' = TRUE /\ UNCHANGED result
  /\ UNCHANGED resets

\* Nor is that of AT+CGDCONT.
ApnReturned ==
  /\ Returned("apn") /\ pc' = "ppp"
  /\ UNCHANGED <<resets, status, m_atOpen, result>>

PppConnect ==
  /\ pc = "ppp"
  /\ wire' = <<>>
  /\ \E r \in {"OK", "failed"} : Returns(r)
  /\ UNCHANGED <<at, transaction, input, tries, ret, heard, reg, own, counts,
                 resets, status, m_dongleConnected, m_atOpen, dongle>>

Unplug ==
  /\ at \in {"rest", "write", "read"} /\ dongle = "found" /\ dongle' = "gone"
  /\ wire' = <<>>
  /\ UNCHANGED <<at, transaction, input, tries, ret, heard, reg, own, counts,
                 pc, init>>

\* Nothing is transferred without the dongle.
Transaction ==
  /\ \/ dongle = "found" /\ (Write \/ Read \/ ReadEmpty)
     \/ WriteFails(dongle = "found")
     \/ ReadFails \/ CheckLoop \/ PreProcess
  /\ UNCHANGED <<pc, init, dongle>>

Host == \/ InitDongle \/ DongleConnected \/ Command \/ Transaction
        \/ ResetReturned \/ RegistrationReturned \/ ApnReturned \/ PppConnect

Modem ==
  /\ dongle = "found"
  /\ ModemReports \/ ModemRegisters
  /\ UNCHANGED <<pc, init, dongle>>

Next == Connect \/ Host \/ TryConnect \/ Modem \/ Unplug

Spec == Init /\ [][Next]_vars

(***************************************************************************)
(* Fairness: the thread that dials is scheduled and a transfer ends        *)
(* (its retries are counted); a dongle that is awaited is enumerated; the  *)
(* modem is registered, or denied, at last.                                *)
(***************************************************************************)
FairSpec ==
  Spec /\ WF_vars(Host) /\ WF_vars(TryConnect) /\ WF_vars(Modem /\ ModemRegisters)

-----------------------------------------------------------------------------
(* Properties.                                                             *)

\* Every variable stays in its range; the fill pointer is inside the buffer as
\* long as no transfer was cut.  After that the code does not bound it: each
\* transfer is added to what the cut one left (FillPointer).
TypeOK ==
  /\ at \in {"rest", "write", "read", "seek", "end", "check", "done"}
  /\ m_transactionState \in {"IDLE", "COMMAND_SENT", "READING_RESULT"}
  /\ m_transactionResult \in {"AT_OK", "AT_ERROR"}
  /\ m_inputPos \in Nat /\ (splits = 0 => m_inputPos < BufSize) /\ lineDetected \in BOOLEAN
  /\ tries \in 0 .. Reads - 1 /\ ret \in {"OK", "NET_MOREINFO", "failed"}
  /\ heard \in {"none", "searching", "registered", "denied"}
  /\ reg \in {"searching", "registered", "denied"} /\ own \in BOOLEAN
  /\ pc \in {"rest", "init", "wait", "atz", "creg", "apn", "ppp"}
  /\ resets \in 0 .. Resets - 1 /\ status \in {"REGISTERING", "OK", "FAILED"}
  /\ m_dongleConnected \in BOOLEAN /\ m_atOpen \in BOOLEAN
  /\ result \in {"none", "OK", "NET_AUTH", "failed"}
  /\ dongle \in {"absent", "found", "gone"}

\* A command that returns a result returns its own answer's, however the
\* answers are packed and although "OK" after "+CREG:" is left for the next
\* command: the five reads cover that line, the echo, the answer, and two lines
\* nobody asked for or empty transfers.  A third of these, a transfer that ends
\* within a line, or an answer after its read, and an older result is returned.
AnswerIsOwn ==
  /\ at = "done" /\ ret # "failed"
  /\ splits = 0 /\ late = 0 /\ noise + 3 <= Reads
  => own

\* The modem is taken for ready, or for denied, only when it said so, however
\* garbled or late its lines are.
OpenIsRegistered ==
  /\ m_atOpen => reg = "registered"
  /\ result = "NET_AUTH" => reg = "denied"

\* As long as transfers end with a line, the fill pointer is where the data
\* ends, and a read starts at the front.
FillPointerWhole ==
  splits = 0 => /\ at \in {"seek", "end"} => m_inputPos = Len(m_inputBuf)
                /\ at = "read" => m_inputPos = 0 /\ ~lineDetected

\* connect returns when the modem registers or is denied, whatever was garbled
\* or late before, but for a dongle that is pulled out: the loop that asks for
\* the registration has no limit.
ConnectEnds == (pc # "rest") ~> (pc = "rest" \/ dongle = "gone")

\* The comment "Current position of fill pointer in the input buffer": it is
\* where the data ends when lines are looked for.
FillPointer == at \in {"seek", "end"} => m_inputPos = Len(m_inputBuf)
=============================================================================
