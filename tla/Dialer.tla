------------------------------- MODULE Dialer -------------------------------
(***************************************************************************)
(* Dialing and redialing: the thread pppDialing, the connection attempt of *)
(* PPPIPInterface::connect, the link status callback that lwIP's thread    *)
(* runs, and what they share: the one-place queue redial, two flags, a     *)
(* binary semaphore and the error code beside it.                          *)
(*                                                                         *)
(* External: lwIP's PPP unit (there is one, NUM_PPP = 1) and the modem,    *)
(* whose AT phase either succeeds or fails.                                *)
(***************************************************************************)
EXTENDS Naturals

VARIABLES
  \* pppDialing and connect
  dpc,       \* "get": in redial.get; "test": the while of a redial; "at": AT
             \* phase; "drained": past wait(0); "sem": blocked on the semaphore;
             \* "woken": before m_pppd is settled; "result": before the switch
  mode,      \* "first" dial or "redial", chosen when a message is taken
  pppd,      \* m_pppd: 0 for -1, 1 for the unit
  \* the link status callback
  cb,        \* "idle"; "put": before redial.put; "post": before wait(0) and
             \* the error code; "release": before release
  code,      \* errCode of the callback under way
  \* shared
  queue,     \* messages in redial, at most 1
  pppDialingSuccessFlag, pppRedialingSuccessFlag,
  sem,       \* m_linkStatusSphre
  pppErrCode,
  \* external
  link       \* the PPP unit: "closed", "opening", "up", "down"

dialer == <<dpc, mode, pppd>>
callback == <<cb, code>>
flags == <<pppDialingSuccessFlag, pppRedialingSuccessFlag>>
status == <<sem, pppErrCode>>
vars == <<dialer, callback, queue, flags, status, link>>

Codes == {"none", "connect", "terminated"}

(* Plausible mistakes in the code, each in the place of the definition that  *)
(* its comment names.                                                      *)

\* Put: messages are counted, or the put is forgotten.
PutCounted == queue' = queue + 1
PutForgotten == queue' = queue
\* Overwrite: a status that was not handled yet is kept.
OverwriteHandled == sem' = sem /\ pppErrCode' = IF sem = 1 THEN pppErrCode ELSE code
\* Release: a terminated link is not reported.
ReleaseIfLinked == sem' = IF code = "terminated" THEN sem ELSE 1

\* main puts the first message when the threads have started.
Init ==
  /\ dpc = "get" /\ mode = "first" /\ pppd = 0
  /\ cb = "idle" /\ code = "none"
  /\ queue = 1
  /\ pppDialingSuccessFlag = 0 /\ pppRedialingSuccessFlag = 0
  /\ sem = 0 /\ pppErrCode = "none"
  /\ link = "closed"

-----------------------------------------------------------------------------
(* pppDialing.  The message is the address of pppDialingSuccessFlag, which *)
(* is read when the message is taken, not when it is put.                  *)

GetMessage ==
  /\ dpc = "get" /\ queue = 1
  /\ queue' = 0
  /\ IF pppDialingSuccessFlag = 1
       THEN mode' = "redial" /\ dpc' = "test"
       ELSE mode' = "first" /\ dpc' = "at"
  /\ UNCHANGED <<pppd, callback, flags, status, link>>

TestRedialed ==
  /\ dpc = "test"
  /\ dpc' = IF pppRedialingSuccessFlag = 1 THEN "get" ELSE "at"
  /\ UNCHANGED <<mode, pppd, callback, queue, flags, status, link>>

\* connect returns: a redial looks at the flag again, a first dial is not
\* tried again but for a message in the queue.
ConnectReturns(ok) ==
  IF mode = "redial"
    THEN dpc' = "test" /\ UNCHANGED pppDialingSuccessFlag
    ELSE /\ dpc' = "get"
         /\ pppDialingSuccessFlag' = IF ok THEN 1 ELSE pppDialingSuccessFlag

\* The modem or its AT dialogue fails: the interface was not asked.
AtFails ==
  /\ dpc = "at"
  /\ ConnectReturns(FALSE)
  /\ UNCHANGED <<mode, pppd, callback, queue, pppRedialingSuccessFlag, status,
                 link>>

\* The modem answers CONNECT; a status posted before is thrown away.
AtSucceeds ==
  /\ dpc = "at"
  /\ sem' = 0
  /\ dpc' = "drained"
  /\ UNCHANGED <<mode, pppd, callback, queue, flags, pppErrCode, link>>

\* NET_INVALID: it believes to be connected.  NET_FULL: the unit is in use.
OpenRefused ==
  /\ dpc = "drained"
  /\ (pppd = 1 /\ pppErrCode = "none") \/ link # "closed"
  /\ ConnectReturns(FALSE)
  /\ UNCHANGED <<mode, pppd, callback, queue, pppRedialingSuccessFlag, status,
                 link>>

\* pppOverSerialOpen
Open ==
  /\ dpc = "drained"
  /\ ~(pppd = 1 /\ pppErrCode = "none") /\ link = "closed"
  /\ link' = "opening"
  /\ pppd' = 1
  /\ dpc' = "sem"
  /\ UNCHANGED <<mode, callback, queue, flags, status>>

Wake ==
  /\ dpc = "sem" /\ sem = 1
  /\ sem' = 0
  /\ dpc' = "woken"
  /\ UNCHANGED <<mode, pppd, callback, queue, flags, pppErrCode, link>>

\* The error code is read once to settle m_pppd and once for the result, and
\* the callback may run in between.
SettleDescriptor ==
  /\ dpc = "woken"
  /\ pppd' = IF pppErrCode = "none" THEN 1 ELSE 0
  /\ dpc' = "result"
  /\ UNCHANGED <<mode, callback, queue, flags, status, link>>

Result ==
  /\ dpc = "result"
  /\ ConnectReturns(pppErrCode = "none")
  /\ UNCHANGED <<mode, pppd, callback, queue, pppRedialingSuccessFlag, status,
                 link>>

-----------------------------------------------------------------------------
(* lwIP's thread: what happens to the unit, and linkStatusCb step by step. *)

\* sifup, first time or after IPCP was negotiated anew
LinkUp ==
  /\ cb = "idle" /\ link \in {"opening", "down"}
  /\ link' = "up"
  /\ pppRedialingSuccessFlag' = 1
  /\ code' = "none" /\ cb' = "post"
  /\ UNCHANGED <<dialer, queue, pppDialingSuccessFlag, status>>

\* sifdown
LinkLost ==
  /\ cb = "idle" /\ link = "up"
  /\ link' = "down"
  /\ pppRedialingSuccessFlag' = 0
  /\ code' = "connect" /\ cb' = "put"
  /\ UNCHANGED <<dialer, queue, pppDialingSuccessFlag, status>>

\* A full queue drops the message: put does not wait.
Put == queue' = 1

PutRedial ==
  /\ cb = "put"
  /\ Put
  /\ cb' = "post"
  /\ UNCHANGED <<dialer, code, flags, status, link>>

\* pppLinkTerminated, by protocol or authentication
LinkTerminates ==
  /\ cb = "idle" /\ link \in {"opening", "down"}
  /\ code' = "terminated" /\ cb' = "post"
  /\ UNCHANGED <<dialer, queue, flags, status, link>>

\* An event that has not been handled is deleted.
Overwrite == sem' = 0 /\ pppErrCode' = code

PostStatus ==
  /\ cb = "post"
  /\ Overwrite
  /\ cb' = "release"
  /\ UNCHANGED <<dialer, code, queue, flags, link>>

Release == sem' = 1

\* Only when the callback returns does lwIP free a terminated unit.
ReleaseStatus ==
  /\ cb = "release"
  /\ Release
  /\ cb' = "idle"
  /\ link' = IF code = "terminated" THEN "closed" ELSE link
  /\ UNCHANGED <<dialer, code, queue, flags, pppErrCode>>

Dial == \/ GetMessage \/ TestRedialed \/ AtFails \/ AtSucceeds \/ OpenRefused
        \/ Open \/ Wake \/ SettleDescriptor \/ Result
Lwip == LinkUp \/ LinkLost \/ PutRedial \/ LinkTerminates \/ PostStatus
        \/ ReleaseStatus

Next == Dial \/ Lwip

Spec == Init /\ [][Next]_vars

(***************************************************************************)
(* Both threads are scheduled; the modem connects again and again if asked *)
(* again and again, and so does the network; a lost link is torn down.     *)
(***************************************************************************)
Fairness ==
  /\ WF_vars(GetMessage) /\ WF_vars(TestRedialed) /\ WF_vars(OpenRefused)
  /\ WF_vars(Open) /\ WF_vars(Wake) /\ WF_vars(SettleDescriptor)
  /\ WF_vars(Result) /\ WF_vars(AtSucceeds \/ AtFails)
  /\ WF_vars(PutRedial) /\ WF_vars(PostStatus) /\ WF_vars(ReleaseStatus)
  /\ WF_vars(LinkTerminates \/ LinkUp)
  /\ SF_vars(AtSucceeds) /\ SF_vars(LinkUp)

FairSpec == Spec /\ Fairness

-----------------------------------------------------------------------------
\* Every variable stays in its range.
TypeOK ==
  /\ dpc \in {"get", "test", "at", "drained", "sem", "woken", "result"}
  /\ mode \in {"first", "redial"} /\ pppd \in {0, 1}
  /\ cb \in {"idle", "put", "post", "release"} /\ code \in Codes
  /\ queue \in {0, 1} /\ sem \in {0, 1} /\ pppErrCode \in Codes
  /\ pppDialingSuccessFlag \in {0, 1} /\ pppRedialingSuccessFlag \in {0, 1}
  /\ link \in {"closed", "opening", "up", "down"}

\* Once the device has been online, a lost link is never forgotten: a message
\* is queued or about to be, or the dialer is at work on a redial.
NoLostRedial ==
  pppDialingSuccessFlag = 1 /\ pppRedialingSuccessFlag = 0 =>
    queue = 1 \/ cb = "put" \/ (mode = "redial" /\ dpc # "get")

\* A dialer blocked on the semaphore without a timeout has something to wait
\* for: a status is posted or under way, or the unit still owes one.
BlockedDialerHasEvent ==
  dpc = "sem" => sem = 1 \/ cb # "idle" \/ link # "closed"

\* The device counts as online only after a status "connected" that no later
\* status had overtaken: the link was up, and at worst its loss is being posted.
OnlineMeansUp ==
  dpc = "result" /\ pppErrCode = "none" => link = "up" \/ cb # "idle"

\* A link lost after the device has been online comes up again.
RedialReconnects ==
  (pppDialingSuccessFlag = 1 /\ pppRedialingSuccessFlag = 0)
    ~> pppRedialingSuccessFlag = 1
=============================================================================
