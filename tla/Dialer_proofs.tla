---------------------------- MODULE Dialer_proofs ----------------------------
(***************************************************************************)
(* The safety of dialing and redialing, whatever the order in which the    *)
(* dialer and lwIP's thread run.                                           *)
(***************************************************************************)
EXTENDS Dialer, TLAPS

(***************************************************************************)
(* A status under way says what became of the link, and the status the     *)
(* dialer is waiting for or has taken is outdated only as long as lwIP is  *)
(* at work on the next one; if that is the loss of the link, a message for *)
(* the dialer is there before it.                                          *)
(***************************************************************************)
Taken == dpc \in {"woken", "result"}

StatusFits ==
  /\ cb = "put" => code = "connect"
  /\ cb \in {"post", "release"} /\ code = "none" =>
       link = "up" /\ pppRedialingSuccessFlag = 1
  /\ cb = "release" => pppErrCode = code
  /\ pppErrCode = "none" /\ (sem = 1 \/ Taken) => link = "up" \/ cb # "idle"

LossIsQueued ==
  /\ pppErrCode = "none" /\ pppRedialingSuccessFlag = 0
       /\ (Taken \/ (dpc \in {"drained", "sem"} /\ sem = 1))
     => queue = 1 \/ cb = "put"
  /\ mode = "first" /\ dpc # "get" => pppDialingSuccessFlag = 0

DialerInv == TypeOK /\ StatusFits /\ LossIsQueued /\ NoLostRedial

\* No step of the dialer or of lwIP's thread loses a status or a redial.
LEMMA DialerInvInductive == DialerInv /\ [Next]_vars => DialerInv'
<1> SUFFICES ASSUME DialerInv, [Next]_vars PROVE DialerInv'
  OBVIOUS
<1> USE DEF DialerInv, TypeOK, Codes, StatusFits, Taken, LossIsQueued, NoLostRedial,
        dialer, callback, flags, status
<1>1. CASE GetMessage
  BY <1>1 DEF GetMessage
<1>2. CASE TestRedialed
  BY <1>2 DEF TestRedialed
<1>3. CASE AtFails
  BY <1>3 DEF AtFails, ConnectReturns
<1>4. CASE AtSucceeds
  BY <1>4 DEF AtSucceeds
<1>5. CASE OpenRefused
  BY <1>5 DEF OpenRefused, ConnectReturns
<1>6. CASE Open
  BY <1>6 DEF Open
<1>7. CASE Wake
  BY <1>7 DEF Wake
<1>8. CASE SettleDescriptor
  BY <1>8 DEF SettleDescriptor
<1>9. CASE Result
  BY <1>9 DEF Result, ConnectReturns
<1>10. CASE LinkUp
  BY <1>10 DEF LinkUp
<1>11. CASE LinkLost
  BY <1>11 DEF LinkLost
<1>12. CASE PutRedial
  BY <1>12 DEF PutRedial, Put
<1>13. CASE LinkTerminates
  BY <1>13 DEF LinkTerminates
<1>14. CASE PostStatus
  BY <1>14 DEF PostStatus, Overwrite
<1>15. CASE ReleaseStatus
  BY <1>15 DEF ReleaseStatus, Release
<1>16. CASE UNCHANGED vars
  BY <1>16 DEF vars
<1> QED
  BY <1>1, <1>2, <1>3, <1>4, <1>5, <1>6, <1>7, <1>8, <1>9, <1>10, <1>11, <1>12,
     <1>13, <1>14, <1>15, <1>16 DEF Next, Dial, Lwip

LEMMA DialerInvAlways == Spec => []DialerInv
<1>1. Init => DialerInv
  BY DEF Init, DialerInv, TypeOK, Codes, StatusFits, Taken, LossIsQueued, NoLostRedial
<1> QED
  BY <1>1, DialerInvInductive, PTL DEF Spec

\* Every variable of the dialer keeps its range: in particular the
\* queue never holds more than one message.
THEOREM DialerTypeCorrect == Spec => []TypeOK
<1>1. DialerInv => TypeOK
  BY DEF DialerInv
<1> QED
  BY <1>1, DialerInvAlways, PTL

\* A lost link is never forgotten once the device has been online.
THEOREM RedialIsNeverLost == Spec => []NoLostRedial
<1>1. DialerInv => NoLostRedial
  BY DEF DialerInv
<1> QED
  BY <1>1, DialerInvAlways, PTL

\* The device takes itself to be online only on a status not overtaken.
THEOREM OnlineIsUp == Spec => []OnlineMeansUp
<1>1. DialerInv => OnlineMeansUp
  BY DEF DialerInv, StatusFits, Taken, OnlineMeansUp
<1> QED
  BY <1>1, DialerInvAlways, PTL

\* A dialer blocked without a timeout has an event to wait for.
THEOREM BlockedDialerIsWoken == Spec => []BlockedDialerHasEvent
<1>1. Init => BlockedDialerHasEvent
  BY DEF Init, BlockedDialerHasEvent
<1>2. BlockedDialerHasEvent /\ [Next]_vars => BlockedDialerHasEvent'
  <2> SUFFICES ASSUME BlockedDialerHasEvent, [Next]_vars PROVE BlockedDialerHasEvent'
    OBVIOUS
  <2> USE DEF BlockedDialerHasEvent, dialer, callback, flags, status
  <2>1. CASE Dial
    BY <2>1 DEF Dial, GetMessage, TestRedialed, AtFails, AtSucceeds, OpenRefused, Open,
       Wake, SettleDescriptor, Result, ConnectReturns
  <2>2. CASE Lwip
    BY <2>2 DEF Lwip, LinkUp, LinkLost, PutRedial, Put, LinkTerminates,
       PostStatus, Overwrite, ReleaseStatus, Release
  <2>3. CASE UNCHANGED vars
    BY <2>3 DEF vars
  <2> QED
    BY <2>1, <2>2, <2>3 DEF Next
<1> QED
  BY <1>1, <1>2, PTL DEF Spec
=============================================================================
