--------------------------- MODULE SocketExchange ---------------------------
(***************************************************************************)
(* The requests of remoteupdate.cpp and their replies.  One UDP socket     *)
(* serves the four request functions; a request waits at most 5 seconds    *)
(* for a reply, and whatever datagram is the oldest in the socket is taken *)
(* for it: neither the message id, nor the token, nor the number in the    *)
(* Block2 option is compared.  A reply that outlives its request therefore *)
(* answers a later one.                                                    *)
(*                                                                         *)
(* External: the server, which answers each request once, and the network, *)
(* which keeps the order of replies but may lose, repeat or delay them.    *)
(* A delay is a timeout with the reply still under way.                    *)
(*                                                                         *)
(* Left to FirmwareUpdate: slots, erasing and the sender; a stored block   *)
(* is the next element of "cells" here.                                    *)
(***************************************************************************)
EXTENDS Naturals, Sequences

CONSTANTS
  Files,          \* images the server may name
  ImageBlocks,    \* blocks of each
  ReportEvery,    \* blocks between two status reports of a download: 8
  Tries,          \* tryNum, tryNum1 and tryNum2: 5
  Retries,        \* retryNum of the registration: 120
  ReceiveTimeout, AnswerWait, RetryWait, \* 5, 3 and 1 seconds
  MaxLost,        \* bound: replies lost
  MaxStray        \* bound: replies that outlive their request

ASSUME ExchangeAssumption ==
  /\ Files # {} /\ ImageBlocks \in [Files -> Nat \ {0}]
  /\ ReportEvery \in Nat \ {0} /\ Tries \in Nat \ {0} /\ Retries \in Nat
  /\ ReceiveTimeout \in Nat /\ AnswerWait \in Nat /\ RetryWait \in Nat
  /\ MaxLost \in Nat /\ MaxStray \in Nat

VARIABLES
  step,         \* "register", then DeviceUpdateStep; "again": registering anew
  call,         \* the request function running; "report": within "file"
  pc,           \* "rest"; "top" of the download loop; "send"; "recv"
  tryNum, retryNum,
  updateCommandFlag,
  file,         \* the image that updateinfo names
  blk, nextBlock, tryNum1, tryNum2, \* of deviceGetSaveUpdatefile
  cells,        \* the blocks stored since its last start
  replies,      \* on their way or in the socket, the oldest first
  answered,     \* the request in hand was answered
  \* History, and the counters that bound the model.
  lost, stray,
  downloads,    \* starts of deviceGetSaveUpdatefile, counted to 2
  secs          \* least time spent registering

caller == <<step, retryNum, updateCommandFlag, file>>
loop == <<blk, nextBlock, tryNum1, tryNum2, cells>>
bookkeeping == <<lost, stray, downloads>>
vars == <<caller, call, pc, tryNum, loop, replies, answered, bookkeeping, secs>>

Plain(k) == [kind |-> k, file |-> "none", n |-> 0]
Info(f) == [kind |-> "info", file |-> f, n |-> 0]
Block(f, n) == [kind |-> "block", file |-> f, n |-> n]

\* JSON answers whose member success is true: the last two with the update
\* command, and with type and newVersionNo.
Success(r) == r.kind \in {"ok", "update", "info"}

\* What the server may answer to the request in hand.
Wanted ==
  CASE call = "register" -> {Plain("ok")}
    [] call \in {"status", "report"} -> {Plain("ok"), Plain("update")}
    [] call = "info" -> {Info(f) : f \in Files}
    [] call = "file" /\ blk < ImageBlocks[file] -> {Block(file, blk)}
    [] OTHER -> {}
Answers == Wanted \cup {Plain("fail")}

(* Plausible mistakes in the code, each in the place of the definition that  *)
(* its comment names.                                                        *)

\* Left: a datagram is looked at and stays in the socket.
LeftUnread == replies
\* Place: the block is stored where the next one belongs.
PlaceOfNext == blk + 1
\* Spend: the tries of a function are not counted, or counted upwards.
SpendNothing(n) == n
SpendUpwards(n) == n + 1
\* More: a block is taken for the last one.
MoreNever(b) == 0

Init ==
  /\ step = "register" /\ retryNum = Retries
  /\ call = "none" /\ pc = "rest" /\ tryNum = 0
  /\ updateCommandFlag = 0 /\ file \in Files
  /\ blk = 0 /\ nextBlock = 0 /\ tryNum1 = 0 /\ tryNum2 = 0
  /\ cells = <<>>
  /\ replies = <<>> /\ answered = FALSE
  /\ lost = 0 /\ stray = 0 /\ downloads = 0 /\ secs = 0

-----------------------------------------------------------------------------
(* startRemoteUpdate: which function is called, and what its result does.  *)

CallFunction(f) ==
  /\ pc = "rest"
  /\ call' = f /\ tryNum' = Tries /\ pc' = "send"
  /\ UNCHANGED <<caller, loop, bookkeeping, replies, answered, secs>>

CallRegister == step \in {"register", "again"} /\ CallFunction("register")
CallStatusReport == step \in {"idle", "complete"} /\ CallFunction("status")
CallGetUpdateinfo == step = "command" /\ CallFunction("info")

\* A download starts in a fresh slot.
CallGetSaveUpdatefile ==
  /\ step = "ongoing" /\ pc = "rest"
  /\ call' = "file" /\ pc' = "top"
  /\ blk' = 0 /\ nextBlock' = 0 /\ tryNum1' = Tries /\ tryNum2' = Tries
  /\ cells' = <<>>
  /\ downloads' = IF downloads = 2 THEN 2 ELSE downloads + 1
  /\ UNCHANGED <<caller, tryNum, replies, answered, lost, stray, secs>>

\* The completion flag of the sender ends "complete", with a registration if
\* the version could be recorded.
StepsAfter(ok, flag) ==
  CASE step = "register" -> {IF ok \/ retryNum = 0 THEN "idle" ELSE "register"}
    [] step = "again"    -> {"idle"}
    [] step = "idle"     -> {IF ok /\ flag = 1 THEN "command" ELSE "idle"}
    [] step = "command"  -> IF ok THEN {"ongoing", "command"} ELSE {"command"}
    [] step = "ongoing"  -> {IF ok THEN "complete" ELSE "ongoing"}
    [] step = "complete" -> {"complete", "again", "idle"}

After(d) == secs' = IF step = "register" THEN secs + d ELSE secs

\* A request function returns; d seconds have passed since its last step.  A
\* report made within a download returns to it whatever its result.
Return(ok, flag, d) ==
  IF call = "report"
    THEN /\ call' = "file" /\ pc' = "send"
         /\ updateCommandFlag' = flag
         /\ UNCHANGED <<step, retryNum, secs>>
    ELSE /\ call' = "none" /\ pc' = "rest"
         /\ step' \in StepsAfter(ok, flag)
         /\ retryNum' = IF step = "register" /\ ~ok /\ retryNum > 0
                          THEN retryNum - 1 ELSE retryNum
         /\ updateCommandFlag' = IF step = "idle" /\ ok THEN 0 ELSE flag
         /\ After(d + RetryWait)
Fails(d) == Return(FALSE, updateCommandFlag, d)

\* Back to the request, or to the top of the download loop.
Again(place) ==
  pc' = place /\ UNCHANGED <<call, step, retryNum, updateCommandFlag>>

-----------------------------------------------------------------------------
(* The socket.                                                             *)

\* The status is reported before the request of every eighth block.
LoopTop ==
  /\ pc = "top"
  /\ pc' = "send"
  /\ IF blk % ReportEvery = 0
       THEN call' = "report" /\ tryNum' = Tries
       ELSE UNCHANGED <<call, tryNum>>
  /\ UNCHANGED <<caller, loop, bookkeeping, replies, answered, secs>>

\* send: the request is answered once, or the answer is lost, or repeated.
Send ==
  /\ pc = "send" /\ pc' = "recv"
  /\ \E r \in Answers :
       \/ /\ replies' = Append(replies, r) /\ answered' = TRUE
          /\ UNCHANGED <<lost, stray>>
       \/ /\ lost < MaxLost /\ lost' = lost + 1
          /\ answered' = FALSE
          /\ UNCHANGED <<replies, stray>>
       \/ /\ stray < MaxStray /\ stray' = stray + 1
          /\ replies' = replies \o <<r, r>> /\ answered' = TRUE
          /\ UNCHANGED lost
  /\ UNCHANGED <<caller, call, tryNum, loop, downloads, secs>>

SendFails ==
  /\ pc = "send"
  /\ Fails(0)
  /\ UNCHANGED <<file, tryNum, loop, bookkeeping, replies, answered>>

Left == Tail(replies)

\* recvfrom returns a datagram.
Take(r) ==
  /\ pc = "recv" /\ replies # <<>>
  /\ r = Head(replies)
  /\ replies' = Left
  /\ UNCHANGED <<answered, bookkeeping>>

\* Nothing arrived in time; an answer on its way will meet a later request.
NothingTaken ==
  /\ pc = "recv"
  /\ IF answered THEN stray < MaxStray /\ stray' = stray + 1
                 ELSE UNCHANGED stray
  /\ UNCHANGED <<replies, answered, lost, downloads>>

-----------------------------------------------------------------------------
(* deviceRegister, deviceStatusReport, deviceGetUpdateinfo.                *)

Plainly == call # "file"

\* The request is taken to be answered.  An answer with success but without a
\* type, which a report wanted, fails the update query.
ReceiveSuccess(r) ==
  /\ Plainly /\ Take(r) /\ Success(r)
  /\ IF call = "info" /\ r.kind # "info"
       THEN Fails(0)
       ELSE Return(TRUE, IF call \in {"status", "report"} /\ r.kind = "update"
                           THEN 1 ELSE updateCommandFlag, 0)
  /\ file' = IF call = "info" /\ r.kind = "info" THEN r.file ELSE file
  /\ UNCHANGED <<tryNum, loop>>

Spend(n) == n - 1

\* Any other answer, a block among them, costs a try.
ReceiveOther(r) ==
  /\ Plainly /\ Take(r) /\ ~Success(r)
  /\ tryNum' = Spend(tryNum)
  /\ IF tryNum' = 0
       THEN Fails(AnswerWait)
       ELSE Again("send") /\ After(AnswerWait)
  /\ UNCHANGED <<file, loop>>

ReceiveTimesOut ==
  /\ Plainly /\ NothingTaken
  /\ Fails(ReceiveTimeout)
  /\ UNCHANGED <<file, tryNum, loop>>

-----------------------------------------------------------------------------
(* The loop of deviceGetSaveUpdatefile.                                    *)

Place == blk
More(b) == IF b.n + 1 = ImageBlocks[b.file] THEN 0 ELSE 1

\* The block goes to the place of the block asked for.
StoreBlock(b) ==
  /\ call = "file" /\ Take(b) /\ b.kind = "block"
  /\ cells' = [i \in DOMAIN cells \cup {Place} |-> IF i = Place THEN b ELSE cells[i]]
  /\ blk' = blk + 1 /\ nextBlock' = More(b)
  /\ tryNum1' = Tries /\ tryNum2' = Tries
  /\ IF More(b) = 1 THEN Again("top") /\ UNCHANGED secs
                    ELSE Return(TRUE, updateCommandFlag, 0)
  /\ UNCHANGED <<file, tryNum>>

\* A JSON answer, whichever request it answers: the file is not ready.
FileNotReady(r) ==
  /\ call = "file" /\ Take(r) /\ r.kind # "block"
  /\ nextBlock' = 1 /\ tryNum1' = Tries
  /\ IF tryNum2 = 0
       THEN Fails(0) /\ UNCHANGED tryNum2
       ELSE Again("top") /\ tryNum2' = Spend(tryNum2) /\ UNCHANGED secs
  /\ UNCHANGED <<file, tryNum, blk, cells>>

\* "continue" goes to the loop's condition: with no block and no refusal yet
\* the loop ends as if the download were over.
BlockTimesOut ==
  /\ call = "file" /\ NothingTaken
  /\ IF tryNum1 = 0 THEN Fails(0) /\ UNCHANGED tryNum1
     ELSE /\ tryNum1' = Spend(tryNum1)
          /\ IF nextBlock = 1 THEN Again("top") /\ UNCHANGED secs
                              ELSE Return(TRUE, updateCommandFlag, 0)
  /\ UNCHANGED <<file, tryNum, blk, nextBlock, tryNum2, cells>>

-----------------------------------------------------------------------------
Call == \/ CallRegister \/ CallStatusReport \/ CallGetUpdateinfo
        \/ CallGetSaveUpdatefile

Within == \/ LoopTop \/ Send \/ SendFails
          \/ \E r \in {replies[i] : i \in DOMAIN replies} :
               ReceiveSuccess(r) \/ ReceiveOther(r)
                 \/ StoreBlock(r) \/ FileNotReady(r)
          \/ ReceiveTimesOut \/ BlockTimesOut

Next == Call \/ Within

Spec == Init /\ [][Next]_vars

(***************************************************************************)
(* Fairness: the thread that runs the functions is scheduled; recvfrom     *)
(* returns after its timeout at the latest (SO_RCVTIMEO).                  *)
(***************************************************************************)
FairSpec == Spec /\ WF_vars(Within)

-----------------------------------------------------------------------------
(* Properties.                                                             *)

Replies == [kind : {"ok", "update", "fail"}, file : {"none"}, n : {0}]
             \cup [kind : {"info", "block"}, file : Files, n : Nat]

\* Every variable stays in its range.
TypeOK ==
  /\ step \in {"register", "idle", "command", "ongoing", "complete", "again"}
  /\ call \in {"none", "register", "status", "info", "file", "report"}
  /\ pc \in {"rest", "top", "send", "recv"}
  /\ tryNum \in 0 .. Tries /\ retryNum \in 0 .. Retries
  /\ updateCommandFlag \in {0, 1} /\ file \in Files
  /\ blk \in Nat /\ nextBlock \in {0, 1}
  /\ tryNum1 \in 0 .. Tries /\ tryNum2 \in 0 .. Tries
  /\ DOMAIN cells = 0 .. blk - 1 /\ \A i \in DOMAIN cells : cells[i] \in Replies
  /\ replies \in Seq(Replies) /\ answered \in BOOLEAN
  /\ lost \in 0 .. MaxLost /\ stray \in 0 .. MaxStray
  /\ downloads \in 0 .. 2 /\ secs \in Nat

\* No more datagrams wait than replies have outlived their request, and the
\* answer to the request in hand: a request function that takes an old one
\* leaves its own behind, and none is ever left without a delay.
BacklogIsStray ==
  Len(replies) <= stray + IF pc = "recv" /\ answered THEN 1 ELSE 0

\* As long as no reply has outlived its request, whatever was lost, refused
\* or asked for again, each block is stored where it belongs, of the image
\* that was named, and a download that ends with any block has them all.
FreshImage ==
  stray = 0 /\ (call \in {"file", "report"} \/ step = "complete") =>
    /\ \A i \in DOMAIN cells : cells[i] = Block(file, i)
    /\ step = "complete" /\ blk > 0 => blk = ImageBlocks[file]

\* One stray reply shifts the rest of the image, be it the answer to a status
\* report.  In the first download no block is ever stored before its place,
\* or further behind it than replies have gone astray.
ShiftBounded ==
  downloads = 1 =>
    \A i \in DOMAIN cells : cells[i].n <= i /\ i <= cells[i].n + stray

\* Every request function returns, however the server answers.
CallsEnd == (pc # "rest") ~> (pc = "rest")

\* The comment "register the device until register success or timeout 120s":
\* the 120 tries last no longer than as many seconds.
RegisteredWithin120s == step = "register" => secs <= Retries
=============================================================================
