----------------------- MODULE SocketExchange_proofs ------------------------
(***************************************************************************)
(* Proofs about SocketExchange for every number of tries, every image size *)
(* and any number of lost and stray replies: types, where each function is *)
(* called, the backlog of the socket, and that an image is stored in order *)
(* as long as no reply outlives its request.                               *)
(***************************************************************************)
EXTENDS SocketExchange, TLAPS

\* Every request function belongs to a step, and has a try left when it sends.
CallsInStep ==
  /\ pc = "rest" <=> call = "none"
  /\ pc = "top" => call = "file"
  /\ call \in {"file", "report"} => step = "ongoing"
  /\ call = "info" => step = "command"
  /\ call = "status" => step \in {"idle", "complete"}
  /\ call = "register" => step \in {"register", "again"}
  /\ pc \in {"send", "recv"} /\ call # "file" => tryNum >= 1

LEMMA AnswersAreReplies == TypeOK => Answers \subseteq Replies
<1> SUFFICES ASSUME TypeOK, NEW r \in Answers PROVE r \in Replies
  OBVIOUS
<1>1. Plain("ok") \in Replies /\ Plain("update") \in Replies /\ Plain("fail") \in Replies
  BY DEF Plain, Replies
<1>2. \A f \in Files : Info(f) \in Replies
  BY DEF Info, Replies
<1>3. Block(file, blk) \in Replies
  BY DEF TypeOK, Block, Replies
<1>4. r \in Wanted \/ r = Plain("fail")
  BY DEF Answers
<1>5. r \in Wanted => \/ r \in {Plain("ok"), Plain("update"), Block(file, blk)}
                      \/ \E f \in Files : r = Info(f)
  BY DEF Wanted
<1> QED BY <1>1, <1>2, <1>3, <1>4, <1>5

\* What a function's step leaves to be typed, beside what Return and Again set.
RestOK ==
  /\ tryNum \in 0 .. Tries /\ file \in Files
  /\ blk \in Nat /\ nextBlock \in {0, 1}
  /\ tryNum1 \in 0 .. Tries /\ tryNum2 \in 0 .. Tries
  /\ DOMAIN cells = 0 .. blk - 1 /\ \A i \in DOMAIN cells : cells[i] \in Replies
  /\ replies \in Seq(Replies) /\ answered \in BOOLEAN
  /\ lost \in 0 .. MaxLost /\ stray \in 0 .. MaxStray /\ downloads \in 0 .. 2

LEMMA ReturnFits ==
  ASSUME TypeOK, CallsInStep, pc \in {"send", "recv"}, NEW ok \in BOOLEAN,
         NEW flag \in {0, 1}, NEW d \in Nat, Return(ok, flag, d), RestOK'
  PROVE  TypeOK' /\ CallsInStep'
<1> USE ExchangeAssumption
<1>1. CASE call = "report"
  <2>1. /\ call' = "file" /\ pc' = "send" /\ updateCommandFlag' = flag
        /\ UNCHANGED <<step, retryNum, secs>>
    BY <1>1 DEF Return
  <2> QED BY <1>1, <2>1 DEF TypeOK, CallsInStep, RestOK
<1>2. CASE call # "report"
  <2>1. call' = "none" /\ pc' = "rest" /\ step' \in StepsAfter(ok, flag)
    BY <1>2 DEF Return
  <2>2. step' \in {"register", "idle", "command", "ongoing", "complete", "again"}
    BY <2>1 DEF StepsAfter, TypeOK
  <2>3. retryNum' \in 0 .. Retries /\ updateCommandFlag' \in {0, 1}
    BY <1>2 DEF Return, TypeOK
  <2>4. secs' \in Nat
    BY <1>2 DEF Return, After, TypeOK
  <2> QED BY <2>1, <2>2, <2>3, <2>4 DEF TypeOK, CallsInStep, RestOK
<1> QED BY <1>1, <1>2

LEMMA AgainFits ==
  ASSUME TypeOK, CallsInStep, pc = "recv", NEW place \in {"send", "top"},
         Again(place), RestOK', secs' \in Nat,
         place = "top" => call = "file",
         place = "send" => call # "file" /\ tryNum' >= 1
  PROVE  TypeOK' /\ CallsInStep'
  BY DEF Again, TypeOK, CallsInStep, RestOK

\* What is left in the socket is a sequence of replies.
LEMMA TakeTypes ==
  ASSUME TypeOK, NEW r, Take(r)
  PROVE  /\ pc = "recv" /\ r \in Replies /\ r = replies[1]
         /\ replies' \in Seq(Replies) /\ Len(replies') = Len(replies) - 1
         /\ Len(replies) >= 1
         /\ UNCHANGED <<answered, lost, stray, downloads>>
  BY DEF Take, Left, TypeOK, bookkeeping

-----------------------------------------------------------------------------
\* Every variable stays in its range and every function in its step.
TypesAndCalls == TypeOK /\ CallsInStep

LEMMA TypesInit == Init => TypesAndCalls
<1> SUFFICES ASSUME Init PROVE TypeOK /\ CallsInStep
  BY DEF TypesAndCalls
<1>1. DOMAIN cells = {} /\ replies \in Seq(Replies)
  BY DEF Init
<1>2. 0 .. blk - 1 = {}
  BY DEF Init
<1>3. DOMAIN cells = 0 .. blk - 1 /\ \A i \in DOMAIN cells : cells[i] \in Replies
  BY <1>1, <1>2
<1>4. /\ tryNum \in 0 .. Tries /\ retryNum \in 0 .. Retries /\ blk \in Nat
      /\ tryNum1 \in 0 .. Tries /\ tryNum2 \in 0 .. Tries
      /\ lost \in 0 .. MaxLost /\ stray \in 0 .. MaxStray
      /\ downloads \in 0 .. 2 /\ secs \in Nat
  BY ExchangeAssumption DEF Init
<1>5. TypeOK
  BY <1>1, <1>3, <1>4, Zenon DEF Init, TypeOK
<1> QED BY <1>5 DEF Init, CallsInStep

LEMMA TypesNext == TypesAndCalls /\ [Next]_vars => TypesAndCalls'
<1> SUFFICES ASSUME TypeOK, CallsInStep, [Next]_vars
             PROVE  TypeOK' /\ CallsInStep'
  BY DEF TypesAndCalls
<1> USE ExchangeAssumption
<1>1. CASE CallRegister \/ CallStatusReport \/ CallGetUpdateinfo
  <2>1. PICK f \in {"register", "status", "info"} : CallFunction(f)
    BY <1>1 DEF CallRegister, CallStatusReport, CallGetUpdateinfo
  <2>2. /\ f = "register" => step \in {"register", "again"}
        /\ f = "status" => step \in {"idle", "complete"}
        /\ f = "info" => step = "command"
    BY <1>1, <2>1 DEF CallRegister, CallStatusReport, CallGetUpdateinfo,
         CallFunction
  <2>3. TypeOK'
    BY <2>1 DEF CallFunction, TypeOK, caller, loop, bookkeeping
  <2>4. CallsInStep'
    BY <2>1, <2>2 DEF CallFunction, CallsInStep, caller
  <2> QED BY <2>3, <2>4
<1>2. CASE CallGetSaveUpdatefile
  BY <1>2 DEF CallGetSaveUpdatefile, TypeOK, CallsInStep, caller
<1>3. CASE LoopTop
  <2>1. TypeOK'
    BY <1>3 DEF LoopTop, TypeOK, caller, loop, bookkeeping
  <2>2. CallsInStep'
    BY <1>3 DEF LoopTop, TypeOK, CallsInStep, caller
  <2> QED BY <2>1, <2>2
<1>4. CASE Send
  <2>1. PICK r \in Answers :
          \/ /\ replies' = Append(replies, r) /\ answered' = TRUE
             /\ UNCHANGED <<lost, stray>>
          \/ /\ lost < MaxLost /\ lost' = lost + 1
             /\ answered' = FALSE
             /\ UNCHANGED <<replies, stray>>
          \/ /\ stray < MaxStray /\ stray' = stray + 1
             /\ replies' = replies \o <<r, r>> /\ answered' = TRUE
             /\ UNCHANGED lost
    BY <1>4 DEF Send
  <2>2. r \in Replies
    BY AnswersAreReplies
  <2>3. replies' \in Seq(Replies) /\ answered' \in BOOLEAN
    <3>1. Append(replies, r) \in Seq(Replies)
      BY <2>2 DEF TypeOK
    <3>2. <<r, r>> \in Seq(Replies)
      BY <2>2
    <3>3. replies \o <<r, r>> \in Seq(Replies)
      BY <3>2 DEF TypeOK
    <3> QED BY <2>1, <3>1, <3>3 DEF TypeOK
  <2>4. lost' \in 0 .. MaxLost /\ stray' \in 0 .. MaxStray
    BY <2>1 DEF TypeOK
  <2>5. TypeOK'
    BY <1>4, <2>3, <2>4 DEF Send, TypeOK, caller, loop
  <2>6. CallsInStep'
    BY <1>4 DEF Send, CallsInStep, caller
  <2> QED BY <2>5, <2>6
<1>5. CASE SendFails
  <2>1. pc = "send" /\ Return(FALSE, updateCommandFlag, 0)
    BY <1>5 DEF SendFails, Fails
  <2>2. RestOK'
    BY <1>5 DEF SendFails, TypeOK, RestOK, loop, bookkeeping
  <2>3. updateCommandFlag \in {0, 1} /\ 0 \in Nat
    BY DEF TypeOK
  <2> QED BY <2>1, <2>2, <2>3, ReturnFits
<1>6. ASSUME NEW r, ReceiveSuccess(r) PROVE TypeOK' /\ CallsInStep'
  <2>1. Take(r)
    BY <1>6 DEF ReceiveSuccess
  <2>2. file' \in Files
    BY <1>6, <2>1, TakeTypes DEF ReceiveSuccess, TypeOK, Replies
  <2>3. RestOK'
    BY <1>6, <2>1, <2>2, TakeTypes DEF ReceiveSuccess, RestOK, TypeOK, loop
  <2>4. PICK ok \in BOOLEAN, flag \in {0, 1} : Return(ok, flag, 0)
    BY <1>6 DEF ReceiveSuccess, Fails, TypeOK
  <2> QED BY <2>1, <2>3, <2>4, TakeTypes, ReturnFits
<1>7. ASSUME NEW r, ReceiveOther(r) PROVE TypeOK' /\ CallsInStep'
  <2>1. Take(r) /\ call # "file"
    BY <1>7 DEF ReceiveOther, Plainly
  <2>2. tryNum >= 1 /\ tryNum' = tryNum - 1 /\ tryNum' \in 0 .. Tries
        /\ tryNum' \in Nat
    BY <1>7, <2>1, TakeTypes DEF ReceiveOther, Spend, CallsInStep, TypeOK
  <2>3. RestOK'
    BY <1>7, <2>1, <2>2, TakeTypes DEF ReceiveOther, RestOK, TypeOK, loop
  <2>4. CASE tryNum' = 0
    <3>1. Return(FALSE, updateCommandFlag, AnswerWait)
      BY <1>7, <2>4 DEF ReceiveOther, Fails
    <3>2. updateCommandFlag \in {0, 1} /\ AnswerWait \in Nat
      BY DEF TypeOK
    <3> QED BY <2>1, <2>3, <3>1, <3>2, TakeTypes, ReturnFits
  <2>5. CASE tryNum' # 0
    <3>1. Again("send")
      BY <1>7, <2>5 DEF ReceiveOther
    <3>2. secs' \in Nat
      BY <1>7, <2>5 DEF ReceiveOther, After, TypeOK
    <3>3. \A n \in Nat : n # 0 => n >= 1
      OBVIOUS
    <3>4. tryNum' >= 1
      BY <2>2, <2>5, <3>3
    <3> QED BY <2>1, <2>3, <3>1, <3>2, <3>4, TakeTypes, AgainFits
  <2> QED BY <2>4, <2>5
<1>8. ASSUME NEW r, StoreBlock(r) PROVE TypeOK' /\ CallsInStep'
  <2>1. Take(r) /\ call = "file"
    BY <1>8 DEF StoreBlock
  <2>2. /\ blk' = blk + 1 /\ nextBlock' \in {0, 1}
        /\ tryNum1' = Tries /\ tryNum2' = Tries /\ UNCHANGED <<file, tryNum>>
    BY <1>8 DEF StoreBlock, More
  <2>3. cells' = [i \in DOMAIN cells \cup {blk} |-> IF i = blk THEN r ELSE cells[i]]
    BY <1>8 DEF StoreBlock, Place
  <2>4. blk' \in Nat /\ DOMAIN cells' = 0 .. blk' - 1
    BY <2>2, <2>3 DEF TypeOK
  <2>5. \A i \in DOMAIN cells' : cells'[i] \in Replies
    BY <2>1, <2>3, TakeTypes DEF TypeOK
  <2>6. RestOK'
    BY <2>1, <2>2, <2>4, <2>5, TakeTypes DEF RestOK, TypeOK
  <2>7. CASE More(r) = 1
    <3>1. Again("top") /\ secs' = secs
      BY <1>8, <2>7 DEF StoreBlock
    <3>2. secs' \in Nat
      BY <3>1 DEF TypeOK
    <3> QED BY <2>1, <2>6, <3>1, <3>2, TakeTypes, AgainFits
  <2>8. CASE More(r) # 1
    <3>1. Return(TRUE, updateCommandFlag, 0) /\ updateCommandFlag \in {0, 1}
      BY <1>8, <2>8 DEF StoreBlock, TypeOK
    <3> QED BY <2>1, <2>6, <3>1, TakeTypes, ReturnFits
  <2> QED BY <2>7, <2>8
<1>9. ASSUME NEW r, FileNotReady(r) PROVE TypeOK' /\ CallsInStep'
  <2>1. Take(r) /\ call = "file"
    BY <1>9 DEF FileNotReady
  <2>2. tryNum2' \in 0 .. Tries
    BY <1>9 DEF FileNotReady, Spend, TypeOK
  <2>3. RestOK'
    BY <1>9, <2>1, <2>2, TakeTypes DEF FileNotReady, RestOK, TypeOK
  <2>4. CASE tryNum2 = 0
    <3>1. Return(FALSE, updateCommandFlag, 0) /\ updateCommandFlag \in {0, 1}
      BY <1>9, <2>4 DEF FileNotReady, Fails, TypeOK
    <3> QED BY <2>1, <2>3, <3>1, TakeTypes, ReturnFits
  <2>5. CASE tryNum2 # 0
    <3>1. Again("top") /\ secs' = secs
      BY <1>9, <2>5 DEF FileNotReady
    <3>2. secs' \in Nat
      BY <3>1 DEF TypeOK
    <3> QED BY <2>1, <2>3, <3>1, <3>2, TakeTypes, AgainFits
  <2> QED BY <2>4, <2>5
<1>10. CASE ReceiveTimesOut
  <2>1. pc = "recv" /\ stray' \in 0 .. MaxStray
    BY <1>10 DEF ReceiveTimesOut, NothingTaken, TypeOK
  <2>2. RestOK'
    BY <1>10, <2>1 DEF ReceiveTimesOut, NothingTaken, RestOK, TypeOK, loop
  <2>3. Return(FALSE, updateCommandFlag, ReceiveTimeout)
        /\ updateCommandFlag \in {0, 1} /\ ReceiveTimeout \in Nat
    BY <1>10 DEF ReceiveTimesOut, Fails, TypeOK
  <2> QED BY <2>1, <2>2, <2>3, ReturnFits
<1>11. CASE BlockTimesOut
  <2>1. pc = "recv" /\ call = "file" /\ stray' \in 0 .. MaxStray
    BY <1>11 DEF BlockTimesOut, NothingTaken, TypeOK
  <2>2. tryNum1' \in 0 .. Tries
    <3>1. tryNum1 = 0 => tryNum1' = tryNum1
      BY <1>11 DEF BlockTimesOut
    <3>2. tryNum1 # 0 => tryNum1' = tryNum1 - 1
      BY <1>11 DEF BlockTimesOut, Spend
    <3> QED BY <3>1, <3>2 DEF TypeOK
  <2>3. RestOK'
    BY <1>11, <2>1, <2>2 DEF BlockTimesOut, NothingTaken, RestOK, TypeOK
  <2>4. CASE tryNum1 # 0 /\ nextBlock = 1
    <3>1. Again("top") /\ secs' = secs
      BY <1>11, <2>4 DEF BlockTimesOut
    <3>2. secs' \in Nat
      BY <3>1 DEF TypeOK
    <3> QED BY <2>1, <2>3, <3>1, <3>2, AgainFits
  <2>5. CASE tryNum1 = 0 \/ nextBlock # 1
    <3>1. PICK ok \in BOOLEAN : Return(ok, updateCommandFlag, 0)
      BY <1>11, <2>5 DEF BlockTimesOut, Fails
    <3>2. updateCommandFlag \in {0, 1}
      BY DEF TypeOK
    <3> QED BY <2>1, <2>3, <3>1, <3>2, ReturnFits
  <2> QED BY <2>4, <2>5
<1>12. CASE UNCHANGED vars
  BY <1>12 DEF vars, caller, loop, bookkeeping, TypeOK, CallsInStep
<1> QED BY <1>1, <1>2, <1>3, <1>4, <1>5, <1>6, <1>7, <1>8, <1>9, <1>10, <1>11,
           <1>12 DEF Next, Call, Within

\* TypeOK: every variable of the exchange stays in its range.
THEOREM TypeCorrect == Spec => []TypeOK
<1>1. Init => TypesAndCalls
  BY TypesInit
<1>2. TypesAndCalls /\ [Next]_vars => TypesAndCalls'
  BY TypesNext
<1>3. TypesAndCalls => TypeOK
  BY DEF TypesAndCalls
<1> QED BY <1>1, <1>2, <1>3, PTL DEF Spec

LEMMA TypesAlways == Spec => []TypesAndCalls
  BY TypesInit, TypesNext, PTL DEF Spec

-----------------------------------------------------------------------------
\* What a step does to the socket: a request is sent, a datagram is taken,
\* none is, or the socket is not touched.
SocketStep ==
  \/ Send
  \/ pc' # "recv" /\ \E r : Take(r)
  \/ pc' # "recv" /\ NothingTaken
  \/ pc # "recv" /\ pc' # "recv" /\ UNCHANGED <<replies, stray>>
  \/ UNCHANGED vars

LEMMA StepShape ==
  ASSUME TypeOK, CallsInStep, [Next]_vars
  PROVE  SocketStep
<1>1. ASSUME NEW ok, NEW flag, NEW d, Return(ok, flag, d) PROVE pc' # "recv"
  BY <1>1 DEF Return
<1>2. ASSUME NEW place \in {"send", "top"}, Again(place) PROVE pc' # "recv"
  BY <1>2 DEF Again
<1>3. CASE Call
  <2>1. ASSUME NEW f, CallFunction(f) PROVE SocketStep
    BY <2>1 DEF CallFunction, bookkeeping, SocketStep
  <2>2. CASE CallGetSaveUpdatefile
    BY <2>2 DEF CallGetSaveUpdatefile, SocketStep
  <2> QED
    BY <1>3, <2>1, <2>2
    DEF Call, CallRegister, CallStatusReport, CallGetUpdateinfo
<1>4. CASE LoopTop
  BY <1>4 DEF LoopTop, bookkeeping, SocketStep
<1>5. CASE SendFails
  BY <1>5, <1>1 DEF SendFails, Fails, bookkeeping, SocketStep
<1>6. ASSUME NEW r,
             ReceiveSuccess(r) \/ ReceiveOther(r) \/ StoreBlock(r) \/ FileNotReady(r)
      PROVE  SocketStep
  <2>1. Take(r)
    BY <1>6 DEF ReceiveSuccess, ReceiveOther, StoreBlock, FileNotReady
  <2>2. pc' # "recv"
    <3>1. CASE ReceiveSuccess(r)
      BY <3>1, <1>1 DEF ReceiveSuccess, Fails
    <3>2. CASE ReceiveOther(r)
      BY <3>2, <1>1, <1>2 DEF ReceiveOther, Fails
    <3>3. CASE StoreBlock(r)
      BY <3>3, <1>1, <1>2 DEF StoreBlock
    <3>4. CASE FileNotReady(r)
      BY <3>4, <1>1, <1>2 DEF FileNotReady, Fails
    <3> QED BY <1>6, <3>1, <3>2, <3>3, <3>4
  <2> QED BY <2>1, <2>2 DEF SocketStep
<1>7. CASE ReceiveTimesOut \/ BlockTimesOut
  <2>1. NothingTaken
    BY <1>7 DEF ReceiveTimesOut, BlockTimesOut
  <2>2. pc' # "recv"
    BY <1>7, <1>1, <1>2 DEF ReceiveTimesOut, BlockTimesOut, Fails
  <2> QED BY <2>1, <2>2 DEF SocketStep
<1>8. CASE Send \/ UNCHANGED vars
  BY <1>8 DEF SocketStep
<1> QED BY <1>3, <1>4, <1>5, <1>6, <1>7, <1>8 DEF Next, Within

LEMMA BacklogNext ==
  ASSUME TypeOK, CallsInStep, TypeOK', [Next]_vars, BacklogIsStray
  PROVE  BacklogIsStray'
<1>1. SocketStep
  BY StepShape
<1>2. stray \in Nat /\ stray' \in Nat
  BY ExchangeAssumption DEF TypeOK
<1>3. CASE Send
  <2>1. PICK r \in Answers :
          \/ /\ replies' = Append(replies, r) /\ answered' = TRUE
             /\ UNCHANGED <<lost, stray>>
          \/ /\ lost < MaxLost /\ lost' = lost + 1
             /\ answered' = FALSE
             /\ UNCHANGED <<replies, stray>>
          \/ /\ stray < MaxStray /\ stray' = stray + 1
             /\ replies' = replies \o <<r, r>> /\ answered' = TRUE
             /\ UNCHANGED lost
    BY <1>3 DEF Send
  <2>2. r \in Replies /\ replies \in Seq(Replies)
    BY AnswersAreReplies DEF TypeOK
  <2>3. /\ Len(Append(replies, r)) = Len(replies) + 1
        /\ Len(replies \o <<r, r>>) = Len(replies) + 2
    BY <2>2
  <2>4. pc = "send" /\ pc' = "recv"
    BY <1>3 DEF Send
  <2> QED BY <1>2, <2>1, <2>2, <2>3, <2>4 DEF BacklogIsStray
<1>4. CASE pc' # "recv" /\ \E r : Take(r)
  <2>1. PICK r : Take(r)
    BY <1>4
  <2>2. Len(replies') = Len(replies) - 1 /\ stray' = stray /\ Len(replies) \in Nat
    <3>1. replies \in Seq(Replies) BY DEF TypeOK
    <3>2. Len(replies) \in Nat BY <3>1
    <3>3. Len(replies') = Len(replies) - 1 /\ stray' = stray BY <2>1, TakeTypes
    <3> QED BY <3>2, <3>3
  <2> QED BY <1>2, <1>4, <2>2 DEF BacklogIsStray
<1>5. CASE pc' # "recv" /\ NothingTaken
  <2>1. Len(replies) \in Nat /\ replies' = replies /\ pc = "recv"
    <3>1. replies \in Seq(Replies) BY DEF TypeOK
    <3>2. Len(replies) \in Nat BY <3>1
    <3> QED BY <1>5, <3>2 DEF NothingTaken
  <2>2. CASE answered
    <3>1. stray' = stray + 1
      BY <1>5, <2>2 DEF NothingTaken
    <3>2. Len(replies) <= stray + 1
      BY <2>1, <2>2 DEF BacklogIsStray
    <3> QED BY <1>2, <1>5, <2>1, <3>1, <3>2 DEF BacklogIsStray
  <2>3. CASE ~answered
    <3>1. stray' = stray
      BY <1>5, <2>3 DEF NothingTaken
    <3>2. Len(replies) <= stray + 0
      BY <2>1, <2>3 DEF BacklogIsStray
    <3> QED BY <1>2, <1>5, <2>1, <3>1, <3>2 DEF BacklogIsStray
  <2> QED BY <2>2, <2>3
<1>6. CASE pc # "recv" /\ pc' # "recv" /\ UNCHANGED <<replies, stray>>
  BY <1>6 DEF BacklogIsStray
<1>7. CASE UNCHANGED vars
  BY <1>7 DEF vars, bookkeeping, BacklogIsStray
<1> QED BY <1>1, <1>3, <1>4, <1>5, <1>6, <1>7 DEF SocketStep

\* BacklogIsStray: the socket holds no more than one datagram for each reply
\* that outlived its request, whichever functions took them.
THEOREM Backlog == Spec => []BacklogIsStray
<1>1. Init => BacklogIsStray
  <2>1. Len(<<>>) = 0 /\ 0 <= 0 + 0
    OBVIOUS
  <2> QED BY <2>1 DEF Init, BacklogIsStray
<1>2. TypesAndCalls /\ TypesAndCalls' /\ BacklogIsStray /\ [Next]_vars => BacklogIsStray'
  BY BacklogNext DEF TypesAndCalls
<1> QED BY <1>1, <1>2, TypesAlways, PTL DEF Spec

-----------------------------------------------------------------------------
\* With no stray reply the datagram in the socket answers the request in hand,
\* and the blocks stored are those asked for: a loop that ends without the
\* answer "no more" has stored none.
FreshAnswer == pc = "recv" /\ replies # <<>> => replies[1] \in Answers

InOrder ==
  /\ call \in {"file", "report"} /\ nextBlock = 0 => blk = 0
  /\ call \in {"file", "report"} \/ step = "complete" =>
       \A i \in DOMAIN cells : cells[i] = Block(file, i)
  /\ step = "complete" /\ blk > 0 => blk = ImageBlocks[file]

FreshInv == stray = 0 => FreshAnswer /\ InOrder

LEMMA ReturnStep ==
  ASSUME TypeOK, CallsInStep, pc \in {"send", "recv"},
         NEW ok \in BOOLEAN, NEW flag, NEW d, Return(ok, flag, d)
  PROVE  \/ call = "report" /\ call' = "file" /\ step' = step
         \/ /\ call \notin {"report"} /\ call' = "none"
            /\ step' = "complete" =>
                 \/ step = "complete" /\ call = "status"
                 \/ step = "ongoing" /\ call = "file" /\ ok
<1>1. CASE call = "report"
  BY <1>1 DEF Return
<1>2. CASE call # "report"
  <2>1. call' = "none" /\ step' \in StepsAfter(ok, flag)
    BY <1>2 DEF Return
  <2>2. call \in {"register", "status", "info", "file"}
    BY <1>2 DEF TypeOK, CallsInStep
  <2>3. step' = "complete" => step = "complete" \/ (step = "ongoing" /\ ok)
    <3>1. step = "register" => step' \in {"idle", "register"}
      BY <2>1 DEF StepsAfter
    <3>2. step = "again" => step' = "idle"
      BY <2>1 DEF StepsAfter
    <3>3. step = "idle" => step' \in {"command", "idle"}
      BY <2>1 DEF StepsAfter
    <3>4. step = "command" => step' \in {"ongoing", "command"}
      BY <2>1 DEF StepsAfter
    <3>5. step = "ongoing" /\ ~ok => step' = "ongoing"
      BY <2>1 DEF StepsAfter
    <3>6. step \in {"register", "idle", "command", "ongoing", "complete", "again"}
      BY DEF TypeOK
    <3> QED BY <3>1, <3>2, <3>3, <3>4, <3>5, <3>6
  <2>4. /\ step = "complete" => call = "status"
        /\ step = "ongoing" => call = "file"
    BY <2>2 DEF CallsInStep
  <2> QED BY <1>2, <2>1, <2>3, <2>4
<1> QED BY <1>1, <1>2

\* A return without success leaves the order alone when the image does.
LEMMA FailsInOrder ==
  ASSUME TypeOK, CallsInStep, pc \in {"send", "recv"}, InOrder,
         NEW ok \in BOOLEAN, NEW flag, NEW d, Return(ok, flag, d),
         call = "file" => ~ok,
         UNCHANGED <<blk, cells>>, call # "file" => UNCHANGED nextBlock,
         call # "info" => UNCHANGED file
  PROVE  InOrder'
<1>1. CASE call = "report" /\ call' = "file" /\ step' = step
  BY <1>1 DEF InOrder
<1>2. CASE call' = "none" /\ (step' = "complete" => step = "complete" /\ call = "status")
  BY <1>2 DEF InOrder
<1> QED BY <1>1, <1>2, ReturnStep

LEMMA OrderNext ==
  ASSUME TypeOK, CallsInStep, BacklogIsStray, stray = 0, FreshAnswer, InOrder,
         [Next]_vars
  PROVE  InOrder'
<1>1. ASSUME NEW f \in {"register", "status", "info"}, CallFunction(f) PROVE InOrder'
  BY <1>1 DEF CallFunction, caller, loop, InOrder
<1>2. CASE CallGetSaveUpdatefile
  <2>1. DOMAIN cells' = {}
    BY <1>2 DEF CallGetSaveUpdatefile
  <2> QED BY <1>2, <2>1 DEF CallGetSaveUpdatefile, caller, InOrder
<1>3. CASE LoopTop
  BY <1>3 DEF LoopTop, CallsInStep, caller, loop, InOrder
<1>4. CASE Send
  BY <1>4 DEF Send, caller, loop, InOrder
<1>5. CASE SendFails
  BY <1>5, FailsInOrder DEF SendFails, Fails, loop
<1>6. ASSUME NEW r, ReceiveSuccess(r) PROVE InOrder'
  <2>1. pc = "recv" /\ call # "file" /\ UNCHANGED <<blk, cells, nextBlock>>
    BY <1>6 DEF ReceiveSuccess, Plainly, Take, loop
  <2>2. PICK ok \in BOOLEAN, flag \in {0, 1} : Return(ok, flag, 0)
    BY <1>6 DEF ReceiveSuccess, Fails, TypeOK
  <2>3. call # "info" => UNCHANGED file
    BY <1>6 DEF ReceiveSuccess
  <2> QED BY <2>1, <2>2, <2>3, FailsInOrder
<1>7. ASSUME NEW r, ReceiveOther(r) PROVE InOrder'
  <2>1. pc = "recv" /\ call # "file" /\ UNCHANGED <<blk, cells, nextBlock, file>>
    BY <1>7 DEF ReceiveOther, Plainly, Take, loop
  <2>2. CASE Fails(AnswerWait)
    BY <2>1, <2>2, FailsInOrder DEF Fails
  <2>3. CASE Again("send")
    BY <2>1, <2>3 DEF Again, InOrder
  <2> QED BY <1>7, <2>2, <2>3 DEF ReceiveOther
<1>8. ASSUME NEW b, StoreBlock(b) PROVE InOrder'
  <2>1. call = "file" /\ Take(b) /\ b.kind = "block" /\ step = "ongoing"
    BY <1>8 DEF StoreBlock, CallsInStep
  <2>2. b \in Answers
    BY <2>1, TakeTypes DEF FreshAnswer, Take
  <2>3. b = Block(file, blk)
    BY <2>1, <2>2 DEF Answers, Wanted, Plain
  <2>4. b.file = file /\ b.n = blk
    BY <2>3 DEF Block
  <2>5. /\ cells' = [i \in DOMAIN cells \cup {blk} |-> IF i = blk THEN b ELSE cells[i]]
        /\ blk' = blk + 1 /\ file' = file /\ nextBlock' = More(b)
    BY <1>8 DEF StoreBlock, Place
  <2>6. \A i \in DOMAIN cells' : cells'[i] = Block(file', i)
    BY <2>1, <2>3, <2>5 DEF InOrder
  <2>7. CASE More(b) = 1
    <3>1. call' = "file" /\ step' = "ongoing"
      BY <1>8, <2>1, <2>7 DEF StoreBlock, Again
    <3> QED BY <2>5, <2>6, <2>7, <3>1 DEF InOrder
  <2>8. CASE More(b) # 1
    <3>1. Return(TRUE, updateCommandFlag, 0)
      BY <1>8, <2>8 DEF StoreBlock
    <3>2. call' = "none"
      BY <2>1, <3>1 DEF Return
    <3>3. blk' = ImageBlocks[file']
      BY <2>4, <2>5, <2>8 DEF More
    <3> QED BY <2>6, <3>2, <3>3 DEF InOrder
  <2> QED BY <2>7, <2>8
<1>9. ASSUME NEW r, FileNotReady(r) PROVE InOrder'
  <2>1. /\ call = "file" /\ pc = "recv" /\ step = "ongoing"
        /\ UNCHANGED <<blk, cells, file>> /\ nextBlock' = 1
    BY <1>9 DEF FileNotReady, Take, CallsInStep
  <2>2. CASE Fails(0)
    BY <2>1, <2>2, FailsInOrder DEF Fails
  <2>3. CASE Again("top")
    BY <2>1, <2>3 DEF Again, InOrder
  <2> QED BY <1>9, <2>2, <2>3 DEF FileNotReady
<1>10. CASE ReceiveTimesOut
  <2>1. pc = "recv" /\ call # "file" /\ UNCHANGED <<blk, cells, nextBlock, file>>
    BY <1>10 DEF ReceiveTimesOut, Plainly, NothingTaken, loop
  <2> QED BY <1>10, <2>1, FailsInOrder DEF ReceiveTimesOut, Fails
<1>11. CASE BlockTimesOut
  <2>1. /\ call = "file" /\ pc = "recv" /\ step = "ongoing"
        /\ UNCHANGED <<blk, cells, file, nextBlock>>
    BY <1>11 DEF BlockTimesOut, NothingTaken, CallsInStep
  <2>2. CASE tryNum1 = 0
    BY <1>11, <2>1, <2>2, FailsInOrder DEF BlockTimesOut, Fails
  <2>3. CASE tryNum1 # 0 /\ nextBlock = 1
    <3>1. Again("top")
      BY <1>11, <2>3 DEF BlockTimesOut
    <3> QED BY <2>1, <3>1 DEF Again, InOrder
  <2>4. CASE tryNum1 # 0 /\ nextBlock # 1
    <3>1. Return(TRUE, updateCommandFlag, 0)
      BY <1>11, <2>4 DEF BlockTimesOut
    <3>2. call' = "none"
      BY <2>1, <3>1 DEF Return
    <3>3. blk = 0
      BY <2>1, <2>4 DEF InOrder, TypeOK
    <3> QED BY <2>1, <3>2, <3>3 DEF InOrder
  <2> QED BY <2>2, <2>3, <2>4
<1>12. CASE UNCHANGED vars
  BY <1>12 DEF vars, caller, loop, InOrder
<1> QED BY <1>1, <1>2, <1>3, <1>4, <1>5, <1>6, <1>7, <1>8, <1>9, <1>10, <1>11, <1>12
        DEF Next, Call, Within, CallRegister, CallStatusReport, CallGetUpdateinfo

LEMMA AnswerNext ==
  ASSUME TypeOK, CallsInStep, BacklogIsStray, TypeOK', stray = 0, FreshAnswer,
         [Next]_vars
  PROVE  FreshAnswer' \/ stray' # 0
<1>1. CASE Send
  <2>1. PICK r \in Answers :
          \/ replies' = Append(replies, r)
          \/ replies' = replies
          \/ stray' = stray + 1
    BY <1>1 DEF Send
  <2>2. pc = "send" /\ replies \in Seq(Replies)
    BY <1>1 DEF Send, TypeOK
  <2>3. Len(replies) <= 0
    BY <2>2 DEF BacklogIsStray
  <2>4. replies = <<>> /\ Append(replies, r)[1] = r
    BY <2>2, <2>3
  <2>5. Answers' = Answers
    BY <1>1 DEF Send, caller, loop, Answers, Wanted
  <2> QED BY <2>1, <2>4, <2>5 DEF FreshAnswer
<1>2. CASE UNCHANGED vars
  BY <1>2 DEF vars, caller, loop, FreshAnswer, Answers, Wanted
<1>3. CASE pc' # "recv"
  BY <1>3 DEF FreshAnswer
<1>4. Send \/ UNCHANGED vars \/ pc' # "recv"
  BY StepShape DEF SocketStep
<1> QED BY <1>1, <1>2, <1>3, <1>4

LEMMA StrayGrows ==
  ASSUME TypeOK, CallsInStep, [Next]_vars
  PROVE  stray' = stray \/ stray' = stray + 1
<1>1. SocketStep
  BY StepShape
<1> QED
  BY <1>1, TakeTypes DEF SocketStep, Send, NothingTaken, vars, bookkeeping

LEMMA FreshNext ==
  ASSUME TypeOK, CallsInStep, BacklogIsStray, TypeOK', FreshInv, [Next]_vars
  PROVE  FreshInv'
<1> SUFFICES ASSUME stray' = 0 PROVE FreshAnswer' /\ InOrder'
  BY DEF FreshInv
<1>1. stray = 0
  BY ExchangeAssumption, StrayGrows DEF TypeOK
<1>2. FreshAnswer /\ InOrder
  BY <1>1 DEF FreshInv
<1> QED BY <1>1, <1>2, OrderNext, AnswerNext

\* FreshImage: as long as no reply outlives its request, an image is stored in
\* order and of the named file, and a download that ends has all its blocks.
THEOREM ImageInOrder == Spec => []FreshImage
<1>1. Init => FreshInv
  BY DEF Init, FreshInv, FreshAnswer, InOrder
<1>2. /\ TypesAndCalls /\ TypesAndCalls' /\ BacklogIsStray /\ FreshInv /\ [Next]_vars
      => FreshInv'
  BY FreshNext DEF TypesAndCalls
<1>3. FreshInv => FreshImage
  BY DEF FreshInv, InOrder, FreshImage
<1> QED BY <1>1, <1>2, <1>3, TypesAlways, Backlog, PTL DEF Spec

-----------------------------------------------------------------------------
\* Blocks are taken in the order they were sent, and one is sent for the place
\* that is next.  So a block that waits behind p - 1 datagrams is at most that
\* many places, beyond those already passed, from where it belongs: each
\* datagram before it moves the place on by one at most.
QueuedShift ==
  \A p \in DOMAIN replies :
    replies[p].kind = "block" =>
      replies[p].n <= blk /\ blk + p <= replies[p].n + stray + 1

ShiftInv ==
  /\ downloads = 0 =>
       /\ call \notin {"file", "report"}
       /\ \A p \in DOMAIN replies : replies[p].kind # "block"
  /\ downloads = 1 => QueuedShift
  /\ ShiftBounded

\* Only two actions touch the loop's place and the blocks stored.
LEMMA LoopFrame ==
  ASSUME [Next]_vars
  PROVE  \/ CallGetSaveUpdatefile
         \/ \E b : StoreBlock(b)
         \/ UNCHANGED <<blk, cells, downloads>>
<1>1. CASE Call
  BY <1>1 DEF Call, CallRegister, CallStatusReport, CallGetUpdateinfo, CallFunction, loop,
              bookkeeping
<1>2. CASE LoopTop \/ Send \/ SendFails
  BY <1>2 DEF LoopTop, Send, SendFails, loop, bookkeeping
<1>3. ASSUME NEW r, ReceiveSuccess(r) \/ ReceiveOther(r) \/ FileNotReady(r)
      PROVE  UNCHANGED <<blk, cells, downloads>>
  BY <1>3 DEF ReceiveSuccess, ReceiveOther, FileNotReady, Take, loop, bookkeeping
<1>4. CASE ReceiveTimesOut \/ BlockTimesOut
  BY <1>4 DEF ReceiveTimesOut, BlockTimesOut, NothingTaken, loop
<1>5. CASE UNCHANGED vars
  BY <1>5 DEF vars, loop, bookkeeping
<1> QED BY <1>1, <1>2, <1>3, <1>4, <1>5 DEF Next, Within

\* Nothing but its call starts a download.
LEMMA NoDownloadStarts ==
  ASSUME TypeOK, CallsInStep, [Next]_vars, ~CallGetSaveUpdatefile,
         call \notin {"file", "report"}
  PROVE  call' \notin {"file", "report"}
<1>1. ASSUME NEW ok, NEW flag, NEW d, Return(ok, flag, d)
      PROVE  call' \notin {"file", "report"}
  BY <1>1 DEF Return
<1>2. ASSUME NEW place, Again(place) PROVE call' \notin {"file", "report"}
  BY <1>2 DEF Again
<1>3. CASE Call
  BY <1>3 DEF Call, CallRegister, CallStatusReport, CallGetUpdateinfo, CallFunction
<1>4. CASE LoopTop \/ Send \/ SendFails
  BY <1>4, <1>1 DEF LoopTop, Send, SendFails, Fails, CallsInStep
<1>5. ASSUME NEW r, ReceiveSuccess(r) PROVE call' \notin {"file", "report"}
  BY <1>5, <1>1 DEF ReceiveSuccess, Fails
<1>6. ASSUME NEW r, ReceiveOther(r) PROVE call' \notin {"file", "report"}
  BY <1>6, <1>1, <1>2 DEF ReceiveOther, Fails
<1>7. ASSUME NEW r, StoreBlock(r) \/ FileNotReady(r) PROVE FALSE
  BY <1>7 DEF StoreBlock, FileNotReady
<1>8. CASE ReceiveTimesOut \/ BlockTimesOut
  BY <1>8, <1>1 DEF ReceiveTimesOut, BlockTimesOut, Fails
<1>9. CASE UNCHANGED vars
  BY <1>9 DEF vars
<1> QED BY <1>3, <1>4, <1>5, <1>6, <1>7, <1>8, <1>9 DEF Next, Within

\* A request puts replies behind those that wait, a block only for the next
\* place.
LEMMA SendKeepsShift ==
  ASSUME TypeOK, CallsInStep, BacklogIsStray, ShiftInv, Send
  PROVE  ShiftInv'
<1>1. PICK r \in Answers :
        \/ replies' = Append(replies, r) /\ UNCHANGED stray
        \/ replies' = replies /\ UNCHANGED stray
        \/ replies' = replies \o <<r, r>> /\ stray' = stray + 1
  BY DEF Send
<1>2. /\ pc = "send" /\ UNCHANGED <<blk, cells, downloads, call>>
  BY DEF Send, loop
<1>3. replies \in Seq(Replies) /\ stray \in Nat /\ blk \in Nat
  BY ExchangeAssumption DEF TypeOK
<1>4. Len(replies) \in Nat /\ Len(replies) <= stray
  BY <1>2, <1>3 DEF BacklogIsStray
<1>5. r.kind = "block" => call = "file" /\ r.n = blk
  BY DEF Answers, Wanted, Plain, Info, Block
<1>6. ASSUME NEW p \in DOMAIN replies'
      PROVE  \/ p \in DOMAIN replies /\ replies'[p] = replies[p]
             \/ replies'[p] = r /\ p = Len(replies) + 1 /\ stray' >= stray
             \/ replies'[p] = r /\ p = Len(replies) + 2 /\ stray' = stray + 1
  <2>1. CASE replies' = Append(replies, r) /\ UNCHANGED stray
    BY <1>3, <1>4, <1>6, <2>1
  <2>2. CASE replies' = replies
    BY <1>6, <2>2
  <2>3. CASE replies' = replies \o <<r, r>> /\ stray' = stray + 1
    BY <1>3, <1>4, <1>6, <2>3
  <2> QED BY <1>1, <2>1, <2>2, <2>3
<1>7. stray' \in Nat /\ stray' >= stray
  BY <1>1, <1>3
<1>8. ASSUME downloads = 0
      PROVE  \A p \in DOMAIN replies' : replies'[p].kind # "block"
  BY <1>5, <1>6, <1>8 DEF ShiftInv
<1>9. ASSUME downloads = 1 PROVE QueuedShift'
  <2> SUFFICES ASSUME NEW p \in DOMAIN replies', replies'[p].kind = "block"
               PROVE  replies'[p].n <= blk /\ blk + p <= replies'[p].n + stray' + 1
    BY <1>2 DEF QueuedShift
  <2>1. CASE p \in DOMAIN replies /\ replies'[p] = replies[p]
    <3>1. replies[p].n <= blk /\ blk + p <= replies[p].n + stray + 1
      BY <1>9, <2>1 DEF ShiftInv, QueuedShift
    <3>2. p \in Nat /\ replies[p].n \in Nat
      <4>1. replies[p] \in Replies
        BY <1>3, <2>1
      <4>2. replies[p].n \in Nat
        BY <4>1 DEF Replies
      <4> QED BY <1>3, <2>1, <4>2
    <3> QED BY <1>3, <1>7, <2>1, <3>1, <3>2
  <2>2. CASE replies'[p] = r /\ p = Len(replies) + 1 /\ stray' >= stray
    BY <1>3, <1>4, <1>5, <1>7, <2>2
  <2>3. CASE replies'[p] = r /\ p = Len(replies) + 2 /\ stray' = stray + 1
    BY <1>3, <1>4, <1>5, <1>7, <2>3
  <2> QED BY <1>6, <2>1, <2>2, <2>3
<1>10. ShiftBounded'
  <2> SUFFICES ASSUME downloads = 1, NEW i \in DOMAIN cells
               PROVE  cells[i].n <= i /\ i <= cells[i].n + stray'
    BY <1>2 DEF ShiftBounded
  <2>1. cells[i].n <= i /\ i <= cells[i].n + stray
    BY DEF ShiftInv, ShiftBounded
  <2>2. i \in Nat /\ cells[i].n \in Nat
    BY DEF TypeOK, Replies
  <2> QED BY <1>3, <1>7, <2>1, <2>2
<1> QED BY <1>2, <1>8, <1>9, <1>10 DEF ShiftInv

\* Taking a datagram moves those behind it forward by one; the place moves on
\* by one at most.
LEMMA TakeKeepsShift ==
  ASSUME TypeOK, CallsInStep, ShiftInv, NEW r, Take(r),
         \/ StoreBlock(r)
         \/ UNCHANGED <<blk, cells, downloads>> /\ (downloads = 0 => call' \notin {"file", "report"})
  PROVE  ShiftInv'
<1>1. /\ replies \in Seq(Replies) /\ replies # <<>> /\ r = replies[1]
      /\ replies' = Tail(replies) /\ UNCHANGED <<stray, downloads>>
  BY DEF Take, Left, TypeOK, bookkeeping
<1>2. stray \in Nat /\ blk \in Nat
  BY ExchangeAssumption DEF TypeOK
<1>3. ASSUME NEW p \in DOMAIN replies'
      PROVE  /\ p \in Nat /\ p + 1 \in DOMAIN replies
             /\ replies'[p] = replies[p + 1] /\ replies'[p] \in Replies
  BY <1>1, <1>3
<1>4. blk' \in Nat /\ blk <= blk' /\ blk' <= blk + 1
  <2>1. StoreBlock(r) => blk' = blk + 1
    BY DEF StoreBlock
  <2> QED BY <1>2, <2>1
<1>5. ASSUME downloads = 1 PROVE QueuedShift'
  <2> SUFFICES ASSUME NEW p \in DOMAIN replies', replies'[p].kind = "block"
               PROVE  replies'[p].n <= blk' /\ blk' + p <= replies'[p].n + stray + 1
    BY <1>1 DEF QueuedShift
  <2>1. replies'[p].n <= blk /\ blk + (p + 1) <= replies'[p].n + stray + 1
    BY <1>3, <1>5 DEF ShiftInv, QueuedShift
  <2>2. p \in Nat /\ replies'[p].n \in Nat
    BY <1>3 DEF Replies
  <2> QED BY <1>2, <1>4, <2>1, <2>2
<1>6. downloads = 0 => \A p \in DOMAIN replies' : replies'[p].kind # "block"
  BY <1>3 DEF ShiftInv
<1>7. CASE StoreBlock(r)
  <2>1. /\ call = "file" /\ r.kind = "block"
        /\ cells' = [i \in DOMAIN cells \cup {blk} |-> IF i = blk THEN r ELSE cells[i]]
    BY <1>7 DEF StoreBlock, Place
  <2>2. ASSUME downloads = 1 PROVE r.n <= blk /\ blk <= r.n + stray
    <3>1. 1 \in DOMAIN replies /\ r \in Replies
      BY <1>1
    <3>2. r.n \in Nat
      BY <3>1 DEF Replies
    <3>3. r.n <= blk /\ blk + 1 <= r.n + stray + 1
      BY <1>1, <2>1, <2>2, <3>1 DEF ShiftInv, QueuedShift
    <3> QED BY <1>2, <3>2, <3>3
  <2>3. ShiftBounded'
    BY <1>1, <2>1, <2>2 DEF ShiftInv, ShiftBounded
  <2>4. downloads # 0
    BY <2>1 DEF ShiftInv
  <2> QED BY <1>1, <1>5, <2>3, <2>4 DEF ShiftInv
<1>8. CASE UNCHANGED <<blk, cells, downloads>> /\ (downloads = 0 => call' \notin {"file", "report"})
  <2>1. ShiftBounded'
    BY <1>1, <1>8 DEF ShiftInv, ShiftBounded
  <2> QED BY <1>1, <1>5, <1>6, <1>8, <2>1 DEF ShiftInv
<1> QED BY <1>7, <1>8

LEMMA ShiftNext ==
  ASSUME TypeOK, CallsInStep, BacklogIsStray, ShiftInv, [Next]_vars
  PROVE  ShiftInv'
<1>1. CASE CallGetSaveUpdatefile
  <2>1. /\ blk' = 0 /\ DOMAIN cells' = {} /\ UNCHANGED <<replies, stray>>
        /\ downloads' = IF downloads = 2 THEN 2 ELSE downloads + 1
    BY <1>1 DEF CallGetSaveUpdatefile
  <2>2. downloads' # 0 /\ (downloads' = 1 => downloads = 0)
    BY <2>1 DEF TypeOK
  <2> QED BY <2>1, <2>2 DEF ShiftInv, ShiftBounded, QueuedShift
<1>2. CASE Send
  BY <1>2, SendKeepsShift
<1>3. CASE UNCHANGED vars
  BY <1>3 DEF vars, loop, bookkeeping, ShiftInv, ShiftBounded, QueuedShift
<1>4. CASE ~CallGetSaveUpdatefile /\ ~Send /\ ~UNCHANGED vars
  <2>1. downloads = 0 => call' \notin {"file", "report"}
    BY <1>4, NoDownloadStarts DEF ShiftInv
  <2>2. CASE \E b : StoreBlock(b)
    <3>1. PICK b : StoreBlock(b) /\ Take(b)
      BY <2>2 DEF StoreBlock
    <3> QED BY <3>1, TakeKeepsShift
  <2>3. CASE UNCHANGED <<blk, cells, downloads>>
    <3>1. CASE \E r : Take(r)
      BY <2>1, <2>3, <3>1, TakeKeepsShift
    <3>2. CASE UNCHANGED replies /\ stray' >= stray /\ stray' \in Nat
      <4>1. stray \in Nat /\ blk \in Nat /\ replies \in Seq(Replies)
        BY ExchangeAssumption DEF TypeOK
      <4>2. ASSUME downloads = 1 PROVE QueuedShift'
        <5> SUFFICES ASSUME NEW p \in DOMAIN replies, replies[p].kind = "block"
                     PROVE  replies[p].n <= blk /\ blk + p <= replies[p].n + stray' + 1
          BY <2>3, <3>2 DEF QueuedShift
        <5>1. replies[p].n <= blk /\ blk + p <= replies[p].n + stray + 1
          BY <4>2 DEF ShiftInv, QueuedShift
        <5>2. p \in Nat /\ replies[p] \in Replies
          BY <4>1
        <5>3. replies[p].n \in Nat
          BY <5>2 DEF Replies
        <5> QED BY <3>2, <4>1, <5>1, <5>2, <5>3
      <4>3. ShiftBounded'
        <5> SUFFICES ASSUME downloads = 1, NEW i \in DOMAIN cells
                     PROVE  cells[i].n <= i /\ i <= cells[i].n + stray'
          BY <2>3 DEF ShiftBounded
        <5>1. cells[i].n <= i /\ i <= cells[i].n + stray
          BY DEF ShiftInv, ShiftBounded
        <5>2. i \in Nat /\ cells[i].n \in Nat
          BY DEF TypeOK, Replies
        <5> QED BY <3>2, <4>1, <5>1, <5>2
      <4> QED BY <2>1, <2>3, <3>2, <4>2, <4>3 DEF ShiftInv
    <3>3. stray \in Nat
      BY ExchangeAssumption DEF TypeOK
    <3>4. NothingTaken => UNCHANGED replies /\ stray' >= stray /\ stray' \in Nat
      BY <3>3 DEF NothingTaken
    <3>5. UNCHANGED stray => stray' >= stray /\ stray' \in Nat
      BY <3>3
    <3> QED BY <1>4, <3>1, <3>2, <3>4, <3>5, StepShape DEF SocketStep
  <2> QED BY <1>4, <2>2, <2>3, LoopFrame
<1> QED BY <1>1, <1>2, <1>3, <1>4

\* ShiftBounded: in the first download no block is stored before its place,
\* nor further behind it than replies have gone astray.
THEOREM ShiftIsBounded == Spec => []ShiftBounded
<1>1. Init => ShiftInv
  BY DEF Init, ShiftInv, ShiftBounded
<1>2. TypesAndCalls /\ BacklogIsStray /\ ShiftInv /\ [Next]_vars => ShiftInv'
  BY ShiftNext DEF TypesAndCalls
<1>3. ShiftInv => ShiftBounded
  BY DEF ShiftInv
<1> QED BY <1>1, <1>2, <1>3, TypesAlways, Backlog, PTL DEF Spec
=============================================================================
