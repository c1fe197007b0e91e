------------------------- MODULE FlashPages_proofs -------------------------
(***************************************************************************)
(* Proofs about FlashPages, for every geometry of the chip: an operation   *)
(* that returns has done what was asked for and nothing else.  FlashInv    *)
(* says, for each place in an operation, how far the chip has come.        *)
(***************************************************************************)
EXTENDS FlashPages, TLAPS

\* The contents when the first n bytes are written.
WrittenTo(n) ==
  [a \in Addresses |->
     IF a \in start .. start + n - 1 THEN Program(before[a], a - start) ELSE before[a]]

\* What an operation that is running has checked before.
Begun ==
  pc # "rest" =>
    /\ op \in {"write", "erase"}
    /\ op = "write" => ofs < len /\ start + len <= MemSize

\* Before and at a command the memory is as the pages sent so far left it.
SoFar ==
  \/ op = "write" /\ mem = WrittenTo(ofs)
  \/ op = "erase" /\ mem = before

\* While the chip is busy it is at the page, or the block, in hand.
JobInHand ==
  \/ /\ op = "write"
     /\ DOMAIN job = start + ofs .. start + ofs + PageLen - 1
     /\ \A a \in DOMAIN job : job[a] = Program(before[a], a - start)
  \/ /\ op = "erase"
     /\ DOMAIN job = {a \in Addresses : a \div ChipBlock = start \div ChipBlock}
     /\ \A a \in DOMAIN job : job[a] = Erased

\* The chip has ended what it was at.
Ended ==
  \/ op = "write" /\ mem = WrittenTo(ofs + PageLen)
  \/ op = "erase" /\ \A a \in Addresses : mem[a] = Asked(a)

Phase ==
  /\ pc = "rest" => ~Busy /\ ~wel
  /\ pc = "enable" => ~Busy /\ ~wel /\ SoFar
  /\ pc = "command" => ~Busy /\ wel /\ SoFar
  /\ pc = "wait" => \/ Busy /\ SoFar /\ JobInHand
                    \/ ~Busy /\ (wel => protected /\ SoFar) /\ (~wel => Ended)
  /\ pc # "rest" => result = "none"

FlashInv == TypeOK /\ Begun /\ Phase /\ DoneAsAsked

-----------------------------------------------------------------------------
\* Program returns contents.
LEMMA ProgramType ==
  ASSUME NEW x \in Contents, NEW k \in Nat
  PROVE  Program(x, k) \in Contents
BY DEF Program, Contents, Erased, Unknown

\* A page is never empty, ends with the data at the latest, and ends with the
\* chip's page at the latest.
LEMMA PageLenFits ==
  ASSUME start \in Addresses, len \in 0 .. MemSize, ofs \in 0 .. len, ofs < len
  PROVE  /\ PageLen \in Nat /\ PageLen >= 1 /\ ofs + PageLen <= len
         /\ (start + ofs) % PageSize \in 0 .. PageSize - 1
         /\ PageLen <= PageSize - ((start + ofs) % PageSize)
<1>1. MemSize \in Nat /\ PageSize \in Nat /\ PageSize > 0 BY FlashAssumption
<1>2. start + ofs \in Nat BY <1>1 DEF Addresses
<1>3. (start + ofs) % PageSize \in 0 .. PageSize - 1 BY <1>1, <1>2
<1> QED BY <1>1, <1>3 DEF PageLen, Addresses

\* The page the driver sends does not go round in the chip's page.
LEMMA PageJobFits ==
  ASSUME TypeOK, Begun, pc # "rest", op = "write"
  PROVE  /\ DOMAIN PageJob = start + ofs .. start + ofs + PageLen - 1
         /\ \A a \in DOMAIN PageJob : PageJob[a] = Program(mem[a], a - start)
         /\ DOMAIN PageJob \subseteq Addresses /\ start + ofs \in DOMAIN PageJob
<1> DEFINE first == start + ofs
           base == first - (first % PageSize)
           index(a) == IF a >= first THEN a - first ELSE a + PageSize - first
           page == {a \in base .. base + PageSize - 1 : index(a) < PageLen}
<1>1. /\ start \in Addresses /\ len \in 0 .. MemSize /\ ofs \in 0 .. len
      /\ ofs < len /\ start + len <= MemSize
  BY DEF TypeOK, Begun
<1>2. MemSize \in Nat /\ PageSize \in Nat /\ PageSize > 0 BY FlashAssumption
<1>3. /\ PageLen \in Nat /\ PageLen >= 1 /\ ofs + PageLen <= len
      /\ first % PageSize \in 0 .. PageSize - 1
      /\ PageLen <= PageSize - (first % PageSize)
  BY <1>1, PageLenFits
<1>4. first \in Nat /\ base \in Int /\ base <= first BY <1>1, <1>2, <1>3 DEF Addresses
<1>5. page = first .. first + PageLen - 1
  <2> HIDE DEF base, first
  <2>1. first \in Nat /\ base \in Int /\ base <= first /\ first + PageLen <= base + PageSize
    BY <1>2, <1>3, <1>4 DEF base, first
  <2> QED BY <2>1, <1>2, <1>3
<1>6. PageJob = [a \in page |-> Program(mem[a], ofs + index(a))] BY DEF PageJob
<1>7. DOMAIN PageJob = first .. first + PageLen - 1 BY <1>5, <1>6
<1>8. ASSUME NEW a \in DOMAIN PageJob PROVE PageJob[a] = Program(mem[a], a - start)
  <2>1. a \in page /\ a \in first .. first + PageLen - 1 BY <1>5, <1>7, <1>8
  <2>2. ofs + index(a) = a - start BY <2>1, <1>1, <1>2, <1>3, <1>4 DEF Addresses
  <2> QED BY <2>1, <2>2, <1>6
<1> QED BY <1>1, <1>2, <1>3, <1>4, <1>7, <1>8 DEF Addresses

\* The chip's block that holds the start of the driver's block is the one that
\* holds the address.
LEMMA EraseJobFits ==
  ASSUME TypeOK
  PROVE  /\ DOMAIN EraseJob = {a \in Addresses : a \div ChipBlock = start \div ChipBlock}
         /\ \A a \in DOMAIN EraseJob : EraseJob[a] = Erased
         /\ start \in DOMAIN EraseJob
<1>1. start \in Addresses BY DEF TypeOK
<1>2. (start - (start % BlockSize)) \div ChipBlock = start \div ChipBlock
  BY <1>1, FlashAssumption DEF Addresses
<1> QED BY <1>1, <1>2 DEF EraseJob

-----------------------------------------------------------------------------
LEMMA InitFits == Init => FlashInv
<1> SUFFICES ASSUME Init PROVE FlashInv OBVIOUS
<1>1. mem \in [Addresses -> Contents] /\ before = mem BY DEF Init, Contents
<1>2. DOMAIN job = {} BY DEF Init, NoJob
<1>3. 0 \in Addresses /\ 0 \in 0 .. MemSize /\ 0 \in 0 .. MaxOps /\ 0 \in 0 .. MaxCuts
  BY FlashAssumption DEF Addresses
<1>4. TypeOK BY <1>1, <1>2, <1>3 DEF Init, TypeOK, Busy
<1> QED BY <1>2, <1>4 DEF Init, FlashInv, Begun, Phase, DoneAsAsked, Busy

\* Nothing of the invariant speaks of the bounds alone.
LEMMA StutterKeeps ==
  ASSUME FlashInv, UNCHANGED vars
  PROVE  FlashInv'
BY DEF FlashInv, TypeOK, Begun, Phase, DoneAsAsked, SoFar, JobInHand, Ended, WrittenTo,
       Asked, PageLen, Busy, vars, driver, chip

\* An operation begins at a chip that is not busy; nothing is written so far.
LEMMA BeginKeeps ==
  ASSUME FlashInv, NEW a \in Addresses, NEW n \in 0 .. MemSize,
         WriteRefused(a, n) \/ Write(a, n) \/ ClearBlock(a)
  PROVE  FlashInv'
<1>1. PICK o \in {"write", "erase"}, k \in 0 .. MemSize :
        /\ Begin(o, a, k)
        /\ \/ pc' = "rest" /\ result' = "refused"
           \/ pc' = "rest" /\ result' = "done" /\ o = "write" /\ k = 0
           \/ /\ pc' = "enable" /\ result' = "none"
              /\ o = "write" => k > 0 /\ a + k <= MemSize
  BY FlashAssumption DEF WriteRefused, Write, ClearBlock
<1>2. /\ pc = "rest" /\ op' = o /\ start' = a /\ len' = k /\ ofs' = 0
      /\ ops < MaxOps /\ ops' = ops + 1 /\ before' = mem
      /\ UNCHANGED <<known, mem, wel, protected, job, cuts>>
  BY <1>1 DEF Begin, chip
<1>3. TypeOK'
  <2>1. ops' \in 0 .. MaxOps /\ ofs' \in 0 .. len'
    <3>1. MaxOps \in Nat /\ ops \in 0 .. MaxOps BY FlashAssumption DEF FlashInv, TypeOK
    <3>2. ops' \in 0 .. MaxOps BY <1>2, <3>1
    <3>3. MemSize \in Nat BY FlashAssumption
    <3>4. 0 \in 0 .. k BY <3>3
    <3> QED BY <1>2, <3>2, <3>4
  <2>2. pc' \in {"rest", "enable"} /\ result' \in {"refused", "none", "done"} BY <1>1
  <2>3. ~wel' /\ ~Busy' BY <1>2 DEF FlashInv, Phase, Busy
  <2> QED BY <1>2, <2>1, <2>2, <2>3 DEF FlashInv, TypeOK
<1>4. Begun' BY <1>1, <1>2 DEF Begun
<1>5. ASSUME o = "write" PROVE WrittenTo(0)' = mem
  <2>1. WrittenTo(0)' = [b \in Addresses |-> mem[b]]
    BY <1>2, FlashAssumption DEF WrittenTo, Addresses
  <2> QED BY <2>1 DEF FlashInv, TypeOK
<1>6. SoFar' BY <1>2, <1>5 DEF SoFar, WrittenTo
<1>7. Phase' BY <1>1, <1>2, <1>6 DEF FlashInv, Phase, Busy
<1>8. DoneAsAsked'
  <2>1. CASE result' = "done"
    <3>1. op' = "write" /\ len' = 0 /\ start' = a /\ before' = mem /\ mem' = mem
      BY <1>1, <1>2, <2>1
    <3>2. a .. a + 0 - 1 = {} BY FlashAssumption DEF Addresses
    <3>3. \A b \in Addresses : Asked(b)' = mem'[b] BY <3>1, <3>2 DEF Asked
    <3> QED BY <2>1, <3>3 DEF DoneAsAsked
  <2>2. CASE result' # "done" BY <1>2, <2>2 DEF DoneAsAsked
  <2> QED BY <2>1, <2>2
<1> QED BY <1>3, <1>4, <1>7, <1>8 DEF FlashInv

\* The command reaches the chip enabled; the chip takes it or is protected.
LEMMA CommandKeeps ==
  ASSUME FlashInv, EnableWrite \/ Command
  PROVE  FlashInv'
<1>1. CASE EnableWrite
  BY <1>1 DEF EnableWrite, FlashInv, TypeOK, Begun, Phase, DoneAsAsked, SoFar, WrittenTo,
              Asked, Busy
<1>2. CASE Command
  <2>1. /\ pc = "command" /\ pc' = "wait" /\ wel /\ ~Busy /\ SoFar /\ result = "none"
        /\ op \in {"write", "erase"}
        /\ UNCHANGED <<known, op, start, len, ofs, result, mem, wel, protected, before, ops, cuts>>
    BY <1>2 DEF Command, FlashInv, Phase, Begun
  <2>2. SoFar' /\ PageLen' = PageLen BY <2>1 DEF SoFar, PageLen, WrittenTo
  <2>3. CASE protected
    <3>1. job' = job BY <1>2, <2>3 DEF Command
    <3> QED BY <2>1, <2>2, <2>3, <3>1 DEF FlashInv, TypeOK, Begun, Phase, DoneAsAsked, Asked, Busy
  <2>4. CASE ~protected
    <3>1. job' = IF op = "write" THEN PageJob ELSE EraseJob
      BY <1>2, <2>1, <2>4 DEF Command
    <3>2. JobInHand' /\ Busy' /\ DOMAIN job' \subseteq Addresses
          /\ \A a \in DOMAIN job' : job'[a] \in Contents
      <4>1. CASE op = "write"
        <5>1. /\ DOMAIN PageJob = start + ofs .. start + ofs + PageLen - 1
              /\ \A a \in DOMAIN PageJob : PageJob[a] = Program(mem[a], a - start)
              /\ DOMAIN PageJob \subseteq Addresses /\ start + ofs \in DOMAIN PageJob
          BY <2>1, <4>1, PageJobFits DEF FlashInv
        <5>2. start \in Nat /\ ofs \in Nat /\ before \in [Addresses -> Contents]
          BY FlashAssumption DEF FlashInv, TypeOK, Addresses
        <5>3. ASSUME NEW a \in DOMAIN PageJob
              PROVE  mem[a] = before[a] /\ PageJob[a] \in Contents
          <6>1. a \in Addresses /\ a \in Int /\ a >= start + ofs
            BY <5>1, <5>2, <5>3, FlashAssumption DEF Addresses
          <6>2. mem = WrittenTo(ofs) BY <2>1, <4>1 DEF SoFar
          <6>3. mem[a] = before[a] BY <6>1, <6>2, <5>2 DEF WrittenTo
          <6>4. a - start \in Nat BY <6>1, <5>2
          <6> QED BY <6>1, <6>3, <6>4, <5>1, <5>2, ProgramType
        <5> QED BY <2>1, <2>2, <3>1, <4>1, <5>1, <5>3 DEF JobInHand, Busy
      <4>2. CASE op = "erase"
        BY <2>1, <3>1, <4>2, EraseJobFits DEF FlashInv, JobInHand, Busy, Contents
      <4> QED BY <2>1, <4>1, <4>2
    <3> QED BY <2>1, <2>2, <3>2 DEF FlashInv, TypeOK, Begun, Phase, DoneAsAsked, Asked
  <2> QED BY <2>3, <2>4
<1> QED BY <1>1, <1>2

\* The driver goes on when the chip has ended.
LEMMA WaitKeeps ==
  ASSUME FlashInv, WaitForWrite
  PROVE  FlashInv'
<1>1. /\ pc = "wait" /\ ~Busy /\ ~wel /\ Ended /\ result = "none" /\ op \in {"write", "erase"}
      /\ UNCHANGED <<op, start, len, known, mem, wel, protected, job, before, ops, cuts>>
  BY DEF WaitForWrite, WriteEnded, FlashInv, Phase, Begun, chip
<1>2. start \in Addresses /\ len \in 0 .. MemSize /\ ofs \in 0 .. len /\ MemSize \in Nat
  BY FlashAssumption DEF FlashInv, TypeOK
<1>3. CASE op = "write"
  <2>1. ofs < len /\ start + len <= MemSize /\ mem = WrittenTo(ofs + PageLen)
    BY <1>1, <1>3 DEF FlashInv, Begun, Ended
  <2>2. PageLen \in Nat /\ PageLen >= 1 /\ ofs + PageLen <= len
    BY <1>2, <2>1, PageLenFits
  <2>3. ofs' = ofs + PageLen BY <1>3 DEF WaitForWrite
  <2>4. mem' = WrittenTo(ofs)' BY <1>1, <2>1, <2>3 DEF WrittenTo
  <2>5. CASE ofs + PageLen < len
    <3>1. pc' = "enable" /\ result' = "none" BY <1>1, <1>3, <2>5 DEF WaitForWrite
    <3> QED BY <1>1, <1>2, <1>3, <2>1, <2>2, <2>3, <2>4, <2>5, <3>1
          DEF FlashInv, TypeOK, Begun, Phase, DoneAsAsked, SoFar, Busy
  <2>6. CASE ~(ofs + PageLen < len)
    <3>1. pc' = "rest" /\ result' = "done" BY <1>1, <1>3, <2>6 DEF WaitForWrite
    <3>2. ofs + PageLen = len BY <1>2, <2>2, <2>6
    <3>3. \A a \in Addresses : mem[a] = Asked(a)
      BY <1>3, <2>1, <3>2 DEF WrittenTo, Asked
    <3>4. DoneAsAsked' BY <1>1, <3>1, <3>3 DEF DoneAsAsked, Asked
    <3> QED BY <1>1, <1>2, <1>3, <2>2, <2>3, <3>1, <3>4
          DEF FlashInv, TypeOK, Begun, Phase, Busy
  <2> QED BY <2>5, <2>6
<1>4. CASE op = "erase"
  <2>1. pc' = "rest" /\ result' = "done" /\ ofs' = ofs BY <1>4 DEF WaitForWrite
  <2>2. \A a \in Addresses : mem[a] = Asked(a) BY <1>1, <1>4 DEF Ended
  <2>3. DoneAsAsked' BY <1>1, <2>1, <2>2 DEF DoneAsAsked, Asked
  <2> QED BY <1>1, <1>2, <1>4, <2>1, <2>3 DEF FlashInv, TypeOK, Begun, Phase, Busy
<1> QED BY <1>1, <1>3, <1>4

\* The chip ends what it is at: the page, or the block, is as asked for.
LEMMA FinishKeeps ==
  ASSUME FlashInv, ChipFinishes
  PROVE  FlashInv'
<1>1. /\ pc = "wait" /\ SoFar /\ JobInHand /\ result = "none"
      /\ mem' = [a \in Addresses |-> IF a \in DOMAIN job THEN job[a] ELSE mem[a]]
      /\ DOMAIN job' = {} /\ wel' = FALSE
      /\ UNCHANGED <<known, op, pc, start, len, ofs, result, protected, before, ops, cuts>>
  BY DEF ChipFinishes, FlashInv, Phase, TypeOK, driver, NoJob
<1>2. mem' \in [Addresses -> Contents] BY <1>1 DEF FlashInv, TypeOK
<1>3. TypeOK' BY <1>1, <1>2 DEF FlashInv, TypeOK, Busy
<1>4. Ended'
  <2>1. CASE op = "write"
    <3>1. /\ mem = WrittenTo(ofs)
          /\ DOMAIN job = start + ofs .. start + ofs + PageLen - 1
          /\ \A a \in DOMAIN job : job[a] = Program(before[a], a - start)
      BY <1>1, <2>1 DEF SoFar, JobInHand
    <3>2. start \in Nat /\ ofs \in Nat /\ PageLen \in Nat
      BY <1>1, <2>1, PageLenFits, FlashAssumption DEF FlashInv, TypeOK, Begun, Addresses
    <3>3. ASSUME NEW a \in Addresses PROVE mem'[a] = WrittenTo(ofs + PageLen)[a]
      <4>1. a \in Int BY FlashAssumption DEF Addresses
      <4>2. mem'[a] = IF a \in DOMAIN job THEN job[a] ELSE mem[a] BY <1>1
      <4>3. mem[a] = IF a \in start .. start + ofs - 1
                       THEN Program(before[a], a - start) ELSE before[a]
        BY <3>1 DEF WrittenTo
      <4>4. CASE a \in DOMAIN job
        <5>1. a \in start .. start + (ofs + PageLen) - 1 BY <3>1, <3>2, <4>1, <4>4
        <5> QED BY <3>1, <4>2, <4>4, <5>1 DEF WrittenTo
      <4>5. CASE a \notin DOMAIN job
        <5>1. a \in start .. start + (ofs + PageLen) - 1 <=> a \in start .. start + ofs - 1
          BY <3>1, <3>2, <4>1, <4>5
        <5> QED BY <4>2, <4>3, <4>5, <5>1 DEF WrittenTo
      <4> QED BY <4>4, <4>5
    <3>4. mem' = WrittenTo(ofs + PageLen) BY <1>1, <3>3 DEF WrittenTo
    <3>5. mem' = WrittenTo(ofs + PageLen)' BY <1>1, <3>4 DEF WrittenTo, PageLen
    <3> QED BY <1>1, <2>1, <3>5 DEF Ended
  <2>2. CASE op = "erase"
    <3>1. /\ mem = before
          /\ DOMAIN job = {a \in Addresses : a \div ChipBlock = start \div ChipBlock}
          /\ \A a \in DOMAIN job : job[a] = Erased
      BY <1>1, <2>2 DEF SoFar, JobInHand
    <3>2. \A a \in Addresses : mem'[a] = Asked(a) BY <1>1, <2>2, <3>1 DEF Asked
    <3> QED BY <1>1, <2>2, <3>2 DEF Ended, Asked
  <2> QED BY <1>1, <2>1, <2>2 DEF FlashInv, Begun
<1>5. Begun' BY <1>1 DEF FlashInv, Begun
<1>6. Phase' BY <1>1, <1>4 DEF Phase, Busy
<1>7. DoneAsAsked' BY <1>1 DEF DoneAsAsked
<1> QED BY <1>3, <1>5, <1>6, <1>7 DEF FlashInv

\* A power cut ends the operation; at rest nothing is torn.
LEMMA CutKeeps ==
  ASSUME FlashInv, PowerCut
  PROVE  FlashInv'
<1>1. /\ mem' = [a \in Addresses |-> IF a \in DOMAIN job THEN Unknown ELSE mem[a]]
      /\ DOMAIN job' = {} /\ wel' = FALSE /\ pc' = "rest" /\ known' \in BOOLEAN
      /\ cuts' \in 0 .. MaxCuts
      /\ result' = IF pc = "rest" THEN result ELSE "cut"
      /\ UNCHANGED <<op, start, len, ofs, protected, before, ops>>
  BY FlashAssumption DEF PowerCut, NoJob, FlashInv, TypeOK
<1>2. mem' \in [Addresses -> Contents] BY <1>1 DEF FlashInv, TypeOK, Contents
<1>3. TypeOK' BY <1>1, <1>2 DEF FlashInv, TypeOK, Busy
<1>4. pc = "rest" => mem' = mem BY <1>1 DEF FlashInv, Phase, Busy, TypeOK
<1>5. DoneAsAsked' BY <1>1, <1>4 DEF FlashInv, DoneAsAsked, Asked
<1> QED BY <1>1, <1>3, <1>5 DEF FlashInv, Begun, Phase, Busy

LEMMA NextKeeps == FlashInv /\ [Next]_vars => FlashInv'
<1> SUFFICES ASSUME FlashInv, [Next]_vars PROVE FlashInv' OBVIOUS
<1>1. CASE \E a \in Addresses : ClearBlock(a)
                \/ \E n \in 0 .. MemSize : WriteRefused(a, n) \/ Write(a, n)
  <2>1. MemSize \in 0 .. MemSize BY FlashAssumption
  <2> QED BY <1>1, <2>1, BeginKeeps
<1>2. CASE Driver BY <1>2, CommandKeeps, WaitKeeps DEF Driver
<1>3. CASE ChipFinishes BY <1>3, FinishKeeps
<1>4. CASE PowerCut BY <1>4, CutKeeps
<1>5. CASE UNCHANGED vars BY <1>5, StutterKeeps
<1> QED BY <1>1, <1>2, <1>3, <1>4, <1>5 DEF Next

LEMMA FlashInvHolds == Spec => []FlashInv
<1>1. Init => FlashInv BY InitFits
<1>2. FlashInv /\ [Next]_vars => FlashInv' BY NextKeeps
<1> QED BY <1>1, <1>2, PTL DEF Spec

-----------------------------------------------------------------------------
\* Every variable of the driver and of the chip keeps its range, and the chip
\* is enabled or busy only for the operation in hand (flash25spi.cpp 171-265).
THEOREM FlashTypeCorrect == Spec => []TypeOK
<1>1. FlashInv => TypeOK BY DEF FlashInv
<1> QED BY <1>1, FlashInvHolds, PTL

\* A write or an erase that returns has changed what it was asked to change
\* and nothing else, for every size of pages and blocks and every place the
\* data lie at (flash25spi.cpp 151-169).
THEOREM OperationsAreExact == Spec => []DoneAsAsked
<1>1. FlashInv => DoneAsAsked BY DEF FlashInv
<1> QED BY <1>1, FlashInvHolds, PTL
-----------------------------------------------------------------------------
\* Division with rest.
LEMMA DivMod ==
  ASSUME NEW x \in Nat, NEW P \in Nat, P > 0
  PROVE  x \div P \in Nat /\ x = P * (x \div P) + (x % P) /\ x % P \in 0 .. P - 1
BY SMTT(20)

\* The next multiple is further away than one step.
LEMMA NextMultiple ==
  ASSUME NEW P \in Nat, P > 0, NEW q \in Nat, NEW r \in Nat, r > q
  PROVE  P * r >= P * q + P
<1>1. PICK d \in Nat : r = q + 1 + d
  <2>1. r - q - 1 \in Nat OBVIOUS
  <2> QED BY <2>1
<1>2. P * r = P * q + P + P * d BY <1>1
<1>3. P * d \in Nat /\ P * q \in Nat OBVIOUS
<1> QED BY <1>2, <1>3

\* Where the pages before and behind that of x are.
LEMMA PagesApart ==
  ASSUME NEW P \in Nat, P > 0, NEW x \in Nat, NEW a \in Nat
  PROVE  /\ (x \div P) < (a \div P) <=> a >= x - (x % P) + P
         /\ (a \div P) < (x \div P) <=> a < x - (x % P)
<1> DEFINE q == x \div P
           r == a \div P
           m == x % P
           n == a % P
<1>1. q \in Nat /\ x = P * q + m /\ m \in 0 .. P - 1 BY DivMod
<1>2. r \in Nat /\ a = P * r + n /\ n \in 0 .. P - 1 BY DivMod
<1>3. q < r => P * r >= P * q + P BY <1>1, <1>2, NextMultiple
<1>4. r < q => P * q >= P * r + P BY <1>1, <1>2, NextMultiple
<1>5. P * q \in Nat /\ P * r \in Nat BY <1>1, <1>2
<1>6. q = r => P * q = P * r OBVIOUS
<1> HIDE DEF q, r, m, n
<1> DEFINE u == P * q
           v == P * r
<1>7. u \in Nat /\ v \in Nat BY <1>5
<1>8. x = u + m /\ a = v + n BY <1>1, <1>2
<1>9. (q < r => v >= u + P) /\ (r < q => u >= v + P) /\ (q = r => u = v)
  BY <1>3, <1>4, <1>6
<1> HIDE DEF u, v
<1>10. (q < r <=> a >= x - m + P) /\ (r < q <=> a < x - m)
  BY <1>1, <1>2, <1>7, <1>8, <1>9
<1> QED BY <1>10 DEF q, r, m, n

\* A cut while the chip is at a page: what lies before that page is written,
\* what lies behind it is as it was.
LEMMA CutTearsPage ==
  ASSUME FlashInv, PowerCut, pc # "rest", op = "write", Busy
  PROVE  CutTearsOneUnit'
<1> DEFINE first == start + ofs
           base == first - (first % PageSize)
           page == [a \in Int |-> a \div PageSize]
<1>1. /\ SoFar /\ JobInHand /\ UNCHANGED <<op, start, len, ofs, before>>
      /\ mem' = [a \in Addresses |-> IF a \in DOMAIN job THEN Unknown ELSE mem[a]]
  BY DEF PowerCut, FlashInv, Phase, TypeOK
<1>2. /\ start \in Nat /\ len \in Nat /\ ofs \in Nat /\ MemSize \in Nat
      /\ PageSize \in Nat /\ PageSize > 0
      /\ start \in Addresses /\ len \in 0 .. MemSize /\ ofs \in 0 .. len /\ ofs < len
  BY FlashAssumption DEF FlashInv, TypeOK, Begun, Addresses
<1>3. /\ PageLen \in Nat /\ ofs + PageLen <= len /\ first % PageSize \in 0 .. PageSize - 1
      /\ PageLen <= PageSize - (first % PageSize)
  BY <1>2, PageLenFits
<1>4. DOMAIN job = first .. first + PageLen - 1 BY <1>1 DEF JobInHand
<1>5. \A a \in Addresses : a \in Nat BY <1>2 DEF Addresses
<1>6. first \in Nat /\ base \in Int /\ base <= first /\ first + PageLen <= base + PageSize
  BY <1>2, <1>3
<1>7. \A a \in Addresses :
        /\ page[first] < page[a] <=> a >= base + PageSize
        /\ page[a] < page[first] <=> a < base
        /\ page[a] \in Int /\ page[first] \in Int
  BY <1>2, <1>5, <1>6, PagesApart
<1>15. \A a \in Addresses : page[a] = a \div PageSize BY <1>5
<1>8. \A a \in Addresses : mem[a] = IF a \in start .. first - 1 THEN Asked(a) ELSE before[a]
  <2>1. ASSUME NEW a \in Addresses
        PROVE mem[a] = IF a \in start .. first - 1 THEN Asked(a) ELSE before[a]
    <3>1. mem[a] = IF a \in start .. start + ofs - 1
                     THEN Program(before[a], a - start) ELSE before[a]
      BY <1>1 DEF SoFar, WrittenTo
    <3>2. a \in start .. first - 1 => a \in start .. start + len - 1
      BY <1>2, <1>5
    <3>3. a \in start .. first - 1 => Asked(a) = Program(before[a], a - start)
      BY <3>2 DEF Asked
    <3>4. start .. first - 1 = start .. start + ofs - 1 BY <1>2
    <3> HIDE DEF first
    <3>5. CASE a \in start .. first - 1 BY <3>1, <3>3, <3>4, <3>5
    <3>6. CASE a \notin start .. first - 1 BY <3>1, <3>4, <3>6
    <3> QED BY <3>5, <3>6
  <2> QED BY <2>1
<1> HIDE DEF first, base, page
<1>9. \A a \in Addresses : a \notin first .. first + PageLen - 1 => mem'[a] = mem[a]
  BY <1>1, <1>4
<1>10. \A a \in Addresses : Asked(a)' = Asked(a) BY <1>1 DEF Asked
<1>11. ASSUME NEW a \in Addresses, mem'[a] \notin {before[a], Asked(a)}
       PROVE  page[a] = page[first]
  <2>1. a \in first .. first + PageLen - 1 BY <1>8, <1>9, <1>11
  <2>2. ~(a >= base + PageSize) /\ ~(a < base)
    BY <1>2, <1>3, <1>5, <1>6, <2>1
  <2> QED BY <1>2, <1>5, <1>6, <1>7, <2>2
<1>12. ASSUME NEW b \in Addresses, page[b] < page[first]
       PROVE  mem'[b] = Asked(b)
  <2>1. b < base BY <1>2, <1>5, <1>6, <1>7, <1>12
  <2>2. b \notin first .. first + PageLen - 1 BY <1>5, <1>6, <2>1
  <2>3. b \in start .. first - 1 \/ b < start BY <1>2, <1>5, <1>6, <2>1
  <2>4. b < start => Asked(b) = before[b] BY <1>2, <1>5 DEF Asked
  <2>5. b < start => b \notin start .. first - 1 BY <1>2, <1>5, <1>6
  <2> QED BY <1>8, <1>9, <2>2, <2>3, <2>4, <2>5
<1>13. ASSUME NEW b \in Addresses, page[first] < page[b]
       PROVE  mem'[b] = before[b]
  <2>1. b >= base + PageSize BY <1>2, <1>5, <1>6, <1>7, <1>13
  <2>2. b \notin first .. first + PageLen - 1 /\ b \notin start .. first - 1
    BY <1>2, <1>3, <1>5, <1>6, <2>1
  <2> QED BY <1>8, <1>9, <2>2
<1>14. ASSUME NEW b \in Addresses, b \notin start .. start + len - 1
       PROVE  mem'[b] = before[b]
  <2>1. b \notin first .. first + PageLen - 1 /\ b \notin start .. first - 1
    BY <1>2, <1>3, <1>5, <1>6, <1>14 DEF first
  <2> QED BY <1>8, <1>9, <2>1
<1>16. \A a, b \in Addresses :
         mem'[a] \notin {before[a], Asked(a)} =>
           /\ mem'[b] \notin {before[b], Asked(b)} => page[a] = page[b]
           /\ page[b] < page[a] => mem'[b] = Asked(b)
           /\ page[a] < page[b] => mem'[b] = before[b]
  BY <1>11, <1>12, <1>13
<1> QED BY <1>1, <1>10, <1>14, <1>15, <1>16 DEF CutTearsOneUnit

\* A cut anywhere else in an operation.
LEMMA CutTearsLittle ==
  ASSUME FlashInv, PowerCut, pc # "rest"
  PROVE  CutTearsOneUnit'
<1>1. /\ UNCHANGED <<op, start, len, ofs, before>> /\ op \in {"write", "erase"}
      /\ mem' = [a \in Addresses |-> IF a \in DOMAIN job THEN Unknown ELSE mem[a]]
      /\ SoFar \/ (~Busy /\ Ended)
  BY DEF PowerCut, FlashInv, Phase, Begun, TypeOK
<1>2. CASE op = "write" /\ ~Busy
  <2>1. mem' = mem BY <1>1, <1>2 DEF Busy, FlashInv, TypeOK
  <2>2. PICK n \in Nat : n <= len /\ mem = WrittenTo(n)
    <3>1. /\ PageLen \in Nat /\ ofs + PageLen <= len /\ ofs \in Nat /\ ofs <= len
      BY <1>2, PageLenFits, FlashAssumption DEF FlashInv, TypeOK, Begun
    <3> QED BY <1>1, <1>2, <3>1 DEF SoFar, Ended
  <2>3. start \in Nat /\ len \in Nat /\ \A a \in Addresses : a \in Int
    BY FlashAssumption DEF FlashInv, TypeOK, Addresses
  <2>4. \A a \in Addresses : mem[a] \in {before[a], Asked(a)}
    BY <1>2, <2>2, <2>3 DEF WrittenTo, Asked
  <2>5. \A a \in Addresses : a \notin start .. start + len - 1 => mem[a] = before[a]
    BY <1>2, <2>2, <2>3 DEF WrittenTo
  <2>6. \A a \in Addresses : Asked(a)' = Asked(a) BY <1>1 DEF Asked
  <2> QED BY <1>1, <1>2, <2>1, <2>4, <2>5, <2>6 DEF CutTearsOneUnit
<1>3. CASE op = "write" /\ Busy BY <1>3, CutTearsPage
<1>4. CASE op = "erase"
  <2>1. \A a \in Addresses : a \div ChipBlock # start \div ChipBlock => mem[a] = before[a]
    BY <1>1, <1>4 DEF SoFar, Ended, Asked
  <2>2. \A a \in DOMAIN job : a \div ChipBlock = start \div ChipBlock
    <3>1. CASE Busy BY <1>4, <3>1 DEF FlashInv, Phase, JobInHand, TypeOK
    <3>2. CASE ~Busy BY <3>2 DEF Busy
    <3> QED BY <3>1, <3>2
  <2>3. \A a \in Addresses : mem'[a] # before[a] => a \div ChipBlock = start \div ChipBlock
    BY <1>1, <2>1, <2>2
  <2> QED BY <1>1, <1>4, <2>3 DEF CutTearsOneUnit
<1> QED BY <1>1, <1>2, <1>3, <1>4

\* Only a power cut makes a result of "cut".
LEMMA CutInvKeeps == FlashInv /\ CutTearsOneUnit /\ [Next]_vars => CutTearsOneUnit'
<1> SUFFICES ASSUME FlashInv, CutTearsOneUnit, [Next]_vars PROVE CutTearsOneUnit' OBVIOUS
<1>1. CASE \E a \in Addresses : ClearBlock(a)
                \/ \E n \in 0 .. MemSize : WriteRefused(a, n) \/ Write(a, n)
  BY <1>1 DEF ClearBlock, WriteRefused, Write, CutTearsOneUnit
<1>2. CASE Driver \/ ChipFinishes
  <2>1. result = "none" BY <1>2 DEF Driver, EnableWrite, Command, WaitForWrite, ChipFinishes,
                                    FlashInv, Phase, Busy
  <2>2. result' \in {"none", "done"}
    BY <1>2, <2>1 DEF Driver, EnableWrite, Command, WaitForWrite, ChipFinishes, driver
  <2> QED BY <2>2 DEF CutTearsOneUnit
<1>3. CASE PowerCut /\ pc # "rest" BY <1>3, CutTearsLittle
<1>4. CASE PowerCut /\ pc = "rest"
  <2>1. /\ mem' = mem /\ UNCHANGED <<result, op, start, len, before>>
    BY <1>4 DEF PowerCut, FlashInv, Phase, Busy, TypeOK
  <2> QED BY <2>1 DEF CutTearsOneUnit, Asked
<1>5. CASE UNCHANGED vars BY <1>5 DEF vars, driver, chip, CutTearsOneUnit, Asked
<1> QED BY <1>1, <1>2, <1>3, <1>4, <1>5 DEF Next

\* A power cut within a write leaves at most one page in an unknown state,
\* those before written and those behind as they were; one within an erase
\* changes only the chip's block (flash25spi.cpp 171-228).
THEOREM CutsTearOneUnit == Spec => []CutTearsOneUnit
<1>1. Init => CutTearsOneUnit BY DEF Init, CutTearsOneUnit
<1>2. FlashInv /\ CutTearsOneUnit /\ [Next]_vars => CutTearsOneUnit' BY CutInvKeeps
<1> QED BY <1>1, <1>2, FlashInvHolds, PTL DEF Spec
=============================================================================
