----------------------------- MODULE FlashPages -----------------------------
(***************************************************************************)
(* The driver of the serial flash (src/flash25spi).  A write is split at   *)
(* the page boundaries; each page, and each erase, is enabled, sent to the *)
(* chip and waited for, and the power may fail at any time.  FirmwareUpdate *)
(* takes a write or an erase for one step; this module shows what it is    *)
(* made of.                                                                *)
(*                                                                         *)
(* External: the chip.  It ignores a command while it is busy and a write  *)
(* that was not enabled; a page that is written past its end goes on at    *)
(* its beginning; writing only clears bits; the block that command 0xd8    *)
(* erases holds one or more blocks of the driver's table.                  *)
(***************************************************************************)
EXTENDS Integers, FiniteSets

CONSTANTS
  MemSize, PageSize, BlockSize, \* _size, _pageSize, _blockSize
  ChipBlock,  \* what the chip erases at once
  MaxOps,     \* bound: operations
  MaxCuts     \* bound: power cuts

ASSUME FlashAssumption ==
  /\ MemSize \in Nat \ {0} /\ PageSize \in Nat \ {0}
  /\ BlockSize \in Nat \ {0} /\ ChipBlock \in Nat \ {0}
  /\ MemSize % PageSize = 0
  /\ \A a \in 0 .. MemSize - 1 : (a - (a % BlockSize)) \div ChipBlock = a \div ChipBlock
  /\ MaxOps \in Nat /\ MaxCuts \in Nat

Addresses == 0 .. MemSize - 1

\* The contents of an address: the number of the byte written there, counted
\* from the start of the write, or one of these.
Erased == -1
Unknown == -2

VARIABLES
  known,          \* the constructor has recognised the chip: _size # 0
  op,             \* the operation begun last: "none", "write", "erase"
  pc,             \* "rest", "enable", "command", "wait"
  start, len, ofs, \* of write; start is the address given to clearBlock
  result,         \* "none" while it runs; "done", "refused" or "cut"
  \* External: the chip.
  mem, wel, protected,
  job,            \* contents the chip is about to give to some addresses
  \* History and bounds.
  before,         \* mem when the operation began
  ops, cuts

driver == <<known, op, pc, start, len, ofs, result>>
chip == <<mem, wel, protected, job>>
vars == <<driver, chip, before, ops, cuts>>

NoJob == [a \in {} |-> Unknown]
Busy == DOMAIN job # {}

\* What is left of a byte written over others.
Program(old, new) == IF old \in {Erased, new} THEN new ELSE Unknown

Init ==
  /\ known \in BOOLEAN /\ op = "none" /\ pc = "rest"
  /\ start = 0 /\ len = 0 /\ ofs = 0 /\ result = "none"
  /\ \E c \in {Erased, Unknown} : mem = [a \in Addresses |-> c]
  /\ wel = FALSE /\ protected \in BOOLEAN /\ job = NoJob
  /\ before = mem /\ ops = 0 /\ cuts = 0

-----------------------------------------------------------------------------
(* Plausible mistakes in the code, each in the place of the definition that  *)
(* its comment names.                                                        *)

\* PageLen: the first page is taken for a whole one.
PageLenWhole == IF PageSize > len - ofs THEN len - ofs ELSE PageSize
\* WriteEnded: nothing is waited for, or for an enabled chip.
WriteEndedAlways == TRUE
WriteEndedEnabled == ~Busy /\ wel /\ ~protected

\* The amount of data for the current page.
PageLen ==
  LET room == PageSize - ((start + ofs) % PageSize)
  IN  IF room > len - ofs THEN len - ofs ELSE room

\* waitForWrite compares the whole status register with 0, not only its busy
\* bit: the write enable latch and the protection bits are in it too.
WriteEnded == ~Busy /\ ~wel /\ ~protected

-----------------------------------------------------------------------------
(* The driver.                                                             *)

Begin(o, a, n) ==
  /\ pc = "rest" /\ ops < MaxOps /\ ops' = ops + 1
  /\ op' = o /\ start' = a /\ len' = n /\ ofs' = 0
  /\ before' = mem
  /\ UNCHANGED <<known, chip, cuts>>

\* A chip that was not recognised has size 0.
WriteRefused(a, n) ==
  /\ ~known \/ a + n > MemSize
  /\ Begin("write", a, n)
  /\ result' = "refused" /\ pc' = "rest"

\* Nothing is sent to the chip for a write of no bytes.
Write(a, n) ==
  /\ known /\ a + n <= MemSize
  /\ Begin("write", a, n)
  /\ IF n > 0 THEN result' = "none" /\ pc' = "enable"
              ELSE result' = "done" /\ pc' = "rest"

\* Nobody erases a chip that was not recognised: the scan of the slots fails
\* before, because its reads are refused.
ClearBlock(a) ==
  /\ known
  /\ Begin("erase", a, 0)
  /\ result' = "none" /\ pc' = "enable"

EnableWrite ==
  /\ pc = "enable" /\ pc' = "command"
  /\ wel' = (wel \/ ~Busy)
  /\ UNCHANGED <<known, op, start, len, ofs, result, mem, protected, job, before, ops, cuts>>

\* The chip counts addresses within the page of the first byte.
PageJob ==
  LET first == start + ofs
      base == first - (first % PageSize)
      index(a) == IF a >= first THEN a - first ELSE a + PageSize - first
      page == {a \in base .. base + PageSize - 1 : index(a) < PageLen}
  IN  [a \in page |-> Program(mem[a], ofs + index(a))]

\* clearBlock sends the start of the driver's block.
EraseJob ==
  LET addr == start - (start % BlockSize)
  IN  [a \in {b \in Addresses : b \div ChipBlock = addr \div ChipBlock} |-> Erased]

\* The command is ignored by a chip that is busy, not enabled or protected.
Command ==
  /\ pc = "command" /\ pc' = "wait"
  /\ job' = IF Busy \/ ~wel \/ protected THEN job
            ELSE IF op = "write" THEN PageJob ELSE EraseJob
  /\ UNCHANGED <<known, op, start, len, ofs, result, mem, wel, protected, before, ops, cuts>>

WaitForWrite ==
  /\ pc = "wait" /\ WriteEnded
  /\ IF op = "write" /\ ofs + PageLen < len
       THEN pc' = "enable" /\ UNCHANGED result
       ELSE pc' = "rest" /\ result' = "done"
  /\ ofs' = IF op = "write" THEN ofs + PageLen ELSE ofs
  /\ UNCHANGED <<known, op, start, len, chip, before, ops, cuts>>

-----------------------------------------------------------------------------
(* The chip, and the power.                                                *)

ChipFinishes ==
  /\ Busy
  /\ mem' = [a \in Addresses |-> IF a \in DOMAIN job THEN job[a] ELSE mem[a]]
  /\ job' = NoJob /\ wel' = FALSE
  /\ UNCHANGED <<driver, protected, before, ops, cuts>>

\* What the chip was at is left in an unknown state.
PowerCut ==
  /\ cuts < MaxCuts /\ cuts' = cuts + 1
  /\ mem' = [a \in Addresses |-> IF a \in DOMAIN job THEN Unknown ELSE mem[a]]
  /\ job' = NoJob /\ wel' = FALSE
  /\ pc' = "rest" /\ known' \in BOOLEAN
  /\ result' = IF pc = "rest" THEN result ELSE "cut"
  /\ UNCHANGED <<op, start, len, ofs, protected, before, ops>>

Driver == EnableWrite \/ Command \/ WaitForWrite

Next ==
  \/ \E a \in Addresses : ClearBlock(a)
                            \/ \E n \in 0 .. MemSize : WriteRefused(a, n) \/ Write(a, n)
  \/ Driver \/ ChipFinishes \/ PowerCut

Spec == Init /\ [][Next]_vars

\* The thread that writes is scheduled and the chip ends what it does.
FairSpec == Spec /\ WF_vars(Driver) /\ WF_vars(ChipFinishes)

-----------------------------------------------------------------------------
(* Properties.                                                             *)

Contents == {Erased, Unknown} \cup Nat

\* Every variable keeps its range; the chip is enabled or busy only for the
\* operation in hand.
TypeOK ==
  /\ known \in BOOLEAN /\ op \in {"none", "write", "erase"}
  /\ pc \in {"rest", "enable", "command", "wait"}
  /\ start \in Addresses /\ len \in 0 .. MemSize /\ ofs \in 0 .. len
  /\ result \in {"none", "done", "refused", "cut"}
  /\ mem \in [Addresses -> Contents] /\ wel \in BOOLEAN /\ protected \in BOOLEAN
  /\ DOMAIN job \subseteq Addresses /\ \A a \in DOMAIN job : job[a] \in Contents
  /\ before \in [Addresses -> Contents]
  /\ ops \in 0 .. MaxOps /\ cuts \in 0 .. MaxCuts
  /\ wel => pc \in {"command", "wait"}
  /\ Busy => pc = "wait"

\* The contents asked for.
Asked(a) ==
  IF op = "write"
    THEN IF a \in start .. start + len - 1 THEN Program(before[a], a - start) ELSE before[a]
    ELSE IF a \div ChipBlock = start \div ChipBlock THEN Erased ELSE before[a]

\* A write that returns true has put every byte where it belongs, however it
\* lies across pages, and changed no other address; an erase that returns has
\* erased the block asked for and nothing outside the chip's block.  A write
\* that was refused changes nothing.
DoneAsAsked ==
  /\ result = "done" => \A a \in Addresses : mem[a] = Asked(a)
  /\ result = "refused" => mem = before

\* A power cut tears at most one page of a write, or one block of the chip:
\* every page before is written and everything behind is as it was.
CutTearsOneUnit ==
  result = "cut" =>
    LET range == start .. start + len - 1
        torn == {a \in Addresses : mem[a] \notin {before[a], Asked(a)}}
        page(a) == a \div PageSize
    IN  IF op = "erase"
          THEN \A a \in Addresses : mem[a] # before[a] => a \div ChipBlock = start \div ChipBlock
          ELSE /\ \A a \in Addresses \ range : mem[a] = before[a]
               /\ \A a, b \in torn : page(a) = page(b)
               /\ \A a \in torn, b \in Addresses :
                    /\ page(b) < page(a) => mem[b] = Asked(b)
                    /\ page(b) > page(a) => mem[b] = before[b]

\* A write or an erase returns, but for a chip with a protection bit set: then
\* waitForWrite, which looks at the whole status register, waits for ever.
OperationsEnd == ~protected => ((pc # "rest") ~> (pc = "rest"))
=============================================================================
