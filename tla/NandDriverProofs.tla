--------------------------- MODULE NandDriverProofs ---------------------------
(***************************************************************************)
(* Proofs about NandDriver, for every geometry, content and data, and any  *)
(* sequence of driver operations: Inv holds initially and is kept by every *)
(* action (one lemma per action).  Its core is what the chip is doing at   *)
(* each operation of a batch (ChipInv), as long as no wait ran out.        *)
(***************************************************************************)
EXTENDS NandDriver, SequenceTheorems, TLAPS

-------------------------------------------------------------------------------
(* The inductive invariant *)

Units == Len(call.units)
Polls == [ok : BOOLEAN, good : BOOLEAN]
Pieces == [1 .. 1 -> {0, 1}] \cup [1 .. 3 -> {0, 1}]

\* The batch is at an operation of one of its units.
AtUnit == result = "busy" /\ item =< Units /\ pos > 0
Unit == call.units[item]

Types ==
  /\ TypeOK
  /\ item \in Nat /\ pos \in Nat
  /\ call.quad \in BOOLEAN /\ call.sets \in BOOLEAN
  /\ call.units \in Seq(IF call.what = "erase" THEN Block ELSE Row)
  /\ data \in Seq(Pieces)
  /\ polls \in Seq(Polls)
  /\ kind = "spi" => mode = "idle" /\ useRb
  /\ ~needsQe => ~call.sets

\* Where the batch is.
PosInv ==
  /\ item \in 1 .. Units + 1
  /\ result # "busy" => item = Units + 1
  /\ result = "busy" /\ item =< Units /\ pos # 0 => pos \in 1 .. Len(Batch)
  /\ result = "busy" /\ pos = 0 => call.sets /\ item = 1
  /\ result = "busy" /\ item > Units => pos \in {0, 1} \/ (pos = 2 /\ call.sets)

\* What the units of a call are to its items.
CallInv ==
  /\ call.what \in {"read", "program", "erase"} => call.units = call.items
  /\ call.what = "scan" =>
       /\ call.items \in Seq(Block)
       /\ Units = 2 * Len(call.items)
       /\ \A i \in 1 .. Len(call.items) :
            /\ call.units[2 * i - 1] = call.items[i] * PPB
            /\ call.units[2 * i] = call.items[i] * PPB + 1
  /\ call.what \in {"program", "erase"} =>
       \A i, j \in 1 .. Units : i # j => call.units[i] # call.units[j]
  /\ result # "none" => Units > 0

QeInv ==
  /\ call.sets => ~qe0
  /\ call.what \in {"read", "program"} /\ call.quad /\ needsQe /\ ~call.sets => qe0
  /\ qe = IF result = "busy" /\ call.sets /\ pos # 0 /\ ~(item > Units /\ pos = 2)
          THEN TRUE ELSE qe0

\* The rows a unit writes.
UnitRows(u) ==
  IF call.what = "program" THEN {u} ELSE IF call.what = "erase" THEN RowsOf(u) ELSE {}

\* The batch is past the confirmation of unit k.
Confirmed(k) == k =< item /\ (k = item => pos = Len(Batch))

TouchInv ==
  \A r \in Row :
    cells[r] # cells0[r] => \E k \in 1 .. Units : Confirmed(k) /\ r \in UnitRows(call.units[k])

\* A program or an erase is under way only between its own operations.
Setup == IF kind = "small" THEN 2 ELSE 1
ModeInv ==
  /\ mode \in {"prog_addr", "prog_data"} =>
       ~busy /\ AtUnit /\ call.what = "program"
  /\ mode \in {"erase_addr", "erased_addr"} =>
       ~busy /\ AtUnit /\ call.what = "erase"
  /\ mode = "prog_addr" => pos = Setup + 1
  /\ mode = "prog_data" => pos \in {Setup + 2, Setup + 3} /\ addr[2] = Unit
  /\ mode = "erase_addr" => pos = 2
  /\ mode = "erased_addr" => pos = 3 /\ addr[2] = Unit * PPB

\* The chip has been ready whenever the driver took it to be.
Clean == ~late /\ AllWaited

FirstCol == IF call.what = "scan" THEN Spare ELSE 0
Width == IF call.what = "scan" THEN 1 ELSE 3
Expected(u) == [i \in 1 .. Width |-> cells0[u][FirstCol + i - 1]]

Good == IF kind = "spi" THEN ~fail ELSE GoodStatus
Done(u) ==
  IF call.what = "program" THEN cells[u] = And(cells0[u], call.d)
  ELSE \A r \in RowsOf(u) : cells[r] = AllFF

\* What the chip is doing at each operation of a unit.
Wait == IF kind = "small" THEN 3 ELSE 4
ReadAt ==
  /\ pos # Wait => ~busy
  /\ pos = 2 => mode \in {"read_addr", "resume"} /\ (kind = "small" => area = AreaOf(FirstCol))
  /\ kind = "large" /\ pos = 3 => mode = "read_addr" /\ addr = <<FirstCol, Unit>>
  /\ pos >= Wait => addr = <<FirstCol, Unit>> /\ reg = cells[Unit]
  /\ pos = Wait => mode = "data"
  /\ pos = Wait + 1 => mode = IF useRb THEN "data" ELSE "status data"
  /\ pos = Wait + 2 => mode = "resume"
SpiReadAt ==
  /\ pos # 2 => ~busy
  /\ pos >= 2 => reg = cells[Unit]
ProgramAt ==
  /\ pos < Setup + 4 => ~busy
  /\ pos >= Setup /\ kind = "small" => area = "00"
  /\ pos = Setup + 1 => mode = "prog_addr"
  /\ pos = Setup + 2 => mode = "prog_data" /\ addr = <<0, Unit>>
  /\ pos = Setup + 3 => mode = "prog_data" /\ reg = call.d
  /\ pos = Setup + 4 => (Good => Done(Unit))
SpiProgramAt ==
  /\ pos < 4 => ~busy
  /\ pos = 3 => reg = call.d
  /\ pos = 4 => (Good => Done(Unit))
EraseAt ==
  /\ pos < 4 => ~busy
  /\ pos = 2 => mode = "erase_addr"
  /\ pos = 3 => mode = "erased_addr"
  /\ pos = 4 => (Good => Done(Unit))
SpiEraseAt ==
  /\ pos < 3 => ~busy
  /\ pos = 3 => (Good => Done(Unit))

At ==
  IF call.what = "program" THEN IF kind = "spi" THEN SpiProgramAt ELSE ProgramAt
  ELSE IF call.what = "erase" THEN IF kind = "spi" THEN SpiEraseAt ELSE EraseAt
  ELSE IF kind = "spi" THEN SpiReadAt ELSE ReadAt

ChipInv ==
  Clean /\ result = "busy" =>
    /\ item =< Units /\ pos =< 1 => ~busy
    /\ AtUnit => At

\* What was read so far.
DataInv ==
  call.what \in {"read", "scan"} =>
    /\ Len(data) = item - 1
    /\ Clean /\ (call.what = "scan" => ~DeafScan) =>
         \A k \in 1 .. item - 1 : data[k] = Expected(call.units[k])

\* What was waited for so far.
Sure(i) == polls[i].good /\ \A j \in 1 .. i : polls[j].ok
PollInv ==
  call.what \in {"program", "erase"} =>
    /\ Len(polls) = item - 1
    /\ ~late => \A i \in 1 .. item - 1 : Sure(i) => Done(call.units[i])

Inv ==
  /\ Types /\ PosInv /\ CallInv /\ QeInv /\ TouchInv /\ ModeInv /\ ChipInv /\ DataInv /\ PollInv

------------------------------------------------------------------------------
(* Arithmetic of rows and blocks *)

\* A block begins at a row of the chip, and its rows are those of that row.
LEMMA FirstRow ==
  ASSUME NEW b \in Block
  PROVE  b * PPB \in Row /\ b * PPB + 1 \in Row /\ (b * PPB) \div PPB = b
<1>1. b \in Int /\ PPB \in Int /\ Blocks \in Int /\ PPB >= 2 /\ 0 =< b /\ b =< Blocks - 1
  BY NandAssumption DEF Block
<1>2. b * PPB \in Int /\ Blocks * PPB \in Int
  BY <1>1
<1>3. b * PPB =< (Blocks - 1) * PPB
  BY <1>1
<1>4. (Blocks - 1) * PPB = Blocks * PPB - PPB
  BY <1>1
<1>5. 0 =< b * PPB
  BY <1>1
<1>6. (b * PPB) \div PPB = b
  BY <1>1
<1> QED
  BY <1>1, <1>2, <1>3, <1>4, <1>5, <1>6 DEF Row

\* Programming only clears bits, and leaves a page.
LEMMA AndIsPage ==
  ASSUME NEW a \in PageData, NEW b \in PageData PROVE And(a, b) \in PageData
  BY DEF And, PageData, Col

LEMMA FFIsPage == AllFF \in PageData
  BY DEF AllFF, PageData, Col

------------------------------------------------------------------------------
(* The operations of a unit *)

\* The units of an erase are blocks, those of everything else rows.
LEMMA UnitTypes ==
  ASSUME Types, NEW k \in 1 .. Units
  PROVE  /\ call.what = "erase" => call.units[k] \in Block
         /\ call.what # "erase" => call.units[k] \in Row
<1> DEFINE S == IF call.what = "erase" THEN Block ELSE Row
<1>1. call.units \in Seq(S)
  BY DEF Types
<1>2. call.units[k] \in S
  <2> HIDE DEF S
  <2> QED
    BY <1>1 DEF Units
<1> QED
  BY <1>2

\* The operations of one page read of a parallel chip, by their place in the batch.
LEMMA ReadShape ==
  ASSUME Types, kind # "spi", call.what \notin {"program", "erase"}
  PROVE  /\ Len(Batch) = Wait + (IF useRb THEN 1 ELSE 2)
         /\ Batch[1].o = "cmd" /\ Batch[1].c = AreaOf(FirstCol)
         /\ Batch[2].o = "addr" /\ Batch[2].row = Unit
         /\ Batch[2].col = IF kind = "small" THEN 0 ELSE FirstCol
         /\ kind # "small" => Batch[3].o = "cmd" /\ Batch[3].c = "30"
         /\ Batch[Wait].o = IF useRb THEN "rb" ELSE "poll"
         /\ ~useRb => Batch[Wait + 1].o = "cmd" /\ Batch[Wait + 1].c = AreaOf(FirstCol)
         /\ Batch[Len(Batch)].o = "read" /\ Batch[Len(Batch)].n = Width
<1> DEFINE A == AreaOf(FirstCol)
<1>1. Batch = ReadOps(FirstCol, Unit, Width)
  BY DEF Batch, UnitOps, FirstCol, Width, Unit
<1>2. kind # "small" => A = "00"
  BY DEF AreaOf
<1>3. CASE kind = "small" /\ useRb
  <2>1. Batch = <<Cmd(A), Addr(0, Unit), Rb, Read(Width)>> /\ Wait = 3
    BY <1>1, <1>3 DEF ReadOps, Wait
  <2> HIDE DEF A
  <2> QED
    BY <1>3, <2>1 DEF A, Cmd, Addr, Rb, Read
<1>4. CASE kind = "small" /\ ~useRb
  <2>1. Batch = <<Cmd(A), Addr(0, Unit), PollStatus, Cmd(A), Read(Width)>> /\ Wait = 3
    BY <1>1, <1>4 DEF ReadOps, Wait
  <2> HIDE DEF A
  <2> QED
    BY <1>4, <2>1 DEF A, Cmd, Addr, PollStatus, Read
<1>5. CASE kind # "small" /\ useRb
  <2>1. Batch = <<Cmd("00"), Addr(FirstCol, Unit), Cmd("30"), Rb, Read(Width)>> /\ Wait = 4
    BY <1>1, <1>5 DEF ReadOps, Wait
  <2> HIDE DEF A
  <2> QED
    BY <1>2, <1>5, <2>1 DEF A, Cmd, Addr, Rb, Read
<1>6. CASE kind # "small" /\ ~useRb
  <2>1. Batch = <<Cmd("00"), Addr(FirstCol, Unit), Cmd("30"), PollStatus, Cmd("00"), Read(Width)>>
        /\ Wait = 4
    BY <1>1, <1>6 DEF ReadOps, Wait
  <2> HIDE DEF A
  <2> QED
    BY <1>2, <1>6, <2>1 DEF A, Cmd, Addr, PollStatus, Read
<1> QED
  BY <1>3, <1>4, <1>5, <1>6

\* Of a page read of an SPI chip.
LEMMA SpiReadShape ==
  ASSUME Types, kind = "spi", call.what \notin {"program", "erase"}
  PROVE  /\ Len(Batch) = 3
         /\ Batch[1].o = "spi" /\ Batch[1].c = "13" /\ Batch[1].row = Unit
         /\ Batch[2].o = "spi poll"
         /\ Batch[3].o = "spi read" /\ Batch[3].col = FirstCol /\ Batch[3].n = Width
<1>1. Batch = <<Spi("13", Unit, AllFF), SpiPoll, SpiRead(FirstCol, Width, call.quad)>>
  BY DEF Batch, UnitOps, FirstCol, Width, Unit, SpiReadOps
<1>2. Len(Batch) = 3 /\ Batch[1].o = "spi" /\ Batch[1].c = "13" /\ Batch[1].row = Unit
  BY <1>1 DEF Spi
<1>3. Batch[2].o = "spi poll"
  BY <1>1 DEF SpiPoll
<1>4. Batch[3].o = "spi read" /\ Batch[3].col = FirstCol /\ Batch[3].n = Width
  BY <1>1 DEF SpiRead
<1> QED
  BY <1>2, <1>3, <1>4

\* Of a page program of a parallel chip.
LEMMA ProgramShape ==
  ASSUME Types, kind # "spi", call.what = "program"
  PROVE  /\ Len(Batch) = Setup + 4
         /\ kind = "small" => Batch[1].o = "cmd" /\ Batch[1].c = "00"
         /\ Batch[Setup].o = "cmd" /\ Batch[Setup].c = "80"
         /\ Batch[Setup + 1].o = "addr" /\ Batch[Setup + 1].col = 0 /\ Batch[Setup + 1].row = Unit
         /\ Batch[Setup + 2].o = "write" /\ Batch[Setup + 2].d = call.d
         /\ Batch[Setup + 3].o = "cmd" /\ Batch[Setup + 3].c = "10"
         /\ Batch[Setup + 4].o = "poll"
<1>1. Batch = ProgramOps(Unit, call.d)
  BY DEF Batch, UnitOps, Unit
<1> USE DEF Cmd, Addr, Write, PollStatus
<1>2. CASE kind = "small"
  <2>1. Setup = 2
    BY <1>2 DEF Setup
  <2> QED
    BY <1>1, <1>2, <2>1 DEF ProgramOps
<1>3. CASE kind # "small"
  <2>1. Setup = 1
    BY <1>3 DEF Setup
  <2> QED
    BY <1>1, <1>3, <2>1 DEF ProgramOps
<1> QED
  BY <1>2, <1>3

\* Of a page program of an SPI chip.
LEMMA SpiProgramShape ==
  ASSUME Types, kind = "spi", call.what = "program"
  PROVE  /\ Len(Batch) = 4
         /\ Batch[1].o = "spi" /\ Batch[1].c = "06"
         /\ Batch[2].o = "spi" /\ Batch[2].c = (IF call.quad THEN "32" ELSE "02") /\ Batch[2].d = call.d
         /\ Batch[3].o = "spi" /\ Batch[3].c = "10" /\ Batch[3].row = Unit
         /\ Batch[4].o = "spi poll"
  BY DEF Batch, UnitOps, Unit, SpiProgramOps, Spi, SpiPoll

\* Of a block erase of a parallel chip.
LEMMA EraseShape ==
  ASSUME Types, kind # "spi", call.what = "erase"
  PROVE  /\ Len(Batch) = 4
         /\ Batch[1].o = "cmd" /\ Batch[1].c = "60"
         /\ Batch[2].o = "addr" /\ Batch[2].col = 0 /\ Batch[2].row = Unit * PPB
         /\ Batch[3].o = "cmd" /\ Batch[3].c = "D0"
         /\ Batch[4].o = "poll"
  BY DEF Batch, UnitOps, Unit, EraseOps, Cmd, Addr, PollStatus

\* Of a block erase of an SPI chip.
LEMMA SpiEraseShape ==
  ASSUME Types, kind = "spi", call.what = "erase"
  PROVE  /\ Len(Batch) = 3
         /\ Batch[1].o = "spi" /\ Batch[1].c = "06"
         /\ Batch[2].o = "spi" /\ Batch[2].c = "D8" /\ Batch[2].row = Unit * PPB
         /\ Batch[3].o = "spi poll"
  BY DEF Batch, UnitOps, Unit, EraseOps, Spi, SpiPoll

------------------------------------------------------------------------------
(* One operation of the batch *)

\* No unit takes less than three operations or more than six.
LEMMA BatchLen == Types => Len(Batch) \in 3 .. 6
<1> SUFFICES ASSUME Types PROVE Len(Batch) \in 3 .. 6
  OBVIOUS
<1> USE DEF Batch, UnitOps
<1>1. CASE call.what = "program"
  BY <1>1 DEF ProgramOps, SpiProgramOps
<1>2. CASE call.what = "erase"
  BY <1>2 DEF EraseOps
<1>3. CASE call.what \notin {"program", "erase"}
  BY <1>3 DEF ReadOps, SpiReadOps
<1> QED
  BY <1>1, <1>2, <1>3

LEMMA NextBatchLen == Types' => (Len(Batch) \in 3 .. 6)'
  BY BatchLen, PTL

\* What every bus operation does to the place in the batch.
LEMMA ExecFacts ==
  ASSUME Types, PosInv, NEW o, Exec(o)
  PROVE  /\ AtUnit /\ Units \in Nat /\ item \in 1 .. Units /\ pos \in 1 .. Len(Batch) /\ Len(Batch) \in 3 .. 6
         /\ Now = Batch[pos] /\ Now.o = o
         /\ pos # Len(Batch) => item' = item /\ pos' = pos + 1
         /\ pos = Len(Batch) => item' = item + 1 /\ pos' = 1
         /\ result = "busy" /\ UNCHANGED <<kind, useRb, needsQe, call, result, ops, cells0, qe0, late>>
         /\ item' \in Nat /\ pos' \in Nat
         /\ UNCHANGED <<Units, Setup, Wait, FirstCol, Width>>
<1>1. Len(Batch) \in 3 .. 6
  BY BatchLen
<1>2. AtUnit /\ item \in 1 .. Units /\ Units \in Nat
  BY DEF Exec, AtUnit, Units, PosInv, Types
<1>3. pos \in 1 .. Len(Batch)
  BY <1>2 DEF PosInv, AtUnit, Types
<1>4. UNCHANGED <<kind, useRb, needsQe, call, result, ops, cells0, qe0, late>> /\ result = "busy"
  BY DEF Exec, driverVars
<1>5. Now.o = o /\ Now = Batch[pos]
  BY DEF Exec, Now
<1>6. /\ pos # Len(Batch) => item' = item /\ pos' = pos + 1
      /\ pos = Len(Batch) => item' = item + 1 /\ pos' = 1
  BY <1>1, <1>3 DEF Exec
<1>7. item' \in Nat /\ pos' \in Nat
  BY <1>1, <1>2, <1>3, <1>6
<1>8. UNCHANGED <<Units, Setup, Wait, FirstCol, Width>>
  BY <1>4 DEF Units, Setup, Wait, FirstCol, Width
<1> QED
  BY <1>1, <1>2, <1>3, <1>4, <1>5, <1>6, <1>7, <1>8

\* As long as the unit is the same, so are its operations.
LEMMA SameUnit ==
  ASSUME UNCHANGED <<kind, useRb, call, item>>
  PROVE  UNCHANGED <<Batch, Unit>>
<1>1. Unit' = Unit
  BY DEF Unit
<1>2. Batch' = Batch
  BY DEF Batch, UnitOps, ReadOps, SpiReadOps, ProgramOps, SpiProgramOps, EraseOps, AreaOf
<1> QED
  BY <1>1, <1>2

\* A bus operation leaves the batch at a place it has.
LEMMA ExecPos ==
  ASSUME Types, PosInv, Types', NEW o, Exec(o)
  PROVE  PosInv'
<1>1. CASE pos # Len(Batch)
  <2>1. item' = item /\ pos' = pos + 1 /\ Batch' = Batch
    BY <1>1, ExecFacts, SameUnit
  <2> QED
    BY <1>1, <2>1, ExecFacts DEF PosInv, AtUnit
<1>2. CASE pos = Len(Batch)
  <2>1. item' = item + 1 /\ pos' = 1
    BY <1>2, ExecFacts
  <2>2. Len(Batch') \in 3 .. 6
    BY NextBatchLen
  <2>3. pos' \in 1 .. Len(Batch')
    BY <2>1, <2>2
  <2>4. item' \in 1 .. Units' + 1
    BY <2>1, ExecFacts
  <2> QED
    BY <2>1, <2>3, <2>4, ExecFacts DEF PosInv, AtUnit
<1> QED
  BY <1>1, <1>2

\* It does not change the call,
LEMMA ExecCall ==
  ASSUME Types, PosInv, CallInv, NEW o, Exec(o)
  PROVE  CallInv'
  BY ExecFacts DEF CallInv

\* nor QE, unless it is set_feature,
LEMMA ExecQe ==
  ASSUME Types, PosInv, QeInv, NEW o, Exec(o), UNCHANGED qe
  PROVE  QeInv'
<1>1. pos # 0 /\ pos' # 0 /\ ~(item > Units /\ pos = 2) /\ ~(item' > Units' /\ pos' = 2)
  <2>1. CASE pos # Len(Batch)
    BY <2>1, ExecFacts
  <2>2. CASE pos = Len(Batch)
    BY <2>2, ExecFacts
  <2> QED
    BY <2>1, <2>2
<1> QED
  BY <1>1, ExecFacts DEF QeInv

\* What was confirmed before the step is after it.
LEMMA ExecConfirmed ==
  ASSUME Types, PosInv, NEW o, Exec(o)
  PROVE  /\ \A k \in 1 .. Units : Confirmed(k) => Confirmed(k)'
         /\ \A k \in 1 .. Units : Confirmed(k) <=> (k < item \/ (k = item /\ pos = Len(Batch)))
<1> SUFFICES ASSUME NEW k \in 1 .. Units
             PROVE  /\ Confirmed(k) => Confirmed(k)'
                    /\ Confirmed(k) <=> (k < item \/ (k = item /\ pos = Len(Batch)))
  OBVIOUS
<1>0. Confirmed(k) <=> (k < item \/ (k = item /\ pos = Len(Batch)))
  BY ExecFacts DEF Confirmed
<1>1. CASE pos # Len(Batch)
  BY <1>0, <1>1, ExecFacts DEF Confirmed
<1>2. CASE pos = Len(Batch)
  BY <1>0, <1>2, ExecFacts DEF Confirmed
<1> QED
  BY <1>0, <1>1, <1>2

\* and a step that writes no cell disturbs nothing that was confirmed.
LEMMA ExecTouch ==
  ASSUME Types, PosInv, TouchInv, NEW o, Exec(o), UNCHANGED cells
  PROVE  TouchInv'
<1> SUFFICES ASSUME NEW r \in Row, cells[r] # cells0[r]
             PROVE  (\E k \in 1 .. Units : Confirmed(k) /\ r \in UnitRows(call.units[k]))'
  BY ExecFacts DEF TouchInv
<1>1. PICK k \in 1 .. Units : Confirmed(k) /\ r \in UnitRows(call.units[k])
  BY DEF TouchInv
<1>2. Confirmed(k)'
  BY <1>1, ExecConfirmed
<1>3. (r \in UnitRows(call.units[k]))'
  BY <1>1, ExecFacts DEF UnitRows
<1> QED
  BY <1>2, <1>3, ExecFacts

------------------------------------------------------------------------------
(* Which operation is next, in each kind of unit *)

\* The shapes again, as what the next operation may be.
LEMMA ReadTable ==
  ASSUME Types, kind # "spi", call.what \notin {"program", "erase"}, pos \in 1 .. Len(Batch)
  PROVE  \/ pos = 1 /\ pos # Len(Batch) /\ Now.o = "cmd" /\ Now.c = AreaOf(FirstCol)
         \/ /\ pos = 2 /\ pos # Len(Batch) /\ Now.o = "addr"
            /\ Now.col = (IF kind = "small" THEN 0 ELSE FirstCol) /\ Now.row = Unit
         \/ pos = 3 /\ pos # Len(Batch) /\ pos # Wait /\ kind # "small" /\ Now.o = "cmd" /\ Now.c = "30"
         \/ pos = Wait /\ pos # Len(Batch) /\ Now.o = IF useRb THEN "rb" ELSE "poll"
         \/ pos = Wait + 1 /\ pos # Len(Batch) /\ ~useRb /\ Now.o = "cmd" /\ Now.c = AreaOf(FirstCol)
         \/ /\ pos = Len(Batch) /\ pos = Wait + (IF useRb THEN 1 ELSE 2)
            /\ Now.o = "read" /\ Now.n = Width
<1> DEFINE A == AreaOf(FirstCol)
           C == IF kind = "small" THEN 0 ELSE FirstCol
<1>0. Now = Batch[pos]
  BY DEF Now
<1>1. Len(Batch) = Wait + (IF useRb THEN 1 ELSE 2)
  BY ReadShape
<1>2. Batch[1].o = "cmd" /\ Batch[1].c = A
  BY ReadShape
<1>3. Batch[2].o = "addr" /\ Batch[2].col = C /\ Batch[2].row = Unit
  BY ReadShape
<1>4. kind # "small" => Batch[3].o = "cmd" /\ Batch[3].c = "30"
  BY ReadShape
<1>5. Batch[Wait].o = IF useRb THEN "rb" ELSE "poll"
  BY ReadShape
<1>6. ~useRb => Batch[Wait + 1].o = "cmd" /\ Batch[Wait + 1].c = A
  BY ReadShape
<1>7. Batch[Len(Batch)].o = "read" /\ Batch[Len(Batch)].n = Width
  BY ReadShape
<1> HIDE DEF A, C
<1> QED
  <2>1. CASE kind = "small" /\ useRb
    <3>1. Wait = 3 /\ Len(Batch) = 4
      BY <1>1, <2>1 DEF Wait
    <3> QED
      BY <1>0, <1>2, <1>3, <1>5, <1>7, <2>1, <3>1 DEF A, C
  <2>2. CASE kind = "small" /\ ~useRb
    <3>1. Wait = 3 /\ Len(Batch) = 5
      BY <1>1, <2>2 DEF Wait
    <3> QED
      BY <1>0, <1>2, <1>3, <1>5, <1>6, <1>7, <2>2, <3>1 DEF A, C
  <2>3. CASE kind # "small" /\ useRb
    <3>1. Wait = 4 /\ Len(Batch) = 5
      BY <1>1, <2>3 DEF Wait
    <3> QED
      BY <1>0, <1>2, <1>3, <1>4, <1>5, <1>7, <2>3, <3>1 DEF A, C
  <2>4. CASE kind # "small" /\ ~useRb
    <3>1. Wait = 4 /\ Len(Batch) = 6
      BY <1>1, <2>4 DEF Wait
    <3> QED
      BY <1>0, <1>2, <1>3, <1>4, <1>5, <1>6, <1>7, <2>4, <3>1 DEF A, C
  <2> QED
    BY <2>1, <2>2, <2>3, <2>4

LEMMA SpiReadTable ==
  ASSUME Types, kind = "spi", call.what \notin {"program", "erase"}, pos \in 1 .. Len(Batch)
  PROVE  \/ /\ pos = 1 /\ pos # Len(Batch)
            /\ Now.o = "spi" /\ Now.c = "13" /\ Now.row = Unit
         \/ /\ pos = 2 /\ pos # Len(Batch)
            /\ Now.o = "spi poll"
         \/ /\ pos = 3 /\ pos = Len(Batch)
            /\ Now.o = "spi read" /\ Now.col = FirstCol /\ Now.n = Width
<1>0. Now = Batch[pos]
  BY DEF Now
<1>1. Len(Batch) = 3
  BY SpiReadShape
<1>2. Batch[1].o = "spi" /\ Batch[1].c = "13" /\ Batch[1].row = Unit
  BY SpiReadShape
<1>3. Batch[2].o = "spi poll"
  BY SpiReadShape
<1>4. Batch[3].o = "spi read" /\ Batch[3].col = FirstCol /\ Batch[3].n = Width
  BY SpiReadShape
<1>5. CASE pos = 1
  BY <1>0, <1>1, <1>2, <1>5
<1>6. CASE pos = 2
  <2>1. pos # Len(Batch)
    BY <1>1, <1>6
  <2>2. Now.o = "spi poll"
    BY <1>0, <1>3, <1>6
  <2> QED
    BY <1>6, <2>1, <2>2
<1>7. CASE pos = 3
  BY <1>0, <1>1, <1>4, <1>7
<1>8. pos = 1 \/ pos = 2 \/ pos = 3
  BY <1>1
<1> QED
  BY <1>5, <1>6, <1>7, <1>8

LEMMA SpiReadQuad ==
  ASSUME Types, kind = "spi", call.what \notin {"program", "erase"}, pos = 3
  PROVE  Now.quad <=> call.quad
<1>1. Batch = <<Spi("13", Unit, AllFF), SpiPoll, SpiRead(FirstCol, Width, call.quad)>>
  BY DEF Batch, UnitOps, FirstCol, Width, Unit, SpiReadOps
<1> QED
  BY <1>1 DEF Now, SpiRead

LEMMA ProgramTable ==
  ASSUME Types, kind # "spi", call.what = "program", pos \in 1 .. Len(Batch)
  PROVE  \/ /\ pos = 1 /\ pos # Len(Batch) /\ kind = "small" /\ pos # Setup
            /\ Now.o = "cmd" /\ Now.c = "00"
         \/ /\ pos = Setup /\ pos # Len(Batch)
            /\ Now.o = "cmd" /\ Now.c = "80"
         \/ /\ pos = Setup + 1 /\ pos # Len(Batch)
            /\ Now.o = "addr" /\ Now.col = 0 /\ Now.row = Unit
         \/ /\ pos = Setup + 2 /\ pos # Len(Batch)
            /\ Now.o = "write" /\ Now.d = call.d
         \/ /\ pos = Setup + 3 /\ pos # Len(Batch) /\ pos + 1 = Len(Batch)
            /\ Now.o = "cmd" /\ Now.c = "10"
         \/ /\ pos = Setup + 4 /\ pos = Len(Batch)
            /\ Now.o = "poll"
<1>0. Now = Batch[pos]
  BY DEF Now
<1>1. Len(Batch) = Setup + 4
  BY ProgramShape
<1>2. kind = "small" => Batch[1].o = "cmd" /\ Batch[1].c = "00"
  BY ProgramShape
<1>3. Batch[Setup].o = "cmd" /\ Batch[Setup].c = "80"
  BY ProgramShape
<1>4. Batch[Setup + 1].o = "addr" /\ Batch[Setup + 1].col = 0 /\ Batch[Setup + 1].row = Unit
  BY ProgramShape
<1>5. Batch[Setup + 2].o = "write" /\ Batch[Setup + 2].d = call.d
  BY ProgramShape
<1>6. Batch[Setup + 3].o = "cmd" /\ Batch[Setup + 3].c = "10"
  BY ProgramShape
<1>7. Batch[Setup + 4].o = "poll"
  BY ProgramShape
<1>8. CASE kind = "small"
  <2>1. Setup = 2
    BY <1>8 DEF Setup
  <2> QED
    BY <1>0, <1>1, <1>2, <1>3, <1>4, <1>5, <1>6, <1>7, <1>8, <2>1
<1>9. CASE kind # "small"
  <2>1. Setup = 1
    BY <1>9 DEF Setup
  <2> QED
    BY <1>0, <1>1, <1>2, <1>3, <1>4, <1>5, <1>6, <1>7, <1>9, <2>1
<1> QED
  BY <1>8, <1>9

LEMMA SpiProgramTable ==
  ASSUME Types, kind = "spi", call.what = "program", pos \in 1 .. Len(Batch)
  PROVE  \/ /\ pos = 1 /\ pos # Len(Batch)
            /\ Now.o = "spi" /\ Now.c = "06"
         \/ /\ pos = 2 /\ pos # Len(Batch)
            /\ Now.o = "spi" /\ Now.c = (IF call.quad THEN "32" ELSE "02") /\ Now.d = call.d
         \/ /\ pos = 3 /\ pos # Len(Batch) /\ pos + 1 = Len(Batch)
            /\ Now.o = "spi" /\ Now.c = "10" /\ Now.row = Unit
         \/ /\ pos = 4 /\ pos = Len(Batch)
            /\ Now.o = "spi poll"
<1>0. Now = Batch[pos]
  BY DEF Now
<1>1. Len(Batch) = 4
  BY SpiProgramShape
<1>2. Batch[1].o = "spi" /\ Batch[1].c = "06"
  BY SpiProgramShape
<1>3. Batch[2].o = "spi" /\ Batch[2].c = (IF call.quad THEN "32" ELSE "02") /\ Batch[2].d = call.d
  BY SpiProgramShape
<1>4. Batch[3].o = "spi" /\ Batch[3].c = "10" /\ Batch[3].row = Unit
  BY SpiProgramShape
<1>5. Batch[4].o = "spi poll"
  BY SpiProgramShape
<1>6. CASE pos = 1
  BY <1>0, <1>1, <1>2, <1>6
<1>7. CASE pos = 2
  BY <1>0, <1>1, <1>3, <1>7
<1>8. CASE pos = 3
  BY <1>0, <1>1, <1>4, <1>8
<1>9. CASE pos = 4
  BY <1>0, <1>1, <1>5, <1>9
<1>10. pos = 1 \/ pos = 2 \/ pos = 3 \/ pos = 4
  BY <1>1
<1> QED
  BY <1>6, <1>7, <1>8, <1>9, <1>10

LEMMA EraseTable ==
  ASSUME Types, kind # "spi", call.what = "erase", pos \in 1 .. Len(Batch)
  PROVE  \/ /\ pos = 1 /\ pos # Len(Batch)
            /\ Now.o = "cmd" /\ Now.c = "60"
         \/ /\ pos = 2 /\ pos # Len(Batch)
            /\ Now.o = "addr" /\ Now.col = 0 /\ Now.row = Unit * PPB
         \/ /\ pos = 3 /\ pos # Len(Batch) /\ pos + 1 = Len(Batch)
            /\ Now.o = "cmd" /\ Now.c = "D0"
         \/ /\ pos = 4 /\ pos = Len(Batch)
            /\ Now.o = "poll"
<1>0. Now = Batch[pos]
  BY DEF Now
<1>1. Len(Batch) = 4
  BY EraseShape
<1>2. Batch[1].o = "cmd" /\ Batch[1].c = "60"
  BY EraseShape
<1>3. Batch[2].o = "addr" /\ Batch[2].col = 0 /\ Batch[2].row = Unit * PPB
  BY EraseShape
<1>4. Batch[3].o = "cmd" /\ Batch[3].c = "D0"
  BY EraseShape
<1>5. Batch[4].o = "poll"
  BY EraseShape
<1> QED
  BY <1>0, <1>1, <1>2, <1>3, <1>4, <1>5

LEMMA SpiEraseTable ==
  ASSUME Types, kind = "spi", call.what = "erase", pos \in 1 .. Len(Batch)
  PROVE  \/ /\ pos = 1 /\ pos # Len(Batch)
            /\ Now.o = "spi" /\ Now.c = "06"
         \/ /\ pos = 2 /\ pos # Len(Batch) /\ pos + 1 = Len(Batch)
            /\ Now.o = "spi" /\ Now.c = "D8" /\ Now.row = Unit * PPB
         \/ /\ pos = 3 /\ pos = Len(Batch)
            /\ Now.o = "spi poll"
<1>0. Now = Batch[pos]
  BY DEF Now
<1>1. Len(Batch) = 3
  BY SpiEraseShape
<1>2. Batch[1].o = "spi" /\ Batch[1].c = "06"
  BY SpiEraseShape
<1>3. Batch[2].o = "spi" /\ Batch[2].c = "D8" /\ Batch[2].row = Unit * PPB
  BY SpiEraseShape
<1>4. Batch[3].o = "spi poll"
  BY SpiEraseShape
<1>5. CASE pos = 1
  BY <1>0, <1>1, <1>2, <1>5
<1>6. CASE pos = 2
  BY <1>0, <1>1, <1>3, <1>6
<1>7. CASE pos = 3
  BY <1>0, <1>1, <1>4, <1>7
<1>8. pos = 1 \/ pos = 2 \/ pos = 3
  BY <1>1
<1> QED
  BY <1>5, <1>6, <1>7, <1>8

\* A unit that reads ends with the reading, one that writes with the wait.
LEMMA LastIs ==
  ASSUME Types, pos \in 1 .. Len(Batch)
  PROVE  /\ call.what \in {"program", "erase"} =>
              (pos = Len(Batch) <=> Now.o \in {"poll", "spi poll"})
         /\ call.what \notin {"program", "erase"} =>
              (pos = Len(Batch) <=> Now.o \in {"read", "spi read"})
<1>1. CASE call.what = "program" /\ kind = "spi"
  BY <1>1, SpiProgramTable
<1>2. CASE call.what = "program" /\ kind # "spi"
  BY <1>2, ProgramTable
<1>3. CASE call.what = "erase" /\ kind = "spi"
  BY <1>3, SpiEraseTable
<1>4. CASE call.what = "erase" /\ kind # "spi"
  BY <1>4, EraseTable
<1>5. CASE call.what \notin {"program", "erase"} /\ kind = "spi"
  BY <1>5, SpiReadTable
<1>6. CASE call.what \notin {"program", "erase"} /\ kind # "spi"
  BY <1>6, ReadTable
<1> QED
  BY <1>1, <1>2, <1>3, <1>4, <1>5, <1>6

\* Which kind of unit each operation belongs to.
LEMMA OpKinds ==
  ASSUME Types, pos \in 1 .. Len(Batch)
  PROVE  /\ Now.o \in {"cmd", "addr", "write", "rb", "poll", "read"} => kind # "spi"
         /\ Now.o \in {"spi", "spi poll", "spi read"} => kind = "spi"
         /\ Now.o = "write" => call.what = "program"
         /\ Now.o \in {"rb", "read", "spi read"} => call.what \notin {"program", "erase"}
<1>1. CASE call.what = "program" /\ kind = "spi"
  BY <1>1, SpiProgramTable
<1>2. CASE call.what = "program" /\ kind # "spi"
  BY <1>2, ProgramTable
<1>3. CASE call.what = "erase" /\ kind = "spi"
  BY <1>3, SpiEraseTable
<1>4. CASE call.what = "erase" /\ kind # "spi"
  BY <1>4, EraseTable
<1>5. CASE call.what \notin {"program", "erase"} /\ kind = "spi"
  BY <1>5, SpiReadTable
<1>6. CASE call.what \notin {"program", "erase"} /\ kind # "spi"
  BY <1>6, ReadTable
<1> QED
  BY <1>1, <1>2, <1>3, <1>4, <1>5, <1>6

------------------------------------------------------------------------------
(* What an operation keeps of the invariant *)

\* A wait that ran out is never forgotten.
LEMMA CleanBefore ==
  ASSUME Types, UNCHANGED late, polls' = polls \/ \E x : polls' = Append(polls, x)
  PROVE  Clean' => Clean
<1> SUFFICES ASSUME Clean' PROVE Clean
  OBVIOUS
<1>0. polls \in Seq(Polls)
  BY DEF Types
<1>1. CASE polls' = polls
  BY <1>1 DEF Clean, AllWaited
<1>2. ASSUME NEW x, polls' = Append(polls, x) PROVE Clean
  <2>1. \A i \in DOMAIN polls : i \in DOMAIN polls' /\ polls'[i] = polls[i]
    BY <1>0, <1>2
  <2> QED
    BY <2>1 DEF Clean, AllWaited
<1> QED
  BY <1>1, <1>2

\* Only reads add to the data.
LEMMA ExecData ==
  ASSUME Types, PosInv, DataInv, NEW o, Exec(o), o \notin {"read", "spi read"},
         UNCHANGED data, Clean' => Clean
  PROVE  DataInv'
<1> SUFFICES ASSUME call.what \in {"read", "scan"} PROVE DataInv'
  BY ExecFacts DEF DataInv
<1>1. item' = item
  BY ExecFacts, LastIs
<1>2. \A k \in 1 .. item - 1 : (Expected(call.units[k]))' = Expected(call.units[k])
  BY ExecFacts DEF Expected, Width, FirstCol
<1>3. DeafScan' <=> DeafScan
  BY ExecFacts DEF DeafScan
<1> QED
  BY <1>1, <1>2, <1>3, ExecFacts DEF DataInv

\* Two units that are written have no row in common.
LEMMA UnitsApart ==
  ASSUME Types, CallInv, call.what \in {"program", "erase"},
         NEW i \in 1 .. Units, NEW j \in 1 .. Units, i # j,
         NEW r \in UnitRows(call.units[i])
  PROVE  r \notin UnitRows(call.units[j])
<1>1. call.units[i] # call.units[j]
  BY DEF CallInv
<1> QED
  BY <1>1 DEF UnitRows, RowsOf

\* What is done stays done while only rows of another unit are written.
LEMMA StaysDone ==
  ASSUME Types, CallInv, call.what \in {"program", "erase"}, NEW k \in 1 .. Units,
         UNCHANGED <<call, cells0>>,
         \A r \in UnitRows(call.units[k]) : cells'[r] = cells[r],
         Done(call.units[k])
  PROVE  (Done(call.units[k]))'
<1>1. CASE call.what = "program"
  BY <1>1 DEF Done, UnitRows, And
<1>2. CASE call.what = "erase"
  BY <1>2 DEF Done, UnitRows, RowsOf
<1> QED
  BY <1>1, <1>2

LEMMA Below ==
  ASSUME NEW n \in Nat, NEW m \in 1 .. n, NEW i \in 1 .. m - 1
  PROVE  i \in 1 .. n /\ i # m /\ i < m
  OBVIOUS

\* What was polled stays true while only rows of the present unit are written.
LEMMA ExecPolls ==
  ASSUME Types, PosInv, CallInv, PollInv, NEW o, Exec(o), o \notin {"poll", "spi poll"},
         o # "rb" => UNCHANGED polls,
         \A r \in Row : r \notin UnitRows(Unit) => cells'[r] = cells[r]
  PROVE  PollInv'
<1> SUFFICES ASSUME call.what \in {"program", "erase"} PROVE PollInv'
  BY ExecFacts DEF PollInv
<1>0. UNCHANGED <<polls, item, call, cells0, late>>
  BY ExecFacts, LastIs, OpKinds
<1>9. item \in 1 .. Units /\ Units \in Nat
  BY ExecFacts
<1>1. ASSUME ~late, NEW i \in 1 .. item - 1, Sure(i)
      PROVE  (Done(call.units[i]))'
  <2>0. i \in 1 .. Units /\ i # item
    BY <1>9, Below
  <2>1. i \in 1 .. Units /\ i # item /\ Done(call.units[i])
    BY <1>1, <2>0 DEF PollInv
  <2>2. UnitRows(call.units[i]) \subseteq Row
    <3>1. CASE call.what = "program"
      <4>1. call.units[i] \in Row
        BY <2>1, <3>1, UnitTypes
      <4> QED
        BY <3>1, <4>1 DEF UnitRows
    <3>2. CASE call.what = "erase"
      BY <3>2 DEF UnitRows, RowsOf
    <3> QED
      BY <3>1, <3>2
  <2>3. ASSUME NEW r \in UnitRows(call.units[i]) PROVE r \notin UnitRows(Unit)
    BY <1>9, <2>0, <2>3, UnitsApart DEF Unit
  <2>4. \A r \in UnitRows(call.units[i]) : cells'[r] = cells[r]
    BY <2>2, <2>3
  <2> QED
    BY <1>0, <2>1, <2>4, StaysDone
<1>2. \A i \in 1 .. item - 1 : Sure(i)' <=> Sure(i)
  BY <1>0 DEF Sure
<1> QED
  BY <1>0, <1>1, <1>2 DEF PollInv

\* The confirmation is the operation before the last, and writes the unit's rows.
LEMMA ConfirmTouch ==
  ASSUME Types, PosInv, TouchInv, NEW o, Exec(o), pos + 1 = Len(Batch),
         \A r \in Row : r \notin UnitRows(Unit) => cells'[r] = cells[r]
  PROVE  TouchInv'
<1> SUFFICES ASSUME NEW r \in Row, cells'[r] # cells0[r]
             PROVE  (\E k \in 1 .. Units : Confirmed(k) /\ r \in UnitRows(call.units[k]))'
  BY ExecFacts DEF TouchInv
<1>0. item' = item /\ pos' = pos + 1 /\ UNCHANGED <<call, Units>> /\ item \in 1 .. Units
      /\ Batch' = Batch
  BY ExecFacts, SameUnit
<1>1. ASSUME NEW k \in 1 .. Units PROVE (r \in UnitRows(call.units[k]))' <=> r \in UnitRows(call.units[k])
  BY <1>0 DEF UnitRows
<1>2. CASE r \in UnitRows(Unit)
  <2>1. Confirmed(item)'
    BY <1>0, ExecFacts DEF Confirmed
  <2> QED
    BY <1>0, <1>1, <1>2, <2>1 DEF Unit
<1>3. CASE r \notin UnitRows(Unit)
  <2>1. PICK k \in 1 .. Units : Confirmed(k) /\ r \in UnitRows(call.units[k])
    BY <1>3 DEF TouchInv
  <2> QED
    BY <1>0, <1>1, <2>1, ExecConfirmed
<1> QED
  BY <1>2, <1>3

\* The first operation of a unit asks for no more than a chip that is ready.
LEMMA AtFirst ==
  ASSUME pos' = 1, ~busy'
  PROVE  At'
<1>1. Setup' \in {1, 2} /\ (kind' # "small" => Setup' = 1) /\ (kind' = "small" => Setup' = 2)
  BY DEF Setup
<1>2. ReadAt'
  <2>0. Wait' = 3 \/ Wait' = 4
    BY DEF Wait
  <2>1. ~(pos' >= Wait') /\ pos' # Wait' /\ pos' # Wait' + 1 /\ pos' # Wait' + 2
    BY <2>0
  <2>2. pos' # 2 /\ pos' # 3
    OBVIOUS
  <2> QED
    BY <2>1, <2>2 DEF ReadAt
<1>3. SpiReadAt' /\ SpiProgramAt' /\ EraseAt' /\ SpiEraseAt'
  BY DEF SpiReadAt, SpiProgramAt, EraseAt, SpiEraseAt
<1>4. ProgramAt'
  <2>1. CASE kind' = "small"
    BY <1>1, <2>1 DEF ProgramAt
  <2>2. CASE kind' # "small"
    BY <1>1, <2>2 DEF ProgramAt
  <2> QED
    BY <2>1, <2>2
<1> QED
  BY <1>2, <1>3, <1>4 DEF At

\* After the last operation of a unit the next one needs the chip to be ready.
LEMMA ChipEntry ==
  ASSUME Types, PosInv, NEW o, Exec(o), pos = Len(Batch), Clean' => ~busy'
  PROVE  ChipInv'
<1>1. item' = item + 1 /\ pos' = 1
  BY ExecFacts
<1>2. ASSUME Clean' PROVE At'
  BY <1>1, <1>2, AtFirst
<1> QED
  BY <1>2 DEF ChipInv

\* Within a unit, the chip does what the next operation needs.
LEMMA ChipStay ==
  ASSUME Types, PosInv, NEW o, Exec(o), pos # Len(Batch), Clean' => At'
  PROVE  ChipInv'
<1>1. pos' \in Nat /\ pos' > 1
  BY ExecFacts
<1> QED
  BY <1>1 DEF ChipInv

LEMMA NoModeNext ==
  mode' \notin {"prog_addr", "prog_data", "erase_addr", "erased_addr"} => ModeInv'
  BY DEF ModeInv

------------------------------------------------------------------------------
(* Types and waits *)

Modes == {"idle", "read_addr", "resume", "prog_addr", "prog_data", "erase_addr",
          "erased_addr", "data", "status", "status data"}

\* A bus operation keeps the types.
LEMMA ExecTypes ==
  ASSUME Types, PosInv, NEW o, Exec(o),
         (cells \in [Row -> PageData])', (busy \in BOOLEAN)', (fail \in BOOLEAN)',
         (wp \in BOOLEAN)', (reg \in PageData)', (mode \in Modes)', (area \in {"00", "01", "50"})',
         (addr \in Col \X Row)', (wel \in BOOLEAN)', (qe \in BOOLEAN)',
         (data \in Seq(Pieces))', (polls \in Seq(Polls))', kind = "spi" => mode' = "idle"
  PROVE  Types'
<1>1. TypeOK'
  BY ExecFacts DEF Types, TypeOK, Modes
<1>2. (call.units \in Seq(IF call.what = "erase" THEN Block ELSE Row))'
  BY ExecFacts DEF Types
<1> QED
  BY <1>1, <1>2, ExecFacts DEF Types

\* What a wait leaves behind: a result more, and a chip that is ready if it is good.
LEMMA WaitedFacts ==
  ASSUME Types, NEW st \in BOOLEAN, Waited(st), UNCHANGED late
  PROVE  /\ (polls \in Seq(Polls))' /\ (busy \in BOOLEAN)'
         /\ Clean' => Clean /\ ~busy'
         /\ Len(polls') = Len(polls) + 1 /\ Len(polls) \in Nat
         /\ \A i \in 1 .. Len(polls) : polls'[i] = polls[i]
         /\ polls'[Len(polls) + 1].good => st
<1>9. polls \in Seq(Polls) /\ busy \in BOOLEAN
  BY DEF Types, TypeOK
<1>0. polls \in Seq(Polls) /\ Len(polls) \in Nat /\ busy \in BOOLEAN
  BY <1>9
<1>1. PICK p \in Polls : polls' = Append(polls, p) /\ (p.good => st) /\ (busy' \in BOOLEAN) /\ (p.ok => ~busy')
  <2>1. CASE busy' = FALSE /\ polls' = Append(polls, [ok |-> TRUE, good |-> st])
    <3>1. [ok |-> TRUE, good |-> st] \in Polls
      BY DEF Polls
    <3> QED
      BY <2>1, <3>1
  <2>2. CASE busy /\ polls' = Append(polls, [ok |-> FALSE, good |-> FALSE]) /\ busy' = busy
    <3>1. [ok |-> FALSE, good |-> FALSE] \in Polls
      BY DEF Polls
    <3> QED
      BY <1>0, <2>2, <3>1
  <2> QED
    BY <2>1, <2>2 DEF Waited
<1>2. /\ (polls \in Seq(Polls))' /\ Len(polls') = Len(polls) + 1
      /\ \A i \in 1 .. Len(polls) : polls'[i] = polls[i]
      /\ polls'[Len(polls) + 1] = p
  BY <1>0, <1>1
<1>3. Clean' => Clean
  BY <1>1, CleanBefore
<1>4. Clean' => p.ok
  BY <1>0, <1>2 DEF Clean, AllWaited
<1> QED
  BY <1>0, <1>1, <1>2, <1>3, <1>4

\* The wait at the end of a unit: what is reported as good is done.
LEMMA LastWait ==
  ASSUME Types, PosInv, CallInv, ChipInv, PollInv, NEW o, Exec(o),
         call.what \in {"program", "erase"}, pos = Len(Batch), Waited(Good), UNCHANGED cells
  PROVE  PollInv'
<1>0. item' = item + 1 /\ UNCHANGED <<call, cells0, late>>
  BY ExecFacts
<1>1. Good \in BOOLEAN
  BY DEF Good, GoodStatus, Types, TypeOK
<1>2. /\ Len(polls) = item - 1 /\ Len(polls') = item /\ item \in 1 .. Units /\ Units \in Nat
      /\ \A i \in 1 .. item - 1 : polls'[i] = polls[i]
      /\ polls'[item].good => Good
  <2>1. Len(polls) = item - 1 /\ item \in 1 .. Units /\ Units \in Nat
    BY ExecFacts DEF PollInv
  <2> QED
    BY <1>0, <1>1, <2>1, WaitedFacts
<1>3. ASSUME ~late, NEW i \in 1 .. item, Sure(i)' PROVE (Done(call.units[i]))'
  <2>1. \A j \in 1 .. i : polls'[j].ok
    BY <1>3 DEF Sure
  <2>2. i \in 1 .. Units
    BY <1>2
  <2>3. Done(call.units[i])
    <3>1. CASE i < item
      <4>1. i \in 1 .. item - 1 /\ \A j \in 1 .. i : j \in 1 .. item - 1
        BY <1>2, <3>1
      <4>2. Sure(i)
        BY <1>2, <1>3, <2>1, <4>1 DEF Sure
      <4> QED
        BY <1>3, <4>1, <4>2 DEF PollInv
    <3>2. CASE i = item
      <4>1. \A j \in 1 .. item - 1 : polls[j].ok
        BY <1>2, <2>1, <3>2
      <4>2. DOMAIN polls = 1 .. item - 1
        BY <1>2 DEF Types
      <4>3. Clean
        BY <1>3, <4>1, <4>2 DEF Clean, AllWaited
      <4>4. At /\ Good
        BY <1>2, <1>3, <3>2, <4>3, ExecFacts DEF ChipInv, Sure
      <4>5. Done(Unit)
        <5>1. CASE call.what = "program" /\ kind = "spi"
          <6>1. pos = 4
            BY <5>1, SpiProgramShape
          <6> QED
            BY <4>4, <5>1, <6>1 DEF At, SpiProgramAt
        <5>2. CASE call.what = "program" /\ kind # "spi"
          <6>1. pos = Setup + 4
            BY <5>2, ProgramShape
          <6> QED
            BY <4>4, <5>2, <6>1 DEF At, ProgramAt
        <5>3. CASE call.what = "erase" /\ kind = "spi"
          <6>1. pos = 3
            BY <5>3, SpiEraseShape
          <6> QED
            BY <4>4, <5>3, <6>1 DEF At, SpiEraseAt
        <5>4. CASE call.what = "erase" /\ kind # "spi"
          <6>1. pos = 4
            BY <5>4, EraseShape
          <6> QED
            BY <4>4, <5>4, <6>1 DEF At, EraseAt
        <5> QED
          BY <5>1, <5>2, <5>3, <5>4
      <4> QED
        BY <3>2, <4>5 DEF Unit
    <3> QED
      BY <1>2, <3>1, <3>2
  <2>4. \A r \in UnitRows(call.units[i]) : cells'[r] = cells[r]
    OBVIOUS
  <2> QED
    BY <1>0, <2>2, <2>3, <2>4, StaysDone
<1>4. Len(polls') = item' - 1 /\ 1 .. item' - 1 = 1 .. item
  BY <1>0, <1>2
<1> QED
  BY <1>0, <1>3, <1>4 DEF PollInv

------------------------------------------------------------------------------
(* The waits *)

\* What every operation of the batch keeps without a word about the chip.
LEMMA ExecRest ==
  ASSUME Inv, NEW o, Exec(o), Types', UNCHANGED qe
  PROVE  PosInv' /\ CallInv' /\ QeInv'
  BY ExecPos, ExecCall, ExecQe DEF Inv

\* R/B# is only waited for by reads.
LEMMA WaitRbStep ==
  ASSUME Inv, WaitRb
  PROVE  Inv'
<1>0. Types /\ PosInv /\ CallInv /\ QeInv /\ TouchInv /\ ModeInv /\ ChipInv /\ DataInv /\ PollInv
  BY DEF Inv
<1>1. /\ Exec("rb") /\ Waited(TRUE)
      /\ UNCHANGED <<data, cells, fail, reg, wp, wel, qe, mode, area, addr>>
  BY DEF WaitRb, parVars
<1>2. UNCHANGED late
  BY <1>0, <1>1, ExecFacts
<1>3. (polls \in Seq(Polls))' /\ (busy \in BOOLEAN)' /\ (Clean' => Clean /\ ~busy')
  BY <1>0, <1>1, <1>2, WaitedFacts
<1>4. kind # "spi" /\ call.what \notin {"program", "erase"} /\ pos \in 1 .. Len(Batch)
  BY <1>0, <1>1, ExecFacts, OpKinds
<1>5. Types'
  <2>1. (cells \in [Row -> PageData])' /\ (fail \in BOOLEAN)' /\ (wp \in BOOLEAN)'
        /\ (reg \in PageData)' /\ (mode \in Modes)' /\ (area \in {"00", "01", "50"})'
        /\ (addr \in Col \X Row)' /\ (wel \in BOOLEAN)' /\ (qe \in BOOLEAN)' /\ (data \in Seq(Pieces))'
    BY <1>0, <1>1 DEF Types, TypeOK, Modes
  <2> QED
    BY <1>0, <1>1, <1>3, <1>4, <2>1, ExecTypes
<1>6. PosInv' /\ CallInv' /\ QeInv'
  BY <1>1, <1>5, ExecRest
<1>7. TouchInv'
  BY <1>0, <1>1, ExecTouch
<1>8. ModeInv'
  BY <1>0, <1>1, <1>4, NoModeNext DEF ModeInv
<1>9. ChipInv'
  <2>1. pos = Wait /\ pos # Len(Batch) /\ useRb
    BY <1>0, <1>1, <1>4, ExecFacts, ReadTable
  <2>2. item' = item /\ pos' = pos + 1 /\ UNCHANGED <<Wait, FirstCol, kind, useRb, call>>
    BY <1>0, <1>1, <2>1, ExecFacts
  <2>3. Unit' = Unit
    BY <2>2, SameUnit
  <2>4. ASSUME Clean' PROVE At'
    <3>1. ReadAt
      BY <1>0, <1>1, <1>3, <1>4, <2>4, ExecFacts DEF ChipInv, At
    <3>2. Wait = 3 \/ Wait = 4
      BY DEF Wait
    <3>3. ReadAt'
      BY <1>1, <1>3, <2>1, <2>2, <2>3, <2>4, <3>1, <3>2 DEF ReadAt
    <3> QED
      BY <1>4, <2>2, <3>3 DEF At
  <2> QED
    BY <1>0, <1>1, <2>1, <2>4, ChipStay
<1>10. DataInv'
  BY <1>0, <1>1, <1>3, ExecData
<1>11. PollInv'
  BY <1>0, <1>1, ExecPolls
<1> QED
  BY <1>5, <1>6, <1>7, <1>8, <1>9, <1>10, <1>11 DEF Inv

\* A status poll ends a unit that writes, and precedes the data of a read.
LEMMA PollStep ==
  ASSUME Inv, Poll
  PROVE  Inv'
<1>0. Types /\ PosInv /\ CallInv /\ QeInv /\ TouchInv /\ ModeInv /\ ChipInv /\ DataInv /\ PollInv
  BY DEF Inv
<1>1. /\ Exec("poll") /\ Waited(GoodStatus)
      /\ mode' = IF mode \in {"data", "status data"} THEN "status data" ELSE "status"
      /\ UNCHANGED <<data, cells, fail, reg, wp, wel, qe, area, addr>>
  BY DEF Poll
<1>2. UNCHANGED late /\ pos \in 1 .. Len(Batch) /\ kind # "spi"
  BY <1>0, <1>1, ExecFacts, OpKinds
<1>3. (polls \in Seq(Polls))' /\ (busy \in BOOLEAN)' /\ (Clean' => Clean /\ ~busy')
  <2>1. GoodStatus \in BOOLEAN
    BY <1>0 DEF GoodStatus, Types, TypeOK
  <2> QED
    BY <1>0, <1>1, <1>2, <2>1, WaitedFacts
<1>5. Types'
  <2>1. (cells \in [Row -> PageData])' /\ (fail \in BOOLEAN)' /\ (wp \in BOOLEAN)'
        /\ (reg \in PageData)' /\ (mode \in Modes)' /\ (area \in {"00", "01", "50"})'
        /\ (addr \in Col \X Row)' /\ (wel \in BOOLEAN)' /\ (qe \in BOOLEAN)' /\ (data \in Seq(Pieces))'
    BY <1>0, <1>1 DEF Types, TypeOK, Modes
  <2> QED
    BY <1>0, <1>1, <1>2, <1>3, <2>1, ExecTypes
<1>6. PosInv' /\ CallInv' /\ QeInv'
  BY <1>1, <1>5, ExecRest
<1>7. TouchInv'
  BY <1>0, <1>1, ExecTouch
<1>8. ModeInv'
  BY <1>1, NoModeNext
<1>9. ChipInv'
  <2>1. CASE call.what \in {"program", "erase"}
    <3>1. pos = Len(Batch)
      BY <1>0, <1>1, <1>2, <2>1, ExecFacts, LastIs
    <3> QED
      BY <1>0, <1>1, <1>3, <3>1, ChipEntry
  <2>2. CASE call.what \notin {"program", "erase"}
    <3>1. pos = Wait /\ pos # Len(Batch) /\ ~useRb
      <4>1. Now.o = "poll"
        BY <1>0, <1>1, ExecFacts
      <4> QED
        BY <1>0, <1>2, <2>2, <4>1, ReadTable
    <3>2. item' = item /\ pos' = pos + 1 /\ UNCHANGED <<Wait, FirstCol, kind, useRb, call>>
      BY <1>0, <1>1, <3>1, ExecFacts
    <3>3. Unit' = Unit
      BY <3>2, SameUnit
    <3>4. ASSUME Clean' PROVE At'
      <4>1. ReadAt
        BY <1>0, <1>1, <1>2, <1>3, <2>2, <3>4, ExecFacts DEF ChipInv, At
      <4>2. Wait = 3 \/ Wait = 4
        BY DEF Wait
      <4>4. mode = "data" /\ addr = <<FirstCol, Unit>> /\ reg = cells[Unit]
        BY <3>1, <4>1, <4>2 DEF ReadAt
      <4>5. ~busy' /\ mode' = "status data" /\ addr' = addr /\ reg' = reg /\ cells' = cells
        BY <1>1, <1>3, <3>4, <4>4
      <4>6. /\ pos' = Wait + 1 /\ Wait' = Wait /\ FirstCol' = FirstCol /\ useRb' = useRb
            /\ pos' # 2 /\ pos' # 3 /\ pos' # Wait /\ pos' # Wait + 2
        BY <3>1, <3>2, <4>2
      <4>3. ReadAt'
        BY <3>1, <3>3, <4>4, <4>5, <4>6 DEF ReadAt
      <4> QED
        BY <1>2, <2>2, <3>2, <4>3 DEF At
    <3> QED
      BY <1>0, <1>1, <3>1, <3>4, ChipStay
  <2> QED
    BY <2>1, <2>2
<1>10. DataInv'
  BY <1>0, <1>1, <1>3, ExecData
<1>11. PollInv'
  <2>1. CASE call.what \in {"program", "erase"}
    <3>1. pos = Len(Batch) /\ Good = GoodStatus
      BY <1>0, <1>1, <1>2, <2>1, ExecFacts, LastIs DEF Good
    <3> QED
      BY <1>0, <1>1, <2>1, <3>1, LastWait
  <2>2. CASE call.what \notin {"program", "erase"}
    BY <1>0, <1>1, <2>2, ExecFacts DEF PollInv
  <2> QED
    BY <2>1, <2>2
<1> QED
  BY <1>5, <1>6, <1>7, <1>8, <1>9, <1>10, <1>11 DEF Inv

\* The same for an SPI chip.
LEMMA SpiPollStep ==
  ASSUME Inv, SpiPollStatus
  PROVE  Inv'
<1>0. Types /\ PosInv /\ CallInv /\ QeInv /\ TouchInv /\ ModeInv /\ ChipInv /\ DataInv /\ PollInv
  BY DEF Inv
<1>1. /\ Exec("spi poll") /\ Waited(~fail)
      /\ UNCHANGED <<data, cells, fail, reg, wp, wel, qe, mode, area, addr>>
  BY DEF SpiPollStatus, parVars
<1>2. UNCHANGED late /\ pos \in 1 .. Len(Batch) /\ kind = "spi"
  BY <1>0, <1>1, ExecFacts, OpKinds
<1>3. (polls \in Seq(Polls))' /\ (busy \in BOOLEAN)' /\ (Clean' => Clean /\ ~busy')
  BY <1>0, <1>1, <1>2, WaitedFacts
<1>4. mode = "idle"
  BY <1>0, <1>2 DEF Types
<1>5. Types'
  <2>1. (cells \in [Row -> PageData])' /\ (fail \in BOOLEAN)' /\ (wp \in BOOLEAN)'
        /\ (reg \in PageData)' /\ (mode \in Modes)' /\ (area \in {"00", "01", "50"})'
        /\ (addr \in Col \X Row)' /\ (wel \in BOOLEAN)' /\ (qe \in BOOLEAN)' /\ (data \in Seq(Pieces))'
    BY <1>0, <1>1 DEF Types, TypeOK, Modes
  <2> QED
    BY <1>0, <1>1, <1>2, <1>3, <1>4, <2>1, ExecTypes
<1>6. PosInv' /\ CallInv' /\ QeInv'
  BY <1>1, <1>5, ExecRest
<1>7. TouchInv'
  BY <1>0, <1>1, ExecTouch
<1>8. ModeInv'
  BY <1>1, <1>4, NoModeNext
<1>9. ChipInv'
  <2>1. CASE call.what \in {"program", "erase"}
    <3>1. pos = Len(Batch)
      BY <1>0, <1>1, <1>2, <2>1, ExecFacts, LastIs
    <3> QED
      BY <1>0, <1>1, <1>3, <3>1, ChipEntry
  <2>2. CASE call.what \notin {"program", "erase"}
    <3>1. pos = 2 /\ pos # Len(Batch)
      <4>1. Now.o = "spi poll"
        BY <1>0, <1>1, ExecFacts
      <4> QED
        BY <1>0, <1>2, <2>2, <4>1, SpiReadTable
    <3>2. item' = item /\ pos' = pos + 1 /\ UNCHANGED <<kind, useRb, call>>
      BY <1>0, <1>1, <3>1, ExecFacts
    <3>3. Unit' = Unit
      BY <3>2, SameUnit
    <3>4. ASSUME Clean' PROVE At'
      <4>1. SpiReadAt
        BY <1>0, <1>1, <1>2, <1>3, <2>2, <3>4, ExecFacts DEF ChipInv, At
      <4>2. ~busy' /\ reg = cells[Unit] /\ pos' = 3
        BY <1>3, <3>1, <3>2, <3>4, <4>1 DEF SpiReadAt
      <4>3. SpiReadAt'
        BY <1>1, <3>3, <4>2 DEF SpiReadAt
      <4> QED
        BY <1>2, <2>2, <3>2, <4>3 DEF At
    <3> QED
      BY <1>0, <1>1, <3>1, <3>4, ChipStay
  <2> QED
    BY <2>1, <2>2
<1>10. DataInv'
  BY <1>0, <1>1, <1>3, ExecData
<1>11. PollInv'
  <2>1. CASE call.what \in {"program", "erase"}
    <3>1. pos = Len(Batch) /\ Good = ~fail
      BY <1>0, <1>1, <1>2, <2>1, ExecFacts, LastIs DEF Good
    <3>2. Waited(Good)
      BY <1>1, <3>1 DEF Waited
    <3> QED
      BY <1>0, <1>1, <2>1, <3>1, <3>2, LastWait
  <2>2. CASE call.what \notin {"program", "erase"}
    BY <1>0, <1>1, <2>2, ExecFacts DEF PollInv
  <2> QED
    BY <2>1, <2>2
<1> QED
  BY <1>5, <1>6, <1>7, <1>8, <1>9, <1>10, <1>11 DEF Inv

------------------------------------------------------------------------------
(* Reading *)

LEMMA Bits == ASSUME NEW p \in PageData, NEW c \in Col PROVE p[c] \in {0, 1}
  BY DEF PageData

\* A read leaves the cells alone.
LEMMA ReadsTouchNothing ==
  ASSUME Types, TouchInv, call.what \notin {"program", "erase"}
  PROVE  \A r \in Row : cells[r] = cells0[r]
  BY DEF TouchInv, UnitRows

\* What a read asks for lies in the page.
LEMMA WidthFacts ==
  /\ Width \in {1, 3} /\ FirstCol \in Col
  /\ \A i \in 1 .. Width : FirstCol + i - 1 \in Col
<1>1. CASE call.what = "scan"
  BY <1>1 DEF Width, FirstCol, Spare, Col
<1>2. CASE call.what # "scan"
  BY <1>2 DEF Width, FirstCol, Spare, Col
<1> QED
  BY <1>1, <1>2

LEMMA PieceIn ==
  ASSUME NEW f, f = [i \in 1 .. Width |-> f[i]], \A i \in 1 .. Width : f[i] \in {0, 1}
  PROVE  f \in Pieces
<1>1. f \in [1 .. Width -> {0, 1}]
  OBVIOUS
<1> QED
  BY <1>1, WidthFacts DEF Pieces

\* One piece more has been read, and it is the one expected.
LEMMA DataGrows ==
  ASSUME Types, PosInv, DataInv, NEW o, Exec(o), pos = Len(Batch), UNCHANGED polls,
         NEW f \in Pieces, data' = Append(data, f),
         call.what \in {"read", "scan"} /\ Clean /\ (call.what = "scan" => ~DeafScan) => f = Expected(Unit)
  PROVE  DataInv'
<1> SUFFICES ASSUME call.what \in {"read", "scan"} PROVE DataInv'
  BY ExecFacts DEF DataInv
<1>0. data \in Seq(Pieces)
  BY DEF Types
<1>1. item' = item + 1 /\ UNCHANGED <<call, cells0, late>> /\ item \in Nat
  BY ExecFacts
<1>2. Len(data) = item - 1
  BY DEF DataInv
<1>3. Len(data') = item /\ data'[item] = f /\ \A k \in 1 .. item - 1 : data'[k] = data[k]
  BY <1>0, <1>1, <1>2
<1>4. ASSUME Clean', (call.what = "scan" => ~DeafScan)', NEW k \in 1 .. item
      PROVE  data'[k] = (Expected(call.units[k]))'
  <2>1. (Expected(call.units[k]))' = Expected(call.units[k])
    BY <1>1 DEF Expected, Width, FirstCol
  <2>2. Clean /\ (call.what = "scan" => ~DeafScan)
    <3>1. UNCHANGED <<call, qe0, needsQe>>
      BY ExecFacts
    <3> QED
      BY <1>1, <1>4, <3>1, CleanBefore DEF DeafScan
  <2>3. CASE k = item
    BY <1>3, <1>4, <2>1, <2>2, <2>3 DEF Unit
  <2>4. CASE k # item
    <3>1. k \in 1 .. item - 1
      BY <1>1, <2>4
    <3> QED
      BY <1>3, <1>4, <2>1, <2>2, <3>1 DEF DataInv
  <2> QED
    BY <2>3, <2>4
<1>5. Len(data') = item' - 1 /\ 1 .. item' - 1 = 1 .. item
  BY <1>1, <1>3
<1> QED
  BY <1>1, <1>4, <1>5 DEF DataInv

\* Where the batch uses four lines, QE is on.
LEMMA FourLines ==
  ASSUME Types, PosInv, CallInv, QeInv, NEW o, Exec(o),
         call.what \in {"read", "program"} \/ (call.what = "scan" /\ ~DeafScan)
  PROVE  ~(call.quad /\ needsQe /\ ~qe)
<1>1. CASE call.what = "scan" /\ ~DeafScan
  <2>1. qe0 => qe
    BY DEF QeInv
  <2> QED
    BY <1>1, <2>1 DEF DeafScan
<1>2. CASE call.what \in {"read", "program"}
  <2>1. result = "busy" /\ pos # 0
    BY ExecFacts
  <2>2. ~(item > Units)
    BY ExecFacts
  <2> QED
    BY <1>2, <2>1, <2>2 DEF QeInv
<1> QED
  BY <1>1, <1>2

\* The bytes that come out are those of the page, from its first column on.
LEMMA ReadDataStep ==
  ASSUME Inv, ReadData
  PROVE  Inv'
<1> DEFINE f == [i \in 1 .. Now.n |->
                   IF mode \in {"status", "status data"} THEN 0
                   ELSE IF busy \/ mode \notin {"data", "resume"} \/ addr[1] + i - 1 \notin Col THEN 1
                   ELSE reg[addr[1] + i - 1]]
<1>0. Types /\ PosInv /\ CallInv /\ QeInv /\ TouchInv /\ ModeInv /\ ChipInv /\ DataInv /\ PollInv
  BY DEF Inv
<1>1. /\ Exec("read") /\ data' = Append(data, f)
      /\ mode' = IF mode = "resume" THEN "data" ELSE mode
      /\ UNCHANGED <<polls, cells, busy, fail, reg, wp, wel, qe, area, addr>>
  BY DEF ReadData
<1>2. /\ UNCHANGED late /\ pos \in 1 .. Len(Batch) /\ kind # "spi" /\ call.what \notin {"program", "erase"}
      /\ Now.o = "read"
  BY <1>0, <1>1, ExecFacts, OpKinds
<1>3. pos = Len(Batch) /\ pos = Wait + (IF useRb THEN 1 ELSE 2) /\ Now.n = Width
  BY <1>0, <1>2, ReadTable
<1>4. Clean => /\ ~busy /\ addr = <<FirstCol, Unit>> /\ reg = cells[Unit]
               /\ mode \in {"data", "resume"}
  <2> SUFFICES ASSUME Clean PROVE /\ ~busy /\ addr = <<FirstCol, Unit>> /\ reg = cells[Unit]
                                  /\ mode \in {"data", "resume"}
    OBVIOUS
  <2>1. ReadAt
    BY <1>0, <1>1, <1>2, ExecFacts DEF ChipInv, At
  <2>2. Wait = 3 \/ Wait = 4
    BY DEF Wait
  <2>3. pos # Wait /\ pos >= Wait /\ ((pos = Wait + 1 /\ useRb) \/ pos = Wait + 2)
    BY <1>3, <2>2
  <2> QED
    BY <2>1, <2>3 DEF ReadAt
<1>5. f \in Pieces
  <2>1. ASSUME NEW i \in 1 .. Width PROVE f[i] \in {0, 1}
    <3>1. CASE mode \in {"status", "status data"} \/ busy \/ mode \notin {"data", "resume"} \/ addr[1] + i - 1 \notin Col
      BY <1>3, <2>1, <3>1
    <3>2. CASE ~(mode \in {"status", "status data"} \/ busy \/ mode \notin {"data", "resume"} \/ addr[1] + i - 1 \notin Col)
      <4>1. reg[addr[1] + i - 1] \in {0, 1}
        BY <1>0, <3>2, Bits DEF Types, TypeOK
      <4> QED
        BY <1>3, <2>1, <3>2, <4>1
    <3> QED
      BY <3>1, <3>2
  <2>2. f = [i \in 1 .. Width |-> f[i]]
    BY <1>3
  <2> HIDE DEF f
  <2> QED
    BY <2>1, <2>2, PieceIn
<1>6. Types'
  <2>1. (cells \in [Row -> PageData])' /\ (fail \in BOOLEAN)' /\ (wp \in BOOLEAN)' /\ (busy \in BOOLEAN)'
        /\ (reg \in PageData)' /\ (mode \in Modes)' /\ (area \in {"00", "01", "50"})'
        /\ (addr \in Col \X Row)' /\ (wel \in BOOLEAN)' /\ (qe \in BOOLEAN)' /\ (polls \in Seq(Polls))'
    BY <1>0, <1>1 DEF Types, TypeOK, Modes
  <2>2. (data \in Seq(Pieces))'
    <3>1. data \in Seq(Pieces)
      BY <1>0 DEF Types
    <3> HIDE DEF f
    <3> QED
      BY <1>1, <1>5, <3>1
  <2> QED
    BY <1>0, <1>1, <1>2, <2>1, <2>2, ExecTypes
<1>7. PosInv' /\ CallInv' /\ QeInv'
  BY <1>1, <1>6, ExecRest
<1>8. TouchInv'
  BY <1>0, <1>1, ExecTouch
<1>9. ModeInv'
  BY <1>0, <1>1, <1>2, NoModeNext DEF ModeInv
<1>10. ChipInv'
  <2>1. Clean' => Clean
    BY <1>0, <1>1, <1>2, CleanBefore
  <2> QED
    BY <1>0, <1>1, <1>3, <1>4, <2>1, ChipEntry
<1>11. DataInv'
  <2>1. ASSUME Clean PROVE f = Expected(Unit)
    <3>0. item \in 1 .. Units
      BY <1>0, <1>1, ExecFacts
    <3>1. Unit \in Row
      BY <1>0, <1>2, <3>0, UnitTypes DEF Unit
    <3>2. reg = cells0[Unit]
      BY <1>0, <1>2, <1>4, <2>1, <3>1, ReadsTouchNothing
    <3>3. ASSUME NEW i \in 1 .. Width PROVE f[i] = cells0[Unit][FirstCol + i - 1]
      <4>1. addr[1] = FirstCol /\ FirstCol + i - 1 \in Col
        BY <1>4, <2>1, <3>3, WidthFacts
      <4> QED
        BY <1>3, <1>4, <2>1, <3>2, <3>3, <4>1
    <3> QED
      BY <1>3, <3>3 DEF Expected
  <2> HIDE DEF f
  <2> QED
    BY <1>0, <1>1, <1>3, <1>5, <2>1, DataGrows
<1>12. PollInv'
  BY <1>0, <1>1, <1>2, ExecFacts DEF PollInv
<1> QED
  BY <1>6, <1>7, <1>8, <1>9, <1>10, <1>11, <1>12 DEF Inv

\* An SPI chip sends its cache.
LEMMA SpiReadStep ==
  ASSUME Inv, SpiReadCache
  PROVE  Inv'
<1> DEFINE f == [i \in 1 .. Now.n |->
                   IF busy \/ QuadDeaf(Now.quad) THEN 1 ELSE reg[Now.col + i - 1]]
<1>0. Types /\ PosInv /\ CallInv /\ QeInv /\ TouchInv /\ ModeInv /\ ChipInv /\ DataInv /\ PollInv
  BY DEF Inv
<1>1. /\ Exec("spi read") /\ data' = Append(data, f)
      /\ UNCHANGED <<polls, cells, busy, fail, reg, wp, wel, qe, mode, area, addr>>
  BY DEF SpiReadCache, chipVars, parVars
<1>2. /\ UNCHANGED late /\ pos \in 1 .. Len(Batch) /\ kind = "spi" /\ call.what \notin {"program", "erase"}
      /\ Now.o = "spi read"
  BY <1>0, <1>1, ExecFacts, OpKinds
<1>3. pos = Len(Batch) /\ pos = 3 /\ Now.n = Width /\ Now.col = FirstCol
  BY <1>0, <1>2, SpiReadTable
<1>4. Clean => ~busy /\ reg = cells[Unit]
  <2> SUFFICES ASSUME Clean PROVE ~busy /\ reg = cells[Unit]
    OBVIOUS
  <2>1. SpiReadAt
    BY <1>0, <1>1, <1>2, ExecFacts DEF ChipInv, At
  <2> QED
    BY <1>3, <2>1 DEF SpiReadAt
<1>5. f \in Pieces
  <2>1. ASSUME NEW i \in 1 .. Width PROVE f[i] \in {0, 1}
    <3>1. reg[FirstCol + i - 1] \in {0, 1}
      BY <1>0, <2>1, Bits, WidthFacts DEF Types, TypeOK
    <3> QED
      BY <1>3, <2>1, <3>1
  <2>2. f = [i \in 1 .. Width |-> f[i]]
    BY <1>3
  <2> HIDE DEF f
  <2> QED
    BY <2>1, <2>2, PieceIn
<1>6. Types'
  <2>1. (cells \in [Row -> PageData])' /\ (fail \in BOOLEAN)' /\ (wp \in BOOLEAN)' /\ (busy \in BOOLEAN)'
        /\ (reg \in PageData)' /\ (mode \in Modes)' /\ (area \in {"00", "01", "50"})'
        /\ (addr \in Col \X Row)' /\ (wel \in BOOLEAN)' /\ (qe \in BOOLEAN)' /\ (polls \in Seq(Polls))'
    BY <1>0, <1>1 DEF Types, TypeOK, Modes
  <2>2. (data \in Seq(Pieces))'
    <3>1. data \in Seq(Pieces)
      BY <1>0 DEF Types
    <3>2. data' = Append(data, f)
      BY <1>1
    <3> HIDE DEF f
    <3> QED
      BY <1>5, <3>1, <3>2
  <2>3. mode' = "idle"
    BY <1>0, <1>1, <1>2 DEF Types
  <2> QED
    BY <1>0, <1>1, <1>2, <2>1, <2>2, <2>3, ExecTypes
<1>7. PosInv' /\ CallInv' /\ QeInv'
  BY <1>1, <1>6, ExecRest
<1>8. TouchInv'
  BY <1>0, <1>1, ExecTouch
<1>9. ModeInv'
  BY <1>0, <1>1, <1>2, NoModeNext DEF ModeInv
<1>10. ChipInv'
  <2>1. Clean' => Clean
    BY <1>0, <1>1, <1>2, CleanBefore
  <2> QED
    BY <1>0, <1>1, <1>3, <1>4, <2>1, ChipEntry
<1>11. DataInv'
  <2>1. ASSUME call.what \in {"read", "scan"}, Clean, call.what = "scan" => ~DeafScan PROVE f = Expected(Unit)
    <3>0. item \in 1 .. Units
      BY <1>0, <1>1, ExecFacts
    <3>1. Unit \in Row
      BY <1>0, <1>2, <3>0, UnitTypes DEF Unit
    <3>2. reg = cells0[Unit]
      BY <1>0, <1>2, <1>4, <2>1, <3>1, ReadsTouchNothing
    <3>3. ~QuadDeaf(Now.quad)
      <4>1. Now.quad <=> call.quad
        BY <1>0, <1>2, <1>3, SpiReadQuad
      <4>2. ~(call.quad /\ needsQe /\ ~qe)
        BY <1>0, <1>1, <2>1, FourLines
      <4> QED
        BY <4>1, <4>2 DEF QuadDeaf
    <3>4. ASSUME NEW i \in 1 .. Width PROVE f[i] = cells0[Unit][FirstCol + i - 1]
      BY <1>3, <1>4, <2>1, <3>2, <3>3, <3>4
    <3> QED
      BY <1>3, <3>4 DEF Expected
  <2> HIDE DEF f
  <2> QED
    BY <1>0, <1>1, <1>3, <1>5, <2>1, DataGrows
<1>12. PollInv'
  BY <1>0, <1>1, <1>2, ExecFacts DEF PollInv
<1> QED
  BY <1>6, <1>7, <1>8, <1>9, <1>10, <1>11, <1>12 DEF Inv

------------------------------------------------------------------------------
(* Addresses and data that is written *)

\* A unit is a row of the chip, or a block that begins at one.
LEMMA UnitRow ==
  ASSUME Types, NEW k \in 1 .. Units
  PROVE  /\ call.what # "erase" => call.units[k] \in Row
         /\ call.what = "erase" =>
              /\ call.units[k] \in Block /\ call.units[k] * PPB \in Row
              /\ (call.units[k] * PPB) \div PPB = call.units[k]
<1>1. CASE call.what = "erase"
  <2>1. call.units[k] \in Block
    BY <1>1, UnitTypes
  <2> QED
    BY <1>1, <2>1, FirstRow
<1>2. CASE call.what # "erase"
  BY <1>2, UnitTypes
<1> QED
  BY <1>1, <1>2

\* Which address it is.
LEMMA AddressOf ==
  ASSUME Types, PosInv, Exec("addr")
  PROVE  /\ kind # "spi" /\ pos # Len(Batch) /\ Now.col + Offset \in Col /\ Now.row \in Row
         /\ call.what = "program" => pos = Setup + 1 /\ Now.row = Unit /\ Now.col = 0
         /\ call.what = "erase" => pos = 2 /\ Now.row = Unit * PPB /\ Now.col = 0
         /\ call.what \notin {"program", "erase"} =>
              pos = 2 /\ Now.row = Unit /\ Now.col = IF kind = "small" THEN 0 ELSE FirstCol
<1>1. Now.o = "addr" /\ pos \in 1 .. Len(Batch) /\ item \in 1 .. Units
  BY ExecFacts
<1>2. kind # "spi"
  BY <1>1, OpKinds
<1>3. Offset \in Col /\ (kind # "small" => Offset = 0)
  BY DEF Offset, Col
<1>4. /\ call.what # "erase" => Unit \in Row
      /\ call.what = "erase" => Unit * PPB \in Row
  BY <1>1, UnitRow DEF Unit
<1>5. CASE call.what = "program"
  <2>1. pos = Setup + 1 /\ pos # Len(Batch) /\ Now.row = Unit /\ Now.col = 0
    BY <1>1, <1>2, <1>5, ProgramTable
  <2>2. Now.col + Offset \in Col
    BY <1>3, <2>1 DEF Col
  <2> QED
    BY <1>2, <1>4, <1>5, <2>1, <2>2
<1>6. CASE call.what = "erase"
  <2>1. pos = 2 /\ pos # Len(Batch) /\ Now.row = Unit * PPB /\ Now.col = 0
    BY <1>1, <1>2, <1>6, EraseTable
  <2>2. Now.col + Offset \in Col
    BY <1>3, <2>1 DEF Col
  <2> QED
    BY <1>2, <1>4, <1>6, <2>1, <2>2
<1>7. CASE call.what \notin {"program", "erase"}
  <2>1. pos = 2 /\ pos # Len(Batch) /\ Now.row = Unit /\ Now.col = IF kind = "small" THEN 0 ELSE FirstCol
    BY <1>1, <1>2, <1>7, ReadTable
  <2>2. Now.col + Offset \in Col
    <3>1. CASE kind = "small"
      BY <1>3, <2>1, <3>1 DEF Col
    <3>2. CASE kind # "small"
      BY <1>3, <2>1, <3>2, WidthFacts DEF Col
    <3> QED
      BY <3>1, <3>2
  <2> QED
    BY <1>2, <1>4, <1>7, <2>1, <2>2
<1> QED
  BY <1>5, <1>6, <1>7

\* Address cycles start the read of a small page; of the others they fill the address.
LEMMA AddressStep ==
  ASSUME Inv, Address
  PROVE  Inv'
<1> DEFINE Reads == mode \in {"read_addr", "resume"}
           Heard == mode \in {"read_addr", "resume", "prog_addr", "erase_addr"}
           There == <<Now.col + Offset, Now.row>>
<1>0. Types /\ PosInv /\ CallInv /\ QeInv /\ TouchInv /\ ModeInv /\ ChipInv /\ DataInv /\ PollInv
  BY DEF Inv
<1>1. Exec("addr") /\ UNCHANGED <<data, polls, cells, fail, wp, wel, qe, area>>
  BY DEF Address
<1>2. \/ /\ Reads /\ kind = "small"
         /\ reg' = cells[Now.row] /\ addr' = There /\ busy' = TRUE /\ mode' = "data"
      \/ /\ ~(Reads /\ kind = "small")
         /\ addr' = IF Heard THEN There ELSE addr
         /\ mode' = IF mode = "prog_addr" THEN "prog_data"
                    ELSE IF mode = "erase_addr" THEN "erased_addr"
                    ELSE IF mode = "resume" THEN "read_addr" ELSE mode
         /\ reg' = reg /\ busy' = busy
  BY DEF Address, Load
<1>3. /\ UNCHANGED <<late, kind, useRb, call, Wait, Setup, FirstCol, Units, result>>
      /\ pos \in 1 .. Len(Batch) /\ item \in 1 .. Units /\ AtUnit
  BY <1>0, <1>1, ExecFacts
<1>4. /\ kind # "spi" /\ pos # Len(Batch) /\ Now.col + Offset \in Col /\ Now.row \in Row
      /\ call.what = "program" => pos = Setup + 1 /\ Now.row = Unit /\ Now.col = 0
      /\ call.what = "erase" => pos = 2 /\ Now.row = Unit * PPB /\ Now.col = 0
      /\ call.what \notin {"program", "erase"} =>
           pos = 2 /\ Now.row = Unit /\ Now.col = IF kind = "small" THEN 0 ELSE FirstCol
  BY <1>0, <1>1, AddressOf
<1>5. item' = item /\ pos' = pos + 1
  BY <1>0, <1>1, <1>4, ExecFacts
<1>6. Unit' = Unit
  BY <1>3, <1>5, SameUnit
<1>7. There \in Col \X Row /\ There[1] = Now.col + Offset /\ There[2] = Now.row
  BY <1>4
<1>8. Types'
  <2>1. (cells \in [Row -> PageData])' /\ (fail \in BOOLEAN)' /\ (wp \in BOOLEAN)'
        /\ (area \in {"00", "01", "50"})' /\ (wel \in BOOLEAN)' /\ (qe \in BOOLEAN)'
    BY <1>0, <1>1 DEF Types, TypeOK
  <2>2. (data \in Seq(Pieces))' /\ (polls \in Seq(Polls))'
    BY <1>0, <1>1 DEF Types
  <2>3. cells \in [Row -> PageData] /\ reg \in PageData /\ busy \in BOOLEAN /\ addr \in Col \X Row
        /\ mode \in Modes
    BY <1>0 DEF Types, TypeOK, Modes
  <2>4. (reg \in PageData)' /\ (busy \in BOOLEAN)'
    BY <1>2, <1>4, <2>3
  <2>5. (mode \in Modes)'
    BY <1>2, <2>3 DEF Modes
  <2>6. (addr \in Col \X Row)'
    <3> HIDE DEF There
    <3> QED
      BY <1>2, <1>7, <2>3
  <2> QED
    BY <1>0, <1>1, <1>4, <2>1, <2>2, <2>4, <2>5, <2>6, ExecTypes
<1>9. PosInv' /\ CallInv' /\ QeInv'
  BY <1>1, <1>8, ExecRest
<1>10. TouchInv'
  BY <1>0, <1>1, ExecTouch
<1> HIDE DEF There
<1>11. ModeInv'
  <2>1. CASE mode = "prog_addr"
    <3>1. ~busy /\ call.what = "program"
      BY <1>0, <2>1 DEF ModeInv
    <3>2. mode' = "prog_data" /\ busy' = busy /\ addr'[2] = Unit
      BY <1>2, <1>4, <1>7, <2>1, <3>1
    <3>3. pos' = Setup' + 2 /\ AtUnit'
      BY <1>3, <1>4, <1>5, <3>1 DEF Setup, AtUnit
    <3> QED
      BY <1>3, <1>6, <3>1, <3>2, <3>3 DEF ModeInv
  <2>2. CASE mode = "erase_addr"
    <3>1. ~busy /\ call.what = "erase"
      BY <1>0, <2>2 DEF ModeInv
    <3>2. mode' = "erased_addr" /\ busy' = busy /\ addr'[2] = Unit * PPB
      BY <1>2, <1>4, <1>7, <2>2, <3>1
    <3>3. pos' = 3 /\ AtUnit'
      BY <1>3, <1>4, <1>5, <3>1 DEF AtUnit
    <3> QED
      BY <1>3, <1>6, <3>1, <3>2, <3>3 DEF ModeInv
  <2>3. CASE mode \notin {"prog_addr", "erase_addr"}
    <3>1. mode # "prog_data"
      <4>1. Setup = 1 \/ Setup = 2
        BY DEF Setup
      <4> QED
        BY <1>0, <1>4, <4>1 DEF ModeInv
    <3>2. mode # "erased_addr"
      BY <1>0, <1>4 DEF ModeInv
    <3>3. mode' \notin {"prog_addr", "prog_data", "erase_addr", "erased_addr"}
      BY <1>2, <2>3, <3>1, <3>2
    <3> QED
      BY <3>3, NoModeNext
  <2> QED
    BY <2>1, <2>2, <2>3
<1>12. ChipInv'
  <2> SUFFICES ASSUME Clean' PROVE At'
    BY <1>0, <1>1, <1>4, ChipStay
  <2>0. Clean
    BY <1>0, <1>1, <1>3, CleanBefore
  <2>1. At
    BY <1>0, <1>3, <2>0 DEF ChipInv, AtUnit
  <2>2. CASE call.what = "program"
    <3>0. Setup \in {1, 2} /\ pos = Setup + 1 /\ pos' = Setup + 2
      BY <1>4, <1>5, <2>2 DEF Setup
    <3>1. ProgramAt
      BY <1>4, <2>1, <2>2 DEF At
    <3>2. mode = "prog_addr" /\ ~busy /\ (kind = "small" => area = "00")
      BY <3>0, <3>1 DEF ProgramAt
    <3>3. Offset = 0
      BY <3>2 DEF Offset
    <3>4. mode' = "prog_data" /\ ~busy' /\ addr' = <<0, Unit>>
      BY <1>2, <1>4, <2>2, <3>2, <3>3 DEF There
    <3>5. ProgramAt'
      BY <1>1, <1>3, <1>6, <3>0, <3>2, <3>4 DEF ProgramAt
    <3> QED
      BY <1>3, <1>4, <2>2, <3>5 DEF At
  <2>3. CASE call.what = "erase"
    <3>1. EraseAt
      BY <1>4, <2>1, <2>3 DEF At
    <3>2. mode = "erase_addr" /\ ~busy /\ pos' = 3
      BY <1>4, <1>5, <2>3, <3>1 DEF EraseAt
    <3>3. mode' = "erased_addr" /\ ~busy'
      BY <1>2, <3>2
    <3>4. EraseAt'
      BY <3>2, <3>3 DEF EraseAt
    <3> QED
      BY <1>3, <1>4, <2>3, <3>4 DEF At
  <2>4. CASE call.what \notin {"program", "erase"}
    <3>0. pos = 2 /\ pos' = 3 /\ (kind = "small" => Wait = 3) /\ (kind # "small" => Wait = 4)
      BY <1>4, <1>5, <2>4 DEF Wait
    <3>1. ReadAt
      BY <1>4, <2>1, <2>4 DEF At
    <3>2. Reads /\ ~busy /\ (kind = "small" => area = AreaOf(FirstCol))
      BY <3>0, <3>1 DEF ReadAt
    <3>3. Now.col + Offset = FirstCol
      <4>1. CASE kind = "small"
        <5>1. Offset = FirstCol
          BY <3>2, <4>1, WidthFacts DEF Offset, AreaOf, Col
        <5> QED
          BY <1>4, <2>4, <4>1, <5>1, WidthFacts DEF Col
      <4>2. CASE kind # "small"
        <5>1. Offset = 0
          BY <4>2 DEF Offset
        <5> QED
          BY <1>4, <2>4, <4>2, <5>1, WidthFacts DEF Col
      <4> QED
        BY <4>1, <4>2
    <3>4. There = <<FirstCol, Unit>>
      BY <1>4, <2>4, <3>3 DEF There
    <3>5. CASE kind = "small"
      <4>1. addr' = <<FirstCol, Unit>> /\ reg' = cells[Unit] /\ mode' = "data"
        BY <1>2, <1>4, <2>4, <3>2, <3>4, <3>5
      <4>2. ReadAt'
        BY <1>1, <1>3, <1>6, <3>0, <3>5, <4>1 DEF ReadAt
      <4> QED
        BY <1>3, <1>4, <2>4, <4>2 DEF At
    <3>6. CASE kind # "small"
      <4>1. addr' = <<FirstCol, Unit>> /\ ~busy' /\ mode' = "read_addr"
        BY <1>2, <3>2, <3>4, <3>6
      <4>2. ReadAt'
        BY <1>3, <1>6, <3>0, <3>6, <4>1 DEF ReadAt
      <4> QED
        BY <1>3, <1>4, <2>4, <4>2 DEF At
    <3> QED
      BY <3>5, <3>6
  <2> QED
    BY <2>2, <2>3, <2>4
<1>13. DataInv'
  BY <1>0, <1>1, <1>3, CleanBefore, ExecData
<1>14. PollInv'
  BY <1>0, <1>1, ExecPolls
<1> QED
  BY <1>8, <1>9, <1>10, <1>11, <1>12, <1>13, <1>14 DEF Inv

\* Data goes into the register of a program, from column 0 on.
LEMMA WriteStep ==
  ASSUME Inv, WriteData
  PROVE  Inv'
<1>0. Types /\ PosInv /\ CallInv /\ QeInv /\ TouchInv /\ ModeInv /\ ChipInv /\ DataInv /\ PollInv
  BY DEF Inv
<1>1. /\ Exec("write")
      /\ reg' = IF mode = "prog_data"
                THEN [c \in Col |-> IF addr[1] =< c THEN Now.d[c - addr[1]] ELSE reg[c]]
                ELSE reg
      /\ UNCHANGED <<data, polls, cells, busy, fail, wp, wel, qe, mode, area, addr>>
  BY DEF WriteData, parVars
<1>2. /\ UNCHANGED <<late, kind, useRb, call, Setup, Units, result>>
      /\ pos \in 1 .. Len(Batch) /\ item \in 1 .. Units /\ AtUnit /\ Now.o = "write"
  BY <1>0, <1>1, ExecFacts
<1>3. kind # "spi" /\ call.what = "program"
  BY <1>0, <1>2, OpKinds
<1>4. pos = Setup + 2 /\ pos # Len(Batch) /\ Now.d = call.d
  BY <1>0, <1>2, <1>3, ProgramTable
<1>5. item' = item /\ pos' = pos + 1 /\ Setup \in {1, 2}
  BY <1>0, <1>1, <1>4, ExecFacts DEF Setup
<1>6. Unit' = Unit
  BY <1>2, <1>5, SameUnit
<1>7. Types'
  <2>1. (cells \in [Row -> PageData])' /\ (fail \in BOOLEAN)' /\ (wp \in BOOLEAN)' /\ (busy \in BOOLEAN)'
        /\ (mode \in Modes)' /\ (area \in {"00", "01", "50"})'
        /\ (addr \in Col \X Row)' /\ (wel \in BOOLEAN)' /\ (qe \in BOOLEAN)'
    BY <1>0, <1>1 DEF Types, TypeOK, Modes
  <2>2. (data \in Seq(Pieces))' /\ (polls \in Seq(Polls))'
    BY <1>0, <1>1 DEF Types
  <2>3. (reg \in PageData)'
    <3>1. addr[1] \in Col /\ reg \in PageData /\ Now.d \in PageData
      BY <1>0, <1>4 DEF Types, TypeOK
    <3>2. ASSUME NEW c \in Col, addr[1] =< c PROVE c - addr[1] \in Col
      BY <3>1, <3>2 DEF Col
    <3> QED
      BY <1>1, <3>1, <3>2 DEF PageData
  <2> QED
    BY <1>0, <1>1, <1>3, <2>1, <2>2, <2>3, ExecTypes
<1>8. PosInv' /\ CallInv' /\ QeInv'
  BY <1>1, <1>7, ExecRest
<1>9. TouchInv'
  BY <1>0, <1>1, ExecTouch
<1>10. ModeInv'
  <2>1. CASE mode = "prog_data"
    <3>1. ~busy /\ addr[2] = Unit
      BY <1>0, <2>1 DEF ModeInv
    <3>2. pos' = Setup' + 3 /\ AtUnit'
      BY <1>2, <1>4, <1>5 DEF AtUnit
    <3> QED
      BY <1>1, <1>2, <1>3, <1>6, <2>1, <3>1, <3>2 DEF ModeInv
  <2>2. CASE mode # "prog_data"
    <3>1. mode \notin {"prog_addr", "erase_addr", "erased_addr"}
      BY <1>0, <1>3, <1>4, <1>5 DEF ModeInv
    <3> QED
      BY <1>1, <2>2, <3>1, NoModeNext
  <2> QED
    BY <2>1, <2>2
<1>11. ChipInv'
  <2> SUFFICES ASSUME Clean' PROVE At'
    BY <1>0, <1>1, <1>4, ChipStay
  <2>0. Clean
    BY <1>0, <1>1, <1>2, CleanBefore
  <2>1. ProgramAt
    BY <1>0, <1>2, <1>3, <2>0 DEF ChipInv, AtUnit, At
  <2>2. mode = "prog_data" /\ addr = <<0, Unit>> /\ ~busy /\ (kind = "small" => area = "00")
    BY <1>4, <1>5, <2>1 DEF ProgramAt
  <2>3. reg' = call.d
    <3>1. call.d \in PageData
      BY <1>0 DEF Types, TypeOK
    <3>2. reg' = [c \in Col |-> IF 0 =< c THEN call.d[c - 0] ELSE reg[c]]
      BY <1>1, <1>4, <2>2
    <3>3. \A c \in Col : 0 =< c /\ c - 0 = c
      BY DEF Col
    <3> QED
      BY <3>1, <3>2, <3>3 DEF PageData
  <2>4. pos' = Setup + 3
    BY <1>4, <1>5
  <2>5. ProgramAt'
    BY <1>1, <1>2, <1>5, <1>6, <2>2, <2>3, <2>4 DEF ProgramAt
  <2> QED
    BY <1>2, <1>3, <2>5 DEF At
<1>12. DataInv'
  BY <1>0, <1>1, <1>2, CleanBefore, ExecData
<1>13. PollInv'
  BY <1>0, <1>1, ExecPolls
<1> QED
  BY <1>7, <1>8, <1>9, <1>10, <1>11, <1>12, <1>13 DEF Inv

------------------------------------------------------------------------------
(* Commands of the parallel chip *)

\* Which command it is.
LEMMA CommandOf ==
  ASSUME Types, PosInv, Exec("cmd")
  PROVE  /\ kind # "spi" /\ pos # Len(Batch)
         /\ call.what = "program" =>
              \/ pos = 1 /\ kind = "small" /\ pos # Setup /\ Now.c = "00"
              \/ pos = Setup /\ Now.c = "80"
              \/ pos = Setup + 3 /\ pos + 1 = Len(Batch) /\ Now.c = "10"
         /\ call.what = "erase" =>
              \/ pos = 1 /\ Now.c = "60"
              \/ pos = 3 /\ pos + 1 = Len(Batch) /\ Now.c = "D0"
         /\ call.what \notin {"program", "erase"} =>
              \/ pos = 1 /\ Now.c = AreaOf(FirstCol)
              \/ pos = 3 /\ pos # Wait /\ kind = "large" /\ Now.c = "30"
              \/ pos = Wait + 1 /\ ~useRb /\ Now.c = AreaOf(FirstCol)
<1>1. Now.o = "cmd" /\ pos \in 1 .. Len(Batch)
  BY ExecFacts
<1>2. kind # "spi" /\ (kind # "small" => kind = "large")
  BY <1>1, OpKinds, NandAssumption DEF Types, TypeOK
<1>3. CASE call.what = "program"
  BY <1>1, <1>2, <1>3, ProgramTable
<1>4. CASE call.what = "erase"
  BY <1>1, <1>2, <1>4, EraseTable
<1>5. CASE call.what \notin {"program", "erase"}
  BY <1>1, <1>2, <1>5, ReadTable
<1> QED
  BY <1>3, <1>4, <1>5

\* What is common to all commands: they are in the middle of a unit.
LEMMA CommandFacts ==
  ASSUME Inv, Exec("cmd")
  PROVE  /\ Types /\ PosInv /\ CallInv /\ QeInv /\ TouchInv /\ ModeInv /\ ChipInv /\ DataInv /\ PollInv
         /\ UNCHANGED <<late, kind, useRb, call, cells0, Setup, Wait, FirstCol, Units, result>>
         /\ pos \in 1 .. Len(Batch) /\ item \in 1 .. Units /\ AtUnit /\ AtUnit'
         /\ item' = item /\ pos' = pos + 1 /\ Unit' = Unit
         /\ Setup \in {1, 2} /\ Wait \in {3, 4}
<1>0. Types /\ PosInv /\ CallInv /\ QeInv /\ TouchInv /\ ModeInv /\ ChipInv /\ DataInv /\ PollInv
  BY DEF Inv
<1>1. /\ UNCHANGED <<late, kind, useRb, call, cells0, Setup, Wait, FirstCol, Units, result>>
      /\ pos \in 1 .. Len(Batch) /\ item \in 1 .. Units /\ AtUnit
  BY <1>0, ExecFacts
<1>2. item' = item /\ pos' = pos + 1
  BY <1>0, CommandOf, ExecFacts
<1>3. Unit' = Unit
  BY <1>1, <1>2, SameUnit
<1>4. AtUnit'
  BY <1>1, <1>2 DEF AtUnit
<1>5. Setup \in {1, 2} /\ Wait \in {3, 4}
  BY DEF Setup, Wait
<1> QED
  BY <1>0, <1>1, <1>2, <1>3, <1>4, <1>5

\* A command that leaves the cells alone: it remains to look at mode and chip.
LEMMA QuietCommand ==
  ASSUME Inv, Exec("cmd"), UNCHANGED <<data, polls, cells, fail, wp, wel, qe>>,
         (busy \in BOOLEAN)', (reg \in PageData)', (mode \in Modes)', (area \in {"00", "01", "50"})',
         (addr \in Col \X Row)', ModeInv', Clean => At'
  PROVE  Inv'
<1>0. /\ Types /\ PosInv /\ CallInv /\ QeInv /\ TouchInv /\ ModeInv /\ ChipInv /\ DataInv /\ PollInv
      /\ kind # "spi" /\ pos # Len(Batch) /\ UNCHANGED late
  BY CommandFacts, CommandOf
<1>1. Types'
  <2>1. (cells \in [Row -> PageData])' /\ (fail \in BOOLEAN)' /\ (wp \in BOOLEAN)'
        /\ (wel \in BOOLEAN)' /\ (qe \in BOOLEAN)'
    BY <1>0 DEF Types, TypeOK
  <2>2. (data \in Seq(Pieces))' /\ (polls \in Seq(Polls))'
    BY <1>0 DEF Types
  <2> QED
    BY <1>0, <2>1, <2>2, ExecTypes
<1>2. PosInv' /\ CallInv' /\ QeInv'
  BY <1>1, ExecRest
<1>3. TouchInv'
  BY <1>0, ExecTouch
<1>4. Clean' => Clean
  BY <1>0, CleanBefore
<1>5. ChipInv'
  BY <1>0, <1>4, ChipStay
<1>6. DataInv'
  BY <1>0, <1>4, ExecData
<1>7. PollInv'
  BY <1>0, ExecPolls
<1> QED
  BY <1>1, <1>2, <1>3, <1>5, <1>6, <1>7 DEF Inv

\* A driver that has waited sends no command to a busy chip.
LEMMA CommandHeard ==
  ASSUME Inv, Exec("cmd"), Clean
  PROVE  ~busy /\ At
<1>0. At
  BY CommandFacts DEF ChipInv, AtUnit
<1>1. kind # "spi" /\ Setup \in {1, 2} /\ Wait \in {3, 4}
  BY CommandFacts, CommandOf
<1>2. CASE call.what = "program"
  <2>1. ProgramAt
    BY <1>0, <1>1, <1>2 DEF At
  <2>2. pos < Setup + 4
    BY <1>1, <1>2, CommandFacts, CommandOf
  <2> QED
    BY <1>0, <2>1, <2>2 DEF ProgramAt
<1>3. CASE call.what = "erase"
  <2>1. EraseAt
    BY <1>0, <1>1, <1>3 DEF At
  <2>2. pos < 4
    BY <1>1, <1>3, CommandFacts, CommandOf
  <2> QED
    BY <1>0, <2>1, <2>2 DEF EraseAt
<1>4. CASE call.what \notin {"program", "erase"}
  <2>1. ReadAt
    BY <1>0, <1>1, <1>4 DEF At
  <2>2. pos # Wait
    BY <1>1, <1>4, CommandFacts, CommandOf
  <2> QED
    BY <1>0, <2>1, <2>2 DEF ReadAt
<1> QED
  BY <1>2, <1>3, <1>4

LEMMA NowTypes ==
  ASSUME Types
  PROVE  /\ cells \in [Row -> PageData] /\ cells0 \in [Row -> PageData]
         /\ busy \in BOOLEAN /\ reg \in PageData /\ mode \in Modes
         /\ area \in {"00", "01", "50"} /\ addr \in Col \X Row /\ call.d \in PageData
         /\ fail \in BOOLEAN /\ wp \in BOOLEAN /\ wel \in BOOLEAN /\ qe \in BOOLEAN
  BY DEF Types, TypeOK, Modes

\* A busy chip hears no command.
LEMMA DeafStep ==
  ASSUME Inv, Exec("cmd"), busy,
         UNCHANGED <<data, polls, cells, busy, fail, reg, wp, wel, qe, mode, area, addr>>
  PROVE  Inv'
<1>1. ~Clean
  BY CommandHeard
<1>2. ModeInv'
  BY CommandFacts, NoModeNext DEF ModeInv
<1>3. Types
  BY DEF Inv
<1>4. (busy \in BOOLEAN)' /\ (reg \in PageData)' /\ (mode \in Modes)' /\ (area \in {"00", "01", "50"})'
      /\ (addr \in Col \X Row)'
  BY <1>3, NowTypes
<1> QED
  BY <1>1, <1>2, <1>4, QuietCommand

\* 00h, 01h and 50h begin a read, move the pointer, or go back to data output.
LEMMA AreaStep ==
  ASSUME Inv, Exec("cmd"), ~busy, AreaCommand, UNCHANGED <<data, polls, wp, wel, qe>>
  PROVE  Inv'
<1>0. /\ Now.c \in {"00", "01", "50"} /\ area' = Now.c
      /\ mode' = IF mode = "status data" THEN "resume" ELSE "read_addr"
      /\ UNCHANGED <<cells, busy, fail, reg, addr>>
  BY DEF AreaCommand
<1>1. Types
  BY DEF Inv
<1>2. (busy \in BOOLEAN)' /\ (reg \in PageData)' /\ (mode \in Modes)' /\ (area \in {"00", "01", "50"})'
      /\ (addr \in Col \X Row)'
  BY <1>0, <1>1, NowTypes DEF Modes
<1>3. ModeInv'
  BY <1>0, NoModeNext
<1>4. kind # "spi" /\ kind' = kind /\ call' = call /\ useRb' = useRb
  BY CommandFacts, CommandOf
<1>5. ASSUME Clean PROVE At'
  <2>0. At
    BY <1>5, CommandHeard
  <2>1. CASE call.what = "program"
    <3>1. pos = 1 /\ kind = "small" /\ Now.c = "00"
      BY <1>0, <2>1, CommandFacts, CommandOf
    <3>2. Setup' = 2 /\ pos' = 2
      BY <1>4, <3>1, CommandFacts DEF Setup
    <3>4. pos' # Setup' + 1 /\ pos' # Setup' + 2 /\ pos' # Setup' + 3 /\ pos' # Setup' + 4
      BY <3>2
    <3>5. ~busy' /\ area' = "00"
      BY <1>0, <3>1
    <3>3. ProgramAt'
      BY <3>4, <3>5 DEF ProgramAt
    <3> QED
      BY <1>4, <2>1, <3>3 DEF At
  <2>2. CASE call.what \notin {"program", "erase"}
    <3>1. ReadAt
      BY <1>4, <2>0, <2>2 DEF At
    <3>2. CASE pos = 1 /\ Now.c = AreaOf(FirstCol)
      <4>1. pos' = 2 /\ (Wait' = 3 \/ Wait' = 4)
        BY <3>2, CommandFacts
      <4>2. area' = (AreaOf(FirstCol))'
        BY <1>0, <1>4, <3>2 DEF AreaOf, FirstCol
      <4>3. mode' \in {"read_addr", "resume"} /\ ~busy'
        BY <1>0
      <4>5. ~(pos' >= Wait') /\ pos' # Wait' /\ pos' # Wait' + 1 /\ pos' # Wait' + 2 /\ pos' # 3
        BY <4>1
      <4>4. ReadAt'
        BY <4>2, <4>3, <4>5 DEF ReadAt
      <4> QED
        BY <1>4, <2>2, <4>4 DEF At
    <3>3. CASE pos = Wait + 1 /\ ~useRb
      <4>1. Wait' = Wait /\ FirstCol' = FirstCol /\ Unit' = Unit /\ (Wait = 3 \/ Wait = 4) /\ pos' = pos + 1
        BY CommandFacts
      <4>6. pos >= Wait /\ pos = Wait + 1 /\ ~useRb
        BY <3>3, <4>1
      <4>2. mode = "status data" /\ addr = <<FirstCol, Unit>> /\ reg = cells[Unit]
        BY <3>1, <4>6 DEF ReadAt
      <4>3. mode' = "resume" /\ ~busy' /\ addr' = <<FirstCol, Unit>> /\ reg' = cells'[Unit]
        BY <1>0, <4>2
      <4>4. pos' = Wait' + 2 /\ pos' # 2 /\ pos' # 3 /\ pos' # Wait' /\ pos' # Wait' + 1
        BY <3>3, <4>1
      <4>5. ReadAt'
        BY <4>1, <4>3, <4>4 DEF ReadAt
      <4> QED
        BY <1>4, <2>2, <4>5 DEF At
    <3> QED
      BY <1>0, <2>2, <3>2, <3>3, CommandFacts, CommandOf
  <2>3. call.what # "erase"
    BY <1>0, CommandFacts, CommandOf
  <2> QED
    BY <2>1, <2>2, <2>3
<1> QED
  BY <1>0, <1>2, <1>3, <1>5, QuietCommand

LEMMA AreaNames == AreaOf(FirstCol) \in {"00", "01", "50"}
  BY DEF AreaOf

\* 30h loads the page that was addressed.
LEMMA LoadStep ==
  ASSUME Inv, Exec("cmd"), ~busy, LoadCommand, UNCHANGED <<data, polls, wp, wel, qe>>
  PROVE  Inv'
<1>0. Now.c = "30" /\ UNCHANGED <<cells, fail, area>>
  BY DEF LoadCommand
<1>1. \/ /\ mode = "read_addr" /\ reg' = cells[addr[2]] /\ addr' = <<addr[1], addr[2]>>
         /\ busy' = TRUE /\ mode' = "data"
      \/ mode # "read_addr" /\ UNCHANGED <<busy, reg, mode, addr>>
  BY DEF LoadCommand, Load
<1>2. call.what \notin {"program", "erase"} /\ pos = 3 /\ pos # Wait /\ kind = "large" /\ kind # "spi"
  BY <1>0, CommandFacts, CommandOf, AreaNames
<1>3. Types /\ ModeInv
  BY DEF Inv
<1>4. (busy \in BOOLEAN)' /\ (reg \in PageData)' /\ (mode \in Modes)' /\ (area \in {"00", "01", "50"})'
      /\ (addr \in Col \X Row)'
  <2>1. CASE mode # "read_addr" /\ UNCHANGED <<busy, reg, mode, addr>>
    BY <1>0, <1>3, <2>1, NowTypes
  <2>2. CASE mode = "read_addr" /\ reg' = cells[addr[2]] /\ addr' = <<addr[1], addr[2]>>
             /\ busy' = TRUE /\ mode' = "data"
    <3>1. addr[1] \in Col /\ addr[2] \in Row /\ cells \in [Row -> PageData] /\ area \in {"00", "01", "50"}
      BY <1>3, NowTypes
    <3> QED
      BY <1>0, <2>2, <3>1 DEF Modes
  <2> QED
    BY <1>1, <2>1, <2>2
<1>5. ModeInv'
  BY <1>1, <1>2, <1>3, NoModeNext DEF ModeInv
<1>6. ASSUME Clean PROVE At'
  <2>1. ReadAt
    BY <1>2, <1>6, CommandHeard DEF At
  <2>2. mode = "read_addr" /\ addr = <<FirstCol, Unit>>
    BY <1>2, <2>1 DEF ReadAt
  <2>3. mode' = "data" /\ addr' = <<FirstCol, Unit>> /\ reg' = cells[Unit]
    BY <1>1, <2>2
  <2>4. Wait' = 4 /\ pos' = 4 /\ FirstCol' = FirstCol /\ Unit' = Unit /\ kind' = kind /\ call' = call
    BY <1>2, CommandFacts DEF Wait
  <2>5. ReadAt'
    BY <1>0, <2>3, <2>4 DEF ReadAt
  <2> QED
    BY <1>2, <2>4, <2>5 DEF At
<1> QED
  BY <1>0, <1>4, <1>5, <1>6, QuietCommand

\* 80h and 60h begin a program and an erase.
LEMMA SetupStep ==
  ASSUME Inv, Exec("cmd"), ~busy, SetupCommand, UNCHANGED <<data, polls, wp, wel, qe>>
  PROVE  Inv'
<1>0. /\ Now.c \in {"80", "60"} /\ UNCHANGED <<cells, busy, fail, area, addr>>
      /\ mode' = IF Now.c = "80" THEN "prog_addr" ELSE "erase_addr"
      /\ reg' = IF Now.c = "80" THEN AllFF ELSE reg
  BY DEF SetupCommand
<1>1. Types
  BY DEF Inv
<1>2. (busy \in BOOLEAN)' /\ (reg \in PageData)' /\ (mode \in Modes)' /\ (area \in {"00", "01", "50"})'
      /\ (addr \in Col \X Row)'
  BY <1>0, <1>1, NowTypes, FFIsPage DEF Modes
<1>3. kind # "spi" /\ UNCHANGED <<kind, call, Setup>> /\ pos' = pos + 1 /\ AtUnit' /\ Setup \in {1, 2}
  BY CommandFacts, CommandOf
<1>4. \/ call.what = "program" /\ pos = Setup /\ Now.c = "80"
      \/ call.what = "erase" /\ pos = 1 /\ Now.c = "60"
  BY <1>0, CommandFacts, CommandOf, AreaNames
<1>5. CASE call.what = "program" /\ pos = Setup /\ Now.c = "80"
  <2>1. mode' = "prog_addr" /\ ~busy' /\ pos' = Setup' + 1
    BY <1>0, <1>3, <1>5
  <2>2. ModeInv'
    BY <1>3, <1>5, <2>1 DEF ModeInv
  <2>3. ASSUME Clean PROVE At'
    <3>1. ProgramAt
      BY <1>3, <1>5, <2>3, CommandHeard DEF At
    <3>2. kind = "small" => area = "00"
      BY <1>3, <1>5, <3>1 DEF ProgramAt
    <3>3. ProgramAt'
      BY <1>0, <1>3, <2>1, <3>2 DEF ProgramAt
    <3> QED
      BY <1>3, <1>5, <3>3 DEF At
  <2> QED
    BY <1>0, <1>2, <2>2, <2>3, QuietCommand
<1>6. CASE call.what = "erase" /\ pos = 1 /\ Now.c = "60"
  <2>1. mode' = "erase_addr" /\ ~busy' /\ pos' = 2
    BY <1>0, <1>3, <1>6
  <2>2. ModeInv'
    BY <1>3, <1>6, <2>1 DEF ModeInv
  <2>3. EraseAt'
    BY <2>1 DEF EraseAt
  <2>4. At'
    BY <1>3, <1>6, <2>3 DEF At
  <2> QED
    BY <1>0, <1>2, <2>2, <2>4, QuietCommand
<1> QED
  BY <1>4, <1>5, <1>6

\* Before its confirmation a unit's rows are what they were.
LEMMA Untouched ==
  ASSUME Types, PosInv, CallInv, TouchInv, NEW o, Exec(o), pos # Len(Batch),
         call.what \in {"program", "erase"}, NEW r \in Row, r \in UnitRows(Unit)
  PROVE  cells[r] = cells0[r]
<1> SUFFICES ASSUME cells[r] # cells0[r] PROVE FALSE
  OBVIOUS
<1>1. PICK k \in 1 .. Units : Confirmed(k) /\ r \in UnitRows(call.units[k])
  BY DEF TouchInv
<1>2. k # item /\ item \in 1 .. Units
  BY <1>1, ExecFacts DEF Confirmed
<1> QED
  BY <1>1, <1>2, UnitsApart DEF Unit

\* 10h and D0h write the row or block that was addressed, and no other.
LEMMA ConfirmStep ==
  ASSUME Inv, Exec("cmd"), ~busy, ConfirmCommand, UNCHANGED <<data, polls, wp, wel, qe>>
  PROVE  Inv'
<1> DEFINE rows == IF Now.c = "10" THEN {addr[2]} ELSE RowsOf(addr[2] \div PPB)
           Fits == mode = IF Now.c = "10" THEN "prog_data" ELSE "erased_addr"
<1>0. Now.c \in {"10", "D0"} /\ UNCHANGED <<reg, area, addr>>
  BY DEF ConfirmCommand
<1>1. \/ /\ Fits /\ fail' \in BOOLEAN /\ busy' = TRUE /\ mode' = "idle"
         /\ cells' = IF ~wp \/ fail' THEN cells
                     ELSE [r \in Row |-> IF r \notin rows THEN cells[r]
                                         ELSE IF Now.c = "10" THEN And(cells[r], reg) ELSE AllFF]
      \/ ~Fits /\ UNCHANGED <<cells, fail, busy, mode>>
  BY DEF ConfirmCommand
<1>2. Types /\ PosInv /\ CallInv /\ QeInv /\ TouchInv /\ ModeInv /\ ChipInv /\ DataInv /\ PollInv
  BY DEF Inv
<1>3. /\ kind # "spi" /\ UNCHANGED <<late, kind, call, cells0, Setup>> /\ pos' = pos + 1
      /\ Setup \in {1, 2} /\ item \in 1 .. Units /\ Unit' = Unit
  BY CommandFacts, CommandOf
<1>4. /\ pos + 1 = Len(Batch) /\ pos # Len(Batch)
      /\ \/ call.what = "program" /\ pos = Setup + 3 /\ Now.c = "10"
         \/ call.what = "erase" /\ pos = 3 /\ Now.c = "D0"
  BY <1>0, CommandFacts, CommandOf, AreaNames
<1>5. ASSUME Fits PROVE rows = UnitRows(Unit)
  <2>1. CASE call.what = "program" /\ Now.c = "10"
    BY <1>2, <1>5, <2>1 DEF ModeInv, UnitRows
  <2>2. CASE call.what = "erase" /\ Now.c = "D0"
    <3>1. addr[2] = Unit * PPB
      BY <1>2, <1>5, <2>2 DEF ModeInv
    <3>2. (Unit * PPB) \div PPB = Unit
      BY <1>2, <1>3, <2>2, UnitRow DEF Unit
    <3> QED
      BY <2>2, <3>1, <3>2 DEF UnitRows
  <2> QED
    BY <1>4, <2>1, <2>2
<1>6. UnitRows(Unit) \subseteq Row /\ (call.what = "program" => Unit \in Row)
  <2>1. CASE call.what = "program"
    <3>1. Unit \in Row
      BY <1>2, <1>3, <2>1, UnitRow DEF Unit
    <3> QED
      BY <2>1, <3>1 DEF UnitRows
  <2>2. CASE call.what = "erase"
    BY <2>2 DEF UnitRows, RowsOf
  <2> QED
    BY <1>4, <2>1, <2>2
<1> HIDE DEF rows
<1>7. \A r \in Row : r \notin UnitRows(Unit) => cells'[r] = cells[r]
  BY <1>1, <1>5
<1>8. (cells \in [Row -> PageData])'
  <2>1. cells \in [Row -> PageData] /\ reg \in PageData
    BY <1>2, NowTypes
  <2>2. \A r \in Row : And(cells[r], reg) \in PageData
    BY <2>1, AndIsPage
  <2> QED
    BY <1>1, <2>1, <2>2, FFIsPage
<1>9. Types'
  <2>1. (wp \in BOOLEAN)' /\ (reg \in PageData)' /\ (area \in {"00", "01", "50"})'
        /\ (addr \in Col \X Row)' /\ (wel \in BOOLEAN)' /\ (qe \in BOOLEAN)'
    BY <1>0, <1>2, NowTypes
  <2>2. (fail \in BOOLEAN)' /\ (busy \in BOOLEAN)' /\ (mode \in Modes)'
    BY <1>1, <1>2, NowTypes DEF Modes
  <2>3. (data \in Seq(Pieces))' /\ (polls \in Seq(Polls))'
    BY <1>2 DEF Types
  <2> QED
    BY <1>2, <1>3, <1>8, <2>1, <2>2, <2>3, ExecTypes
<1>10. PosInv' /\ CallInv' /\ QeInv'
  BY <1>9, ExecRest
<1>11. TouchInv'
  BY <1>2, <1>4, <1>7, ConfirmTouch
<1>12. ModeInv'
  <2>1. CASE Fits
    BY <1>1, <2>1, NoModeNext
  <2>2. CASE ~Fits
    <3>1. mode \notin {"prog_addr", "prog_data", "erase_addr", "erased_addr"}
      BY <1>2, <1>3, <1>4, <2>2 DEF ModeInv
    <3> QED
      BY <1>1, <2>2, <3>1, NoModeNext
  <2> QED
    BY <2>1, <2>2
<1>13. ChipInv'
  <2> SUFFICES ASSUME Clean' PROVE At'
    BY <1>2, <1>4, ChipStay
  <2>0. Clean /\ At
    BY <1>2, <1>3, CleanBefore, CommandHeard
  <2>1. CASE call.what = "program" /\ pos = Setup + 3 /\ Now.c = "10"
    <3>1. ProgramAt
      BY <1>3, <2>0, <2>1 DEF At
    <3>2. Fits /\ reg = call.d /\ (kind = "small" => area = "00")
      BY <1>3, <2>1, <3>1 DEF ProgramAt
    <3>3. ASSUME Good' PROVE Done(Unit)'
      <4>1. wp /\ ~fail'
        BY <1>3, <3>3 DEF Good, GoodStatus
      <4>2. Unit \in Row /\ Unit \in rows /\ cells[Unit] = cells0[Unit]
        BY <1>2, <1>4, <1>5, <1>6, <2>1, <3>2, Untouched DEF UnitRows
      <4>3. cells'[Unit] = And(cells0[Unit], call.d)
        BY <1>1, <2>1, <3>2, <4>1, <4>2
      <4> QED
        BY <1>3, <2>1, <4>3 DEF Done, And
    <3>4. pos' = Setup' + 4
      BY <1>3, <2>1
    <3>5. ProgramAt'
      BY <1>0, <1>3, <3>2, <3>3, <3>4 DEF ProgramAt
    <3> QED
      BY <1>3, <2>1, <3>5 DEF At
  <2>2. CASE call.what = "erase" /\ pos = 3 /\ Now.c = "D0"
    <3>1. EraseAt
      BY <1>3, <2>0, <2>2 DEF At
    <3>2. Fits
      BY <2>2, <3>1 DEF EraseAt
    <3>3. ASSUME Good' PROVE Done(Unit)'
      <4>1. wp /\ ~fail'
        BY <1>3, <3>3 DEF Good, GoodStatus
      <4>2. \A r \in RowsOf(Unit) : r \in Row /\ r \in rows
        BY <1>5, <1>6, <2>2, <3>2 DEF UnitRows
      <4>3. \A r \in RowsOf(Unit) : cells'[r] = AllFF
        BY <1>1, <2>2, <3>2, <4>1, <4>2
      <4> QED
        BY <1>3, <2>2, <4>3 DEF Done
    <3>4. EraseAt'
      BY <1>3, <2>2, <3>3 DEF EraseAt
    <3> QED
      BY <1>3, <2>2, <3>4 DEF At
  <2> QED
    BY <1>4, <2>1, <2>2
<1>14. DataInv'
  BY <1>2, <1>3, CleanBefore, ExecData
<1>15. PollInv'
  BY <1>2, <1>7, ExecPolls
<1> QED
  BY <1>9, <1>10, <1>11, <1>12, <1>13, <1>14, <1>15 DEF Inv

\* A command is heard or it is not.
LEMMA CommandStep ==
  ASSUME Inv, Command
  PROVE  Inv'
<1>1. Exec("cmd") /\ UNCHANGED <<data, polls, wp, wel, qe>>
  BY DEF Command
<1>2. \/ busy /\ UNCHANGED <<cells, busy, fail, reg, mode, area, addr>>
      \/ ~busy /\ (AreaCommand \/ LoadCommand \/ SetupCommand \/ ConfirmCommand)
  BY DEF Command, parVars
<1> QED
  BY <1>1, <1>2, DeafStep, AreaStep, LoadStep, SetupStep, ConfirmStep

------------------------------------------------------------------------------
(* Transactions of the serial chip *)

\* What a transaction of an SPI chip is, by the call.
LEMMA TransactionOf ==
  ASSUME Types, PosInv, Exec("spi")
  PROVE  /\ kind = "spi" /\ pos # Len(Batch) /\ item \in 1 .. Units /\ AtUnit
         /\ call.what = "program" =>
              \/ pos = 1 /\ Now.c = "06"
              \/ pos = 2 /\ Now.c = (IF call.quad THEN "32" ELSE "02") /\ Now.d = call.d
              \/ pos = 3 /\ pos + 1 = Len(Batch) /\ Now.c = "10" /\ Now.row = Unit
         /\ call.what = "erase" =>
              \/ pos = 1 /\ Now.c = "06"
              \/ pos = 2 /\ pos + 1 = Len(Batch) /\ Now.c = "D8" /\ Now.row = Unit * PPB
         /\ call.what \notin {"program", "erase"} => pos = 1 /\ Now.c = "13" /\ Now.row = Unit
<1>1. Now.o = "spi" /\ pos \in 1 .. Len(Batch) /\ item \in 1 .. Units /\ AtUnit
  BY ExecFacts
<1>2. kind = "spi"
  BY <1>1, OpKinds
<1>3. CASE call.what = "program"
  BY <1>1, <1>2, <1>3, SpiProgramTable
<1>4. CASE call.what = "erase"
  BY <1>1, <1>2, <1>4, SpiEraseTable
<1>5. CASE call.what \notin {"program", "erase"}
  BY <1>1, <1>2, <1>5, SpiReadTable
<1> QED
  BY <1>3, <1>4, <1>5

\* What a transaction does to the rows: nothing, or it writes those of its unit.
LEMMA TransactionCells ==
  ASSUME Inv, Transaction
  PROVE  /\ (cells \in [Row -> PageData])'
         /\ \A r \in Row : r \notin UnitRows(Unit) => cells'[r] = cells[r]
         /\ cells' # cells => pos + 1 = Len(Batch)
         /\ ~busy /\ Now.c \in {"10", "D8"} /\ ~fail' =>
              \A r \in UnitRows(Unit) :
                cells'[r] = IF call.what = "program" THEN And(cells[r], reg) ELSE AllFF
<1>0. Types /\ PosInv /\ Exec("spi")
  BY DEF Inv, Transaction
<1>1. cells \in [Row -> PageData] /\ reg \in PageData
  BY <1>0, NowTypes
<1>2. /\ item \in 1 .. Units
      /\ call.what = "program" => Unit \in Row
      /\ call.what = "erase" => (Unit * PPB) \div PPB = Unit
  BY <1>0, TransactionOf, UnitRow DEF Unit
<1>3. CASE busy \/ Now.c \notin {"10", "D8"}
  <2>1. cells' = cells
    BY <1>3 DEF Transaction
  <2> QED
    BY <1>1, <1>3, <2>1
<1>4. CASE ~busy /\ Now.c \in {"10", "D8"}
  <2>0. cells' = IF fail' THEN cells
                 ELSE IF Now.c = "10" THEN [cells EXCEPT ![Now.row] = And(@, reg)]
                 ELSE [r \in Row |-> IF r \in RowsOf(Now.row \div PPB) THEN AllFF ELSE cells[r]]
    BY <1>4 DEF Transaction
  <2>1. CASE call.what = "program"
    <3>1. pos + 1 = Len(Batch) /\ Now.c = "10" /\ Now.row = Unit
      BY <1>0, <1>4, <2>1, TransactionOf
    <3>2. UnitRows(Unit) = {Unit} /\ And(cells[Unit], reg) \in PageData
      BY <1>1, <1>2, <2>1, AndIsPage DEF UnitRows
    <3> QED
      BY <1>1, <1>2, <2>0, <2>1, <3>1, <3>2
  <2>2. CASE call.what = "erase"
    <3>1. pos + 1 = Len(Batch) /\ Now.c = "D8" /\ Now.row = Unit * PPB
      BY <1>0, <1>4, <2>2, TransactionOf
    <3>2. UnitRows(Unit) = RowsOf(Now.row \div PPB) /\ UnitRows(Unit) \subseteq Row
      BY <1>2, <2>2, <3>1 DEF UnitRows, RowsOf
    <3> QED
      BY <1>1, <2>0, <2>2, <3>1, <3>2, FFIsPage
  <2>3. call.what \in {"program", "erase"}
    BY <1>0, <1>4, TransactionOf
  <2> QED
    BY <2>1, <2>2, <2>3
<1> QED
  BY <1>3, <1>4

\* 06h, 13h, 02h, 32h, 10h and D8h.
LEMMA TransactionStep ==
  ASSUME Inv, Transaction
  PROVE  Inv'
<1>0. Types /\ PosInv /\ CallInv /\ QeInv /\ TouchInv /\ ModeInv /\ ChipInv /\ DataInv /\ PollInv
  BY DEF Inv
<1>1. Exec("spi") /\ UNCHANGED <<data, polls, wp, qe, mode, area, addr>>
  BY DEF Transaction, parVars
<1>2. \/ busy /\ UNCHANGED <<cells, busy, fail, reg, wel>>
      \/ ~busy /\ Now.c = "06" /\ wel' = TRUE /\ UNCHANGED <<cells, busy, fail, reg>>
      \/ ~busy /\ Now.c = "13" /\ reg' = cells[Now.row] /\ busy' = TRUE /\ UNCHANGED <<cells, fail, wel>>
      \/ /\ ~busy /\ Now.c \in {"02", "32"} /\ UNCHANGED <<cells, busy, fail, wel>>
         /\ reg' = IF QuadDeaf(Now.c = "32") THEN reg ELSE Now.d
      \/ /\ ~busy /\ Now.c \in {"10", "D8"} /\ fail' \in {TRUE, ~wel} /\ wel' = FALSE
         /\ busy' = TRUE /\ reg' = reg
  BY DEF Transaction
<1>3. /\ kind = "spi" /\ pos # Len(Batch) /\ item \in 1 .. Units /\ AtUnit
      /\ UNCHANGED <<late, kind, useRb, call, cells0>> /\ item' = item /\ pos' = pos + 1
      /\ pos \in 1 .. Len(Batch)
  BY <1>0, <1>1, TransactionOf, ExecFacts
<1>4. Unit' = Unit
  BY <1>3, SameUnit
<1>5. mode = "idle" /\ mode' = "idle"
  BY <1>0, <1>1, <1>3 DEF Types
<1>6. (cells \in [Row -> PageData])'
      /\ \A r \in Row : r \notin UnitRows(Unit) => cells'[r] = cells[r]
  BY TransactionCells
<1>7. Types'
  <2>1. (wp \in BOOLEAN)' /\ (mode \in Modes)' /\ (area \in {"00", "01", "50"})'
        /\ (addr \in Col \X Row)' /\ (qe \in BOOLEAN)'
    BY <1>0, <1>1, NowTypes
  <2>2. (busy \in BOOLEAN)' /\ (fail \in BOOLEAN)' /\ (wel \in BOOLEAN)'
    BY <1>0, <1>2, NowTypes
  <2>3. (reg \in PageData)'
    <3>1. reg \in PageData /\ cells \in [Row -> PageData] /\ call.d \in PageData
      BY <1>0, NowTypes
    <3>2. Now.c = "13" => Now.row \in Row
      <4>1. Now.c = "13" => call.what \notin {"program", "erase"} /\ Now.row = Unit
        BY <1>0, <1>1, TransactionOf
      <4> QED
        BY <1>0, <1>3, <4>1, UnitRow DEF Unit
    <3>3. Now.c \in {"02", "32"} => Now.d = call.d
      BY <1>0, <1>1, TransactionOf
    <3> QED
      BY <1>2, <3>1, <3>2, <3>3
  <2>4. (data \in Seq(Pieces))' /\ (polls \in Seq(Polls))'
    BY <1>0, <1>1 DEF Types
  <2> QED
    BY <1>0, <1>1, <1>5, <1>6, <2>1, <2>2, <2>3, <2>4, ExecTypes
<1>8. PosInv' /\ CallInv' /\ QeInv'
  BY <1>1, <1>7, ExecRest
<1>9. TouchInv'
  <2>1. CASE cells' = cells
    BY <1>0, <1>1, <2>1, ExecTouch
  <2>2. CASE cells' # cells
    BY <1>0, <1>1, <1>6, <2>2, TransactionCells, ConfirmTouch
  <2> QED
    BY <2>1, <2>2
<1>10. ModeInv'
  BY <1>5, NoModeNext
<1>11. ChipInv'
  <2> SUFFICES ASSUME Clean' PROVE At'
    BY <1>0, <1>1, <1>3, ChipStay
  <2>0. Clean
    BY <1>0, <1>1, <1>3, CleanBefore
  <2>1. At
    BY <1>0, <1>3, <2>0 DEF ChipInv, AtUnit
  <2>2. CASE call.what = "program"
    <3>1. SpiProgramAt
      BY <1>3, <2>1, <2>2 DEF At
    <3>2. CASE pos = 1 /\ Now.c = "06"
      <4>1. ~busy' /\ pos' = 2
        BY <1>2, <1>3, <3>1, <3>2 DEF SpiProgramAt
      <4>2. SpiProgramAt'
        BY <4>1 DEF SpiProgramAt
      <4> QED
        BY <1>3, <2>2, <4>2 DEF At
    <3>3. CASE pos = 2 /\ Now.c = (IF call.quad THEN "32" ELSE "02") /\ Now.d = call.d
      <4>1. ~QuadDeaf(Now.c = "32")
        <5>1. Now.c = "32" <=> call.quad
          BY <3>3
        <5>2. ~(call.quad /\ needsQe /\ ~qe)
          BY <1>0, <1>1, <2>2, FourLines
        <5> QED
          BY <5>1, <5>2 DEF QuadDeaf
      <4>2. ~busy' /\ reg' = call.d /\ pos' = 3
        BY <1>2, <1>3, <3>1, <3>3, <4>1 DEF SpiProgramAt
      <4>3. SpiProgramAt'
        BY <1>3, <4>2 DEF SpiProgramAt
      <4> QED
        BY <1>3, <2>2, <4>3 DEF At
    <3>4. CASE pos = 3 /\ Now.c = "10" /\ Now.row = Unit
      <4>1. ~busy /\ reg = call.d /\ pos' = 4
        BY <1>3, <3>1, <3>4 DEF SpiProgramAt
      <4>2. Unit \in Row /\ Unit \in UnitRows(Unit)
        BY <1>0, <1>3, <2>2, UnitRow DEF Unit, UnitRows
      <4>3. cells[Unit] = cells0[Unit]
        BY <1>0, <1>1, <1>3, <2>2, <4>2, Untouched
      <4>4. ~fail' => cells'[Unit] = And(cells0[Unit], call.d)
        BY <2>2, <3>4, <4>1, <4>2, <4>3, TransactionCells
      <4>5. Good' => Done(Unit)'
        BY <1>3, <1>4, <2>2, <4>4 DEF Good, Done, And
      <4>6. SpiProgramAt'
        BY <1>4, <4>1, <4>5 DEF SpiProgramAt, Done, And
      <4> QED
        BY <1>3, <2>2, <4>6 DEF At
    <3> QED
      BY <1>0, <1>1, <2>2, <3>2, <3>3, <3>4, TransactionOf
  <2>3. CASE call.what = "erase"
    <3>1. SpiEraseAt
      BY <1>3, <2>1, <2>3 DEF At
    <3>2. CASE pos = 1 /\ Now.c = "06"
      <4>1. ~busy' /\ pos' = 2
        BY <1>2, <1>3, <3>1, <3>2 DEF SpiEraseAt
      <4>2. SpiEraseAt'
        BY <4>1 DEF SpiEraseAt
      <4> QED
        BY <1>3, <2>3, <4>2 DEF At
    <3>3. CASE pos = 2 /\ Now.c = "D8"
      <4>1. ~busy /\ pos' = 3
        BY <1>3, <3>1, <3>3 DEF SpiEraseAt
      <4>2. ~fail' => \A r \in RowsOf(Unit) : cells'[r] = AllFF
        <5>1. ~fail' => \A r \in UnitRows(Unit) : cells'[r] = AllFF
          BY <2>3, <3>3, <4>1, TransactionCells
        <5> QED
          BY <2>3, <5>1 DEF UnitRows
      <4>3. Good' => Done(Unit)'
        BY <1>3, <1>4, <2>3, <4>2 DEF Good, Done
      <4>4. SpiEraseAt'
        BY <1>4, <4>1, <4>3 DEF SpiEraseAt
      <4> QED
        BY <1>3, <2>3, <4>4 DEF At
    <3> QED
      BY <1>0, <1>1, <2>3, <3>2, <3>3, TransactionOf
  <2>4. CASE call.what \notin {"program", "erase"}
    <3>0. pos = 1 /\ Now.c = "13" /\ Now.row = Unit
      BY <1>0, <1>1, <2>4, TransactionOf
    <3>1. SpiReadAt
      BY <1>3, <2>1, <2>4 DEF At
    <3>2. ~busy
      BY <3>0, <3>1 DEF SpiReadAt
    <3>3. reg' = cells[Unit] /\ cells' = cells /\ pos' = 2
      BY <1>2, <1>3, <3>0, <3>2
    <3>4. SpiReadAt'
      BY <1>4, <3>3 DEF SpiReadAt
    <3> QED
      BY <1>3, <2>4, <3>4 DEF At
  <2> QED
    BY <2>2, <2>3, <2>4
<1>12. DataInv'
  BY <1>0, <1>1, <1>3, CleanBefore, ExecData
<1>13. PollInv'
  BY <1>0, <1>1, <1>6, ExecPolls
<1> QED
  BY <1>7, <1>8, <1>9, <1>10, <1>11, <1>12, <1>13 DEF Inv

------------------------------------------------------------------------------
(* The driver's own steps *)

\* Two batches of the same call that are at the same place are at the same
\* operation, and what they touch is the same.
LEMMA SamePlace ==
  ASSUME UNCHANGED <<kind, useRb, call, item, pos>>
  PROVE  UNCHANGED <<Units, Batch, Unit, Setup, Wait, FirstCol, Width>>
<1>1. UNCHANGED <<Batch, Unit>>
  BY SameUnit
<1> QED
  BY <1>1 DEF Units, Setup, Wait, FirstCol, Width

\* A step that leaves most alone keeps the types,
LEMMA SameTypes ==
  ASSUME Types,
         UNCHANGED <<kind, useRb, needsQe, call, data, polls, ops, cells0, qe0, late,
                     cells, fail, reg, wel, mode, area, addr>>,
         item' \in Nat, pos' \in Nat, result' \in {"none", "busy", "ok", "error"},
         busy' \in BOOLEAN, wp' \in BOOLEAN, qe' \in BOOLEAN
  PROVE  Types'
<1>1. TypeOK
  BY DEF Types
<1>2. (kind \in Kinds /\ useRb \in BOOLEAN /\ needsQe \in BOOLEAN)'
  BY <1>1 DEF TypeOK
<1>3. /\ (call.what \in {"none", "read", "program", "erase", "scan"} /\ call.d \in PageData)'
      /\ (ops \in 0 .. MaxOps)'
  BY <1>1 DEF TypeOK
<1>4. (cells \in [Row -> PageData] /\ cells0 \in [Row -> PageData] /\ reg \in PageData)'
  BY <1>1 DEF TypeOK
<1>5. (fail \in BOOLEAN /\ wel \in BOOLEAN /\ qe0 \in BOOLEAN /\ late \in BOOLEAN)'
  BY <1>1 DEF TypeOK
<1>6. (mode \in Modes /\ area \in {"00", "01", "50"} /\ addr \in Col \X Row)'
  BY <1>1 DEF TypeOK, Modes
<1>7. TypeOK'
  BY <1>2, <1>3, <1>4, <1>5, <1>6 DEF TypeOK, Modes
<1>8. (call.quad \in BOOLEAN /\ call.sets \in BOOLEAN)'
  BY DEF Types
<1>9. (call.units \in Seq(IF call.what = "erase" THEN Block ELSE Row))'
  BY DEF Types
<1>10. ((kind = "spi" => mode = "idle" /\ useRb) /\ (~needsQe => ~call.sets))'
  BY DEF Types
<1> QED
  BY <1>7, <1>8, <1>9, <1>10 DEF Types

\* the record of what was written,
LEMMA SameTouch ==
  ASSUME UNCHANGED <<kind, useRb, call, item, pos, cells, cells0>>, TouchInv
  PROVE  TouchInv'
<1>1. \A k \in 1 .. Units : Confirmed(k)' <=> Confirmed(k)
  BY SamePlace DEF Confirmed
<1>2. \A k \in 1 .. Units, r \in Row : (r \in UnitRows(call.units[k]))' <=> r \in UnitRows(call.units[k])
  BY DEF UnitRows
<1> QED
  BY <1>1, <1>2, SamePlace DEF TouchInv

\* what was read,
LEMMA SameData ==
  ASSUME UNCHANGED <<needsQe, call, item, data, polls, cells0, qe0, late>>, DataInv
  PROVE  DataInv'
<1>1. UNCHANGED <<Clean, Width, FirstCol, DeafScan>>
  BY DEF Clean, AllWaited, Width, FirstCol, DeafScan
<1>2. \A u : UNCHANGED Expected(u)
  BY <1>1 DEF Expected
<1> QED
  BY <1>1, <1>2 DEF DataInv

\* what was waited for,
LEMMA SamePolls ==
  ASSUME UNCHANGED <<call, item, polls, cells, cells0, late>>, PollInv
  PROVE  PollInv'
<1>1. \A u : UNCHANGED Done(u)
  BY DEF Done, And
<1>2. \A i : UNCHANGED Sure(i)
  BY DEF Sure
<1> QED
  BY <1>1, <1>2 DEF PollInv

\* and the call.
LEMMA SameCall == ASSUME CallInv, UNCHANGED call, result' # "none" => result # "none" PROVE CallInv'
  BY DEF CallInv, Units

\* WP# is moved between operations only.
LEMMA SetWpStep ==
  ASSUME Inv, SetWp
  PROVE  Inv'
<1>0. Types /\ PosInv /\ CallInv /\ QeInv /\ TouchInv /\ ModeInv /\ ChipInv /\ DataInv /\ PollInv
  BY DEF Inv
<1>1. /\ result # "busy" /\ wp' = ~wp
      /\ UNCHANGED <<kind, useRb, needsQe, call, data, polls, result, ops, cells0, qe0, late, item, pos,
                     cells, busy, fail, reg, wel, qe, mode, area, addr>>
  BY DEF SetWp, driverVars, callVars, batchVars, parVars
<1>2. Types'
  <2>1. item \in Nat /\ pos \in Nat /\ TypeOK
    BY <1>0 DEF Types
  <2>2. busy' \in BOOLEAN /\ wp' \in BOOLEAN /\ qe' \in BOOLEAN
    BY <1>1, <2>1 DEF TypeOK
  <2>3. item' \in Nat /\ pos' \in Nat /\ result' \in {"none", "busy", "ok", "error"}
    BY <1>1, <2>1 DEF TypeOK
  <2> QED
    BY <1>0, <1>1, <2>2, <2>3, SameTypes
<1>3. PosInv'
  BY <1>0, <1>1, SamePlace DEF PosInv
<1>4. CallInv' /\ TouchInv' /\ DataInv' /\ PollInv'
  BY <1>0, <1>1, SameCall, SameTouch, SameData, SamePolls
<1>5. QeInv'
  BY <1>0, <1>1, SamePlace DEF QeInv
<1>6. ModeInv'
  BY <1>0, <1>1, NoModeNext DEF ModeInv, AtUnit
<1>7. ChipInv'
  BY <1>1 DEF ChipInv
<1> QED
  BY <1>2, <1>3, <1>4, <1>5, <1>6, <1>7 DEF Inv

\* The chip becomes ready while the driver works.
LEMMA ReadyStep ==
  ASSUME Inv, Ready
  PROVE  Inv'
<1>0. Types /\ PosInv /\ CallInv /\ QeInv /\ TouchInv /\ ModeInv /\ ChipInv /\ DataInv /\ PollInv
  BY DEF Inv
<1>1. /\ result = "busy" /\ busy' = FALSE
      /\ UNCHANGED <<kind, useRb, needsQe, call, data, polls, result, ops, cells0, qe0, late, item, pos,
                     cells, fail, reg, wp, wel, qe, mode, area, addr>>
  BY DEF Ready, driverVars, callVars, batchVars, parVars
<1>2. Types'
  <2>1. item \in Nat /\ pos \in Nat /\ TypeOK
    BY <1>0 DEF Types
  <2>2. busy' \in BOOLEAN /\ wp' \in BOOLEAN /\ qe' \in BOOLEAN
    BY <1>1, <2>1 DEF TypeOK
  <2>3. item' \in Nat /\ pos' \in Nat /\ result' \in {"none", "busy", "ok", "error"}
    BY <1>1, <2>1 DEF TypeOK
  <2> QED
    BY <1>0, <1>1, <2>2, <2>3, SameTypes
<1>3. PosInv'
  BY <1>0, <1>1, SamePlace DEF PosInv
<1>4. CallInv' /\ TouchInv' /\ DataInv' /\ PollInv'
  BY <1>0, <1>1, SameCall, SameTouch, SameData, SamePolls
<1>5. QeInv'
  BY <1>0, <1>1, SamePlace DEF QeInv
<1>6. UNCHANGED <<Unit, Setup, Wait, FirstCol, Units, AtUnit>>
  BY <1>1, SamePlace DEF AtUnit
<1>7. ModeInv'
  BY <1>0, <1>1, <1>6 DEF ModeInv
<1>8. ChipInv'
  <2>1. UNCHANGED <<Clean, Good>> /\ \A u : UNCHANGED Done(u)
    BY <1>1 DEF Clean, AllWaited, Good, GoodStatus, Done, And
  <2>2. UNCHANGED AreaOf(FirstCol)
    BY <1>1, <1>6 DEF AreaOf
  <2>3. SpiReadAt => SpiReadAt'
    BY <1>1, <1>6 DEF SpiReadAt
  <2>4. ReadAt => ReadAt'
    BY <1>1, <1>6, <2>2 DEF ReadAt
  <2>5. SpiProgramAt => SpiProgramAt'
    BY <1>1, <1>6, <2>1 DEF SpiProgramAt
  <2>6. ProgramAt => ProgramAt'
    BY <1>1, <1>6, <2>1 DEF ProgramAt
  <2>7. EraseAt => EraseAt'
    BY <1>1, <1>6, <2>1 DEF EraseAt
  <2>8. SpiEraseAt => SpiEraseAt'
    BY <1>1, <1>6, <2>1 DEF SpiEraseAt
  <2>9. At => At'
    BY <1>1, <2>3, <2>4, <2>5, <2>6, <2>7, <2>8 DEF At
  <2> QED
    BY <1>0, <1>1, <1>6, <2>1, <2>9 DEF ChipInv
<1> QED
  BY <1>2, <1>3, <1>4, <1>5, <1>7, <1>8 DEF Inv

\* An operation ends after its last unit.
LEMMA FinishStep ==
  ASSUME Inv, Finish
  PROVE  Inv'
<1>0. Types /\ PosInv /\ CallInv /\ QeInv /\ TouchInv /\ ModeInv /\ ChipInv /\ DataInv /\ PollInv
  BY DEF Inv
<1>1. /\ result = "busy" /\ result' \in {"ok", "error"} /\ item > Units
      /\ pos = IF call.sets THEN 2 ELSE 1
      /\ UNCHANGED <<kind, useRb, needsQe, call, data, polls, ops, cells0, qe0, late, item, pos,
                     cells, busy, fail, reg, wp, wel, qe, mode, area, addr>>
  BY DEF Finish, Units, driverVars, batchVars, chipVars, parVars
<1>2. Types'
  <2>1. item \in Nat /\ pos \in Nat /\ TypeOK
    BY <1>0 DEF Types
  <2>2. busy' \in BOOLEAN /\ wp' \in BOOLEAN /\ qe' \in BOOLEAN
    BY <1>1, <2>1 DEF TypeOK
  <2>3. item' \in Nat /\ pos' \in Nat /\ result' \in {"none", "busy", "ok", "error"}
    BY <1>1, <2>1 DEF TypeOK
  <2> QED
    BY <1>0, <1>1, <2>2, <2>3, SameTypes
<1>3. PosInv'
  <2>1. Units \in Nat
    BY <1>0 DEF Types, Units
  <2>2. item = Units + 1 /\ item \in 1 .. Units + 1
    BY <1>0, <1>1, <2>1 DEF PosInv
  <2>3. Units' = Units /\ item' = item /\ result' # "busy"
    BY <1>1, SamePlace
  <2> QED
    BY <2>2, <2>3 DEF PosInv
<1>4. CallInv' /\ TouchInv' /\ DataInv' /\ PollInv'
  BY <1>0, <1>1, SameCall, SameTouch, SameData, SamePolls
<1>5. QeInv'
  BY <1>0, <1>1, SamePlace DEF QeInv
<1>6. ModeInv'
  <2>1. ~AtUnit
    BY <1>0, <1>1 DEF AtUnit, PosInv, Types, Units
  <2> QED
    BY <1>0, <1>1, <2>1, NoModeNext DEF ModeInv
<1>7. ChipInv'
  BY <1>1 DEF ChipInv
<1> QED
  BY <1>2, <1>3, <1>4, <1>5, <1>6, <1>7 DEF Inv

\* QE is set before the first operation and cleared after the last one.
LEMMA SetFeatureStep ==
  ASSUME Inv, SetFeature
  PROVE  Inv'
<1>0. Types /\ PosInv /\ CallInv /\ QeInv /\ TouchInv /\ ModeInv /\ ChipInv /\ DataInv /\ PollInv
  BY DEF Inv
<1>1. /\ result = "busy" /\ call.sets /\ pos' = pos + 1
      /\ \/ pos = 0 /\ qe' = TRUE
         \/ item > Units /\ pos = 1 /\ qe' = FALSE
      /\ UNCHANGED <<kind, useRb, needsQe, call, data, polls, result, ops, cells0, qe0, late, item,
                     cells, busy, fail, reg, wp, wel, mode, area, addr>>
  BY DEF SetFeature, Units, driverVars, parVars
<1>2. Units \in Nat /\ item \in Nat /\ pos \in Nat /\ Units' = Units /\ item \in 1 .. Units + 1
  BY <1>0, <1>1 DEF Types, Units, PosInv
<1>3. UNCHANGED <<Batch, Unit>>
  BY <1>1, SameUnit
<1>4. Types'
  <2>1. item \in Nat /\ pos \in Nat /\ TypeOK
    BY <1>0 DEF Types
  <2>2. busy' \in BOOLEAN /\ wp' \in BOOLEAN /\ qe' \in BOOLEAN
    BY <1>1, <2>1 DEF TypeOK
  <2>3. item' \in Nat /\ pos' \in Nat
    BY <1>1, <1>2
  <2>4. result' \in {"none", "busy", "ok", "error"}
    BY <1>1, <2>1 DEF TypeOK
  <2> QED
    BY <1>0, <1>1, <2>2, <2>3, <2>4, SameTypes
<1>5. ~AtUnit
  BY <1>1, <1>2 DEF AtUnit
<1>6. PosInv'
  <2>0. Len(Batch) \in 3 .. 6
    BY <1>0, BatchLen
  <2>1. CASE pos = 0
    <3>1. pos' = 1 /\ 1 \in 1 .. Len(Batch)
      BY <1>1, <2>0, <2>1
    <3> QED
      BY <1>1, <1>2, <1>3, <3>1 DEF PosInv
  <2>2. CASE item > Units /\ pos = 1
    <3>1. pos' = 2 /\ ~(item =< Units)
      BY <1>1, <1>2, <2>2
    <3> QED
      BY <1>1, <1>2, <3>1 DEF PosInv
  <2> QED
    BY <1>1, <2>1, <2>2
<1>7. CallInv' /\ DataInv' /\ PollInv'
  BY <1>0, <1>1, SameCall, SameData, SamePolls
<1>8. QeInv'
  <2>1. ~qe0 /\ qe0 \in BOOLEAN
    BY <1>0, <1>1 DEF QeInv, Types, TypeOK
  <2>2. CASE pos = 0
    <3>1. pos' # 0 /\ pos' # 2 /\ qe' = TRUE
      BY <1>1, <1>2, <2>2
    <3> QED
      BY <1>0, <1>1, <3>1 DEF QeInv
  <2>3. CASE item > Units /\ pos = 1
    <3>1. pos # 0
      BY <2>3
    <3>2. qe' = FALSE /\ qe0' = FALSE
      BY <1>1, <2>1, <3>1
    <3>3. pos' = 2 /\ item' > Units'
      BY <1>1, <1>2, <2>3
    <3> QED
      BY <1>0, <1>1, <3>2, <3>3 DEF QeInv
  <2> QED
    BY <1>1, <2>2, <2>3
<1>9. TouchInv'
  <2>0. Len(Batch) \in 3 .. 6
    BY <1>0, BatchLen
  <2>1. \A k \in 1 .. Units : Confirmed(k) => Confirmed(k)'
    <3> SUFFICES ASSUME NEW k \in 1 .. Units, Confirmed(k) PROVE k =< item /\ k # item
      BY <1>1 DEF Confirmed
    <3>1. k =< item /\ (k = item => pos = Len(Batch))
      BY DEF Confirmed
    <3> QED
      BY <1>1, <1>2, <2>0, <3>1
  <2>2. \A k \in 1 .. Units, r \in Row : r \in UnitRows(call.units[k]) => (r \in UnitRows(call.units[k]))'
    BY <1>1 DEF UnitRows
  <2> QED
    BY <1>0, <1>1, <1>2, <2>1, <2>2 DEF TouchInv
<1>10. ModeInv'
  BY <1>0, <1>1, <1>5, NoModeNext DEF ModeInv
<1>11. ChipInv'
  <2> SUFFICES ASSUME Clean', item =< Units PROVE ~busy' /\ At'
    BY <1>1, <1>2 DEF ChipInv, AtUnit
  <2>1. pos = 0 /\ pos' = 1
    BY <1>1, <1>2
  <2>2. Clean
    BY <1>1 DEF Clean, AllWaited
  <2>3. ~busy'
    BY <1>0, <1>1, <1>2, <2>1, <2>2 DEF ChipInv
  <2> QED
    BY <2>1, <2>3, AtFirst
<1> QED
  BY <1>4, <1>6, <1>7, <1>8, <1>9, <1>10, <1>11 DEF Inv

LEMMA IdleStep ==
  ASSUME Inv, UNCHANGED vars
  PROVE  Inv'
<1>0. Types /\ PosInv /\ CallInv /\ QeInv /\ TouchInv /\ ModeInv /\ ChipInv /\ DataInv /\ PollInv
  BY DEF Inv
<1>1. UNCHANGED <<kind, useRb, needsQe, call, data, polls, result, ops, cells0, qe0, late, item, pos,
                  cells, busy, fail, reg, wp, wel, qe, mode, area, addr>>
  BY DEF vars, driverVars, callVars, batchVars, chipVars, parVars
<1>2. Types'
  <2>1. item \in Nat /\ pos \in Nat /\ TypeOK
    BY <1>0 DEF Types
  <2>2. busy' \in BOOLEAN /\ wp' \in BOOLEAN /\ qe' \in BOOLEAN
    BY <1>1, <2>1 DEF TypeOK
  <2>3. item' \in Nat /\ pos' \in Nat /\ result' \in {"none", "busy", "ok", "error"}
    BY <1>1, <2>1 DEF TypeOK
  <2> QED
    BY <1>0, <1>1, <2>2, <2>3, SameTypes
<1>3. PosInv'
  BY <1>0, <1>1, SamePlace DEF PosInv
<1>4. CallInv' /\ TouchInv' /\ DataInv' /\ PollInv'
  BY <1>0, <1>1, SameCall, SameTouch, SameData, SamePolls
<1>5. QeInv'
  BY <1>0, <1>1, SamePlace DEF QeInv
<1>6. UNCHANGED <<Unit, Setup, Wait, FirstCol, Units, AtUnit>>
  BY <1>1, SamePlace DEF AtUnit
<1>7. ModeInv'
  BY <1>0, <1>1, <1>6 DEF ModeInv
<1>8. ChipInv'
  <2>1. UNCHANGED <<Clean, Good>> /\ \A u : UNCHANGED Done(u)
    BY <1>1 DEF Clean, AllWaited, Good, GoodStatus, Done, And
  <2>2. UNCHANGED AreaOf(FirstCol)
    BY <1>1, <1>6 DEF AreaOf
  <2>3. UNCHANGED <<SpiReadAt, ReadAt>>
    BY <1>1, <1>6, <2>2 DEF SpiReadAt, ReadAt
  <2>4. UNCHANGED <<SpiProgramAt, ProgramAt, EraseAt, SpiEraseAt>>
    BY <1>1, <1>6, <2>1 DEF SpiProgramAt, ProgramAt, EraseAt, SpiEraseAt
  <2>5. UNCHANGED At
    BY <1>1, <2>3, <2>4 DEF At
  <2> QED
    BY <1>0, <1>1, <1>6, <2>1, <2>5 DEF ChipInv
<1> QED
  BY <1>2, <1>3, <1>4, <1>5, <1>7, <1>8 DEF Inv

------------------------------------------------------------------------------
(* An operation begins *)

\* A batch has one item or two.
LEMMA OneOrTwo ==
  ASSUME NEW S, NEW s \in Items(S)
  PROVE  /\ s \in Seq(S) /\ Len(s) \in {1, 2}
         /\ \A i \in 1 .. Len(s) : s[i] \in S
<1>1. CASE \E x \in S : s = <<x>>
  BY <1>1
<1>2. CASE s \in S \X S
  <2>1. PICK a \in S, b \in S : s = <<a, b>>
    BY <1>2
  <2> QED
    BY <2>1
<1> QED
  BY <1>1, <1>2 DEF Items

\* The items of a batch are different.
LEMMA Distinct ==
  ASSUME NEW S \in SUBSET Int, NEW s \in Items(S), NEW i \in 1 .. Len(s), NEW j \in 1 .. Len(s), i # j
  PROVE  s[i] # s[j]
<1>1. CASE \E x \in S : s = <<x>>
  BY <1>1
<1>2. CASE s \in S \X S /\ s[2] = s[1] + 1
  <2>0. \A T : s \in T \X T => \E a \in T, b \in T : s = <<a, b>>
    OBVIOUS
  <2>1. PICK a \in S, b \in S : s = <<a, b>>
    BY <1>2, <2>0
  <2>2. s[1] \in Int /\ s[2] # s[1]
    BY <1>2, <2>1
  <2>3. Len(s) = 2
    BY <2>1
  <2>4. (i = 1 /\ j = 2) \/ (i = 2 /\ j = 1)
    BY <2>3
  <2> QED
    BY <2>2, <2>4
<1> QED
  BY <1>1, <1>2 DEF Items

LEMMA FunIsSeq ==
  ASSUME NEW T, NEW m \in Nat, NEW g \in [1 .. m -> T] PROVE g \in Seq(T) /\ Len(g) = m
  BY SeqDef, LenProperties

\* The rows a scan reads are the first two of each block, in the order of the blocks.
LEMMA ScanUnitsAre ==
  ASSUME NEW bs \in Items(Block)
  PROVE  /\ ScanUnits(bs) \in Seq(Row)
         /\ Len(ScanUnits(bs)) = 2 * Len(bs)
         /\ \A i \in 1 .. Len(bs) : /\ ScanUnits(bs)[2 * i - 1] = bs[i] * PPB
                                    /\ ScanUnits(bs)[2 * i] = bs[i] * PPB + 1
<1> DEFINE n == 2 * Len(bs)
           f == [k \in 1 .. n |-> ScanRows(bs[(k + 1) \div 2])[2 - (k % 2)]]
<1>1. bs \in Seq(Block) /\ (Len(bs) = 1 \/ Len(bs) = 2) /\ \A i \in 1 .. Len(bs) : bs[i] \in Block
  BY OneOrTwo
<1>2. n \in Nat /\ ScanUnits(bs) = f
  BY <1>1 DEF ScanUnits
<1>3. \A b : ScanRows(b)[1] = b * PPB /\ ScanRows(b)[2] = b * PPB + 1
  BY DEF ScanRows
<1>4. ASSUME NEW i \in 1 .. Len(bs)
      PROVE  /\ 2 * i - 1 \in 1 .. n /\ 2 * i \in 1 .. n
             /\ (2 * i - 1 + 1) \div 2 = i /\ 2 - ((2 * i - 1) % 2) = 1
             /\ (2 * i + 1) \div 2 = i /\ 2 - ((2 * i) % 2) = 2
  <2>1. i = 1 \/ i = 2
    BY <1>1
  <2>2. (2 * 1 - 1 + 1) \div 2 = 1 /\ 2 - ((2 * 1 - 1) % 2) = 1
        /\ (2 * 1 + 1) \div 2 = 1 /\ 2 - ((2 * 1) % 2) = 2
    OBVIOUS
  <2>3. (2 * 2 - 1 + 1) \div 2 = 2 /\ 2 - ((2 * 2 - 1) % 2) = 1
        /\ (2 * 2 + 1) \div 2 = 2 /\ 2 - ((2 * 2) % 2) = 2
    OBVIOUS
  <2>4. 2 * i - 1 \in 1 .. n /\ 2 * i \in 1 .. n
    BY <1>1
  <2> QED
    BY <2>1, <2>2, <2>3, <2>4
<1>5. ASSUME NEW i \in 1 .. Len(bs)
      PROVE  f[2 * i - 1] = bs[i] * PPB /\ f[2 * i] = bs[i] * PPB + 1
  <2>1. f[2 * i - 1] = ScanRows(bs[i])[1]
    BY <1>4
  <2>2. f[2 * i] = ScanRows(bs[i])[2]
    BY <1>4
  <2> QED
    BY <1>3, <2>1, <2>2
<1>6. ASSUME NEW k \in 1 .. n PROVE f[k] \in Row
  <2>1. PICK i \in 1 .. Len(bs) : k = 2 * i - 1 \/ k = 2 * i
    <3>1. k = 2 * 1 - 1 \/ k = 2 * 1 \/ (Len(bs) = 2 /\ (k = 2 * 2 - 1 \/ k = 2 * 2))
      BY <1>1
    <3>2. 1 \in 1 .. Len(bs)
      BY <1>1
    <3>3. CASE Len(bs) = 2
      BY <3>1, <3>2, <3>3
    <3>4. CASE Len(bs) # 2
      BY <3>1, <3>2, <3>4
    <3> QED
      BY <3>3, <3>4
  <2>2. bs[i] * PPB \in Row /\ bs[i] * PPB + 1 \in Row
    BY <1>1, FirstRow
  <2> QED
    BY <1>5, <2>1, <2>2
<1>7. f \in [1 .. n -> Row]
  BY <1>6
<1>8. f \in Seq(Row) /\ Len(f) = n
  <2>1. n \in Nat
    BY <1>2
  <2> HIDE DEF f, n
  <2> QED
    BY <1>7, <2>1, FunIsSeq
<1> QED
  BY <1>2, <1>5, <1>8

LEMMA BlocksAndRows == Block \in SUBSET Int /\ Row \in SUBSET Int /\ Row \subseteq Nat
  BY NandAssumption DEF Block, Row

LEMMA OneIn == \A n \in 3 .. 6 : 1 \in 1 .. n
  OBVIOUS

\* A new operation finds the chip idle or busy, and knows which (late).
LEMMA StartStep ==
  ASSUME Inv, NEW what \in {"read", "program", "erase", "scan"}, NEW items, NEW units,
         NEW d \in PageData, NEW q \in BOOLEAN, NEW sets \in BOOLEAN,
         Start(what, items, units, d, q, sets),
         units \in Seq(IF what = "erase" THEN Block ELSE Row), Len(units) > 0,
         what # "scan" => units = items,
         what = "scan" =>
           /\ items \in Seq(Block)
           /\ Len(units) = 2 * Len(items)
           /\ \A i \in 1 .. Len(items) : /\ units[2 * i - 1] = items[i] * PPB
                                         /\ units[2 * i] = items[i] * PPB + 1,
         what \in {"program", "erase"} =>
           \A i, j \in 1 .. Len(units) : i # j => units[i] # units[j],
         sets => needsQe /\ ~qe,
         what \in {"read", "program"} /\ q /\ needsQe /\ ~sets => qe
  PROVE  Inv'
<1>0. Types /\ PosInv /\ QeInv /\ ModeInv
  BY DEF Inv
<1>1. /\ result # "busy" /\ ops < MaxOps /\ ops' = ops + 1
      /\ call' = [what |-> what, items |-> items, units |-> units, d |-> d, quad |-> q, sets |-> sets]
      /\ item' = 1 /\ pos' = (IF sets THEN 0 ELSE 1) /\ data' = <<>> /\ polls' = <<>>
      /\ result' = "busy" /\ cells0' = cells /\ qe0' = qe /\ busy' \in {busy, FALSE} /\ late' = busy'
  BY DEF Start
<1>2. UNCHANGED <<kind, useRb, needsQe, cells, fail, reg, wp, wel, qe, mode, area, addr>>
  BY DEF Start, driverVars, parVars
<1>3. /\ call'.what = what /\ call'.items = items /\ call'.units = units /\ call'.d = d
      /\ call'.sets = sets
  BY <1>1
<1>4. call'.quad = q
  BY <1>1
<1>5. Units' = Len(units) /\ Units' \in Nat /\ Units' > 0
  BY <1>3 DEF Units
<1>6. Types'
  <2>0. TypeOK
    BY <1>0 DEF Types
  <2>1. (kind \in Kinds /\ useRb \in BOOLEAN /\ needsQe \in BOOLEAN)'
    BY <1>2, <2>0 DEF TypeOK
  <2>2. (call.what \in {"none", "read", "program", "erase", "scan"} /\ call.d \in PageData)'
    BY <1>3
  <2>3. (ops \in 0 .. MaxOps)'
    <3>1. ops \in 0 .. MaxOps /\ MaxOps \in Nat
      BY <2>0, NandAssumption DEF TypeOK
    <3> QED
      BY <1>1, <3>1
  <2>4. (cells \in [Row -> PageData] /\ cells0 \in [Row -> PageData] /\ reg \in PageData)'
    BY <1>1, <1>2, <2>0 DEF TypeOK
  <2>5. (busy \in BOOLEAN /\ late \in BOOLEAN)'
    BY <1>1, <2>0 DEF TypeOK
  <2>6. (fail \in BOOLEAN /\ wp \in BOOLEAN /\ wel \in BOOLEAN)'
    BY <1>2, <2>0 DEF TypeOK
  <2>7. (qe \in BOOLEAN /\ qe0 \in BOOLEAN)'
    BY <1>1, <1>2, <2>0 DEF TypeOK
  <2>8. (mode \in Modes /\ area \in {"00", "01", "50"} /\ addr \in Col \X Row)'
    BY <1>2, <2>0 DEF TypeOK, Modes
  <2>9. (result \in {"none", "busy", "ok", "error"})'
    BY <1>1
  <2>10. TypeOK'
    BY <2>1, <2>2, <2>3, <2>4, <2>5, <2>6, <2>7, <2>8, <2>9 DEF TypeOK, Modes
  <2>11. (item \in Nat /\ pos \in Nat)'
    BY <1>1
  <2>12. (call.quad \in BOOLEAN)'
    BY <1>4
  <2>13. (call.sets \in BOOLEAN)' /\ (~needsQe => ~call.sets)'
    BY <1>2, <1>3
  <2>14. (call.units \in Seq(IF call.what = "erase" THEN Block ELSE Row))'
    BY <1>3
  <2>15. (data \in Seq(Pieces) /\ polls \in Seq(Polls))'
    BY <1>1
  <2>16. (kind = "spi" => mode = "idle" /\ useRb)'
    BY <1>0, <1>2 DEF Types
  <2> QED
    BY <2>10, <2>11, <2>12, <2>13, <2>14, <2>15, <2>16 DEF Types
<1>7. PosInv'
  <2>1. Len(Batch') \in 3 .. 6
    BY <1>6, NextBatchLen
  <2>2. (item \in 1 .. Units + 1)' /\ ~(item' > Units')
    BY <1>1, <1>5
  <2>3. pos' # 0 => pos' = 1 /\ pos' \in 1 .. Len(Batch')
    <3>1. pos' # 0 => pos' = 1
      BY <1>1
    <3>2. 1 \in 1 .. Len(Batch')
      BY <2>1, OneIn
    <3> QED
      BY <3>1, <3>2
  <2>4. pos' = 0 => call'.sets
    BY <1>1, <1>3
  <2> QED
    BY <1>1, <2>2, <2>3, <2>4 DEF PosInv
<1>8. CallInv'
  <2>1. (call.what \in {"read", "program", "erase"} => call.units = call.items)'
    BY <1>3
  <2>2. (call.what = "scan" =>
           /\ call.items \in Seq(Block)
           /\ Units = 2 * Len(call.items)
           /\ \A i \in 1 .. Len(call.items) :
                /\ call.units[2 * i - 1] = call.items[i] * PPB
                /\ call.units[2 * i] = call.items[i] * PPB + 1)'
    BY <1>3, <1>5
  <2>3. (call.what \in {"program", "erase"} =>
           \A i, j \in 1 .. Units : i # j => call.units[i] # call.units[j])'
    BY <1>3, <1>5
  <2> QED
    BY <1>5, <2>1, <2>2, <2>3 DEF CallInv
<1>9. QeInv'
  <2>1. (call.sets => ~qe0)'
    BY <1>1, <1>3
  <2>2. (call.what \in {"read", "program"} /\ call.quad /\ needsQe /\ ~call.sets => qe0)'
    BY <1>1, <1>2, <1>3, <1>4
  <2>3. ~(call'.sets /\ pos' # 0)
    BY <1>1, <1>3
  <2>4. qe' = qe0'
    BY <1>1, <1>2
  <2> QED
    BY <2>1, <2>2, <2>3, <2>4 DEF QeInv
<1>10. TouchInv'
  BY <1>1, <1>2 DEF TouchInv
<1>11. ModeInv'
  BY <1>0, <1>1, <1>2, NoModeNext DEF ModeInv, AtUnit
<1>12. ChipInv'
  <2> SUFFICES ASSUME Clean' PROVE ~busy' /\ (AtUnit' => At')
    BY DEF ChipInv
  <2>1. ~busy'
    BY <1>1 DEF Clean
  <2>2. AtUnit' => pos' = 1
    BY <1>1 DEF AtUnit
  <2> QED
    BY <2>1, <2>2, AtFirst
<1>13. DataInv'
  BY <1>1 DEF DataInv
<1>14. PollInv'
  BY <1>1 DEF PollInv
<1> QED
  BY <1>6, <1>7, <1>8, <1>9, <1>10, <1>11, <1>12, <1>13, <1>14 DEF Inv

LEMMA SpiOnly == ASSUME NEW q, q \in {FALSE} \cup {kind = "spi"} PROVE q \in BOOLEAN
  OBVIOUS

LEMMA ReadPagesStep ==
  ASSUME Inv, ReadPages
  PROVE  Inv'
<1>1. PICK rows \in Items(Row), q \in {FALSE} \cup {kind = "spi"} :
        Start("read", rows, rows, AllFF, q, SetsQe(q))
  BY DEF ReadPages
<1>2. q \in BOOLEAN /\ SetsQe(q) \in BOOLEAN
  BY SpiOnly DEF SetsQe
<1>3. rows \in Seq(Row) /\ Len(rows) > 0
  BY OneOrTwo
<1>4. (SetsQe(q) => needsQe /\ ~qe) /\ (q /\ needsQe /\ ~SetsQe(q) => qe)
  BY DEF SetsQe
<1> QED
  BY <1>1, <1>2, <1>3, <1>4, FFIsPage, StartStep

LEMMA ProgramPagesStep ==
  ASSUME Inv, ProgramPages
  PROVE  Inv'
<1>1. PICK rows \in Items(Row), d \in DataSet, q \in {FALSE} \cup {kind = "spi"} :
        Start("program", rows, rows, d, q, SetsQe(q))
  BY DEF ProgramPages
<1>2. q \in BOOLEAN /\ SetsQe(q) \in BOOLEAN /\ d \in PageData
  BY SpiOnly, NandAssumption DEF SetsQe
<1>3. rows \in Seq(Row) /\ Len(rows) > 0
  BY OneOrTwo
<1>4. (SetsQe(q) => needsQe /\ ~qe) /\ (q /\ needsQe /\ ~SetsQe(q) => qe)
  BY DEF SetsQe
<1>5. \A i, j \in 1 .. Len(rows) : i # j => rows[i] # rows[j]
  BY BlocksAndRows, Distinct
<1> QED
  BY <1>1, <1>2, <1>3, <1>4, <1>5, StartStep

LEMMA EraseBlocksStep ==
  ASSUME Inv, EraseBlocks
  PROVE  Inv'
<1>1. PICK bs \in Items(Block) : Start("erase", bs, bs, AllFF, FALSE, FALSE)
  BY DEF EraseBlocks
<1>2. bs \in Seq(Block) /\ Len(bs) > 0
  BY OneOrTwo
<1>3. \A i, j \in 1 .. Len(bs) : i # j => bs[i] # bs[j]
  BY BlocksAndRows, Distinct
<1> QED
  BY <1>1, <1>2, <1>3, FFIsPage, StartStep

LEMMA BadBlocksStep ==
  ASSUME Inv, BadBlocks
  PROVE  Inv'
<1>1. PICK bs \in Items(Block), q \in {FALSE, kind = "spi"} :
        Start("scan", bs, ScanUnits(bs), AllFF, q, FALSE)
  BY DEF BadBlocks
<1>2. q \in BOOLEAN
  OBVIOUS
<1>3. bs \in Seq(Block) /\ Len(bs) \in {1, 2}
  BY OneOrTwo
<1>4. Len(ScanUnits(bs)) > 0
  <2>1. Len(ScanUnits(bs)) = 2 * Len(bs)
    BY ScanUnitsAre
  <2>2. Len(bs) = 1 \/ Len(bs) = 2
    BY <1>3
  <2> QED
    BY <2>1, <2>2
<1> QED
  BY <1>1, <1>2, <1>3, <1>4, FFIsPage, ScanUnitsAre, StartStep

------------------------------------------------------------------------------
(* The beginning *)

\* Before the first operation nothing was asked of the chip.
LEMMA InitInv == Init => Inv
<1> SUFFICES ASSUME Init PROVE Inv
  OBVIOUS
<1>1. /\ kind \in Kinds /\ useRb \in BOOLEAN /\ (kind = "spi" => useRb) /\ needsQe \in BOOLEAN
      /\ item = 1 /\ pos = 1 /\ data = <<>> /\ polls = <<>> /\ result = "none" /\ ops = 0
      /\ busy = FALSE /\ fail = FALSE /\ reg = AllFF /\ mode = "idle" /\ area = "00"
      /\ addr = <<0, 0>> /\ wp = FALSE /\ wel = FALSE /\ qe \in BOOLEAN
      /\ cells0 = cells /\ qe0 = qe /\ late = FALSE
  BY DEF Init
<1>2. call = [what |-> "none", items |-> <<>>, units |-> <<>>, d |-> AllFF,
              quad |-> FALSE, sets |-> FALSE]
  BY DEF Init
<1>3. call.what = "none" /\ call.units = <<>> /\ call.d = AllFF /\ call.quad = FALSE /\ call.sets = FALSE
  BY <1>2
<1>4. Units = 0
  BY <1>3 DEF Units
<1>5. Types
  <2>1. cells \in [Row -> PageData]
    <3>1. PICK old \in OldPages : cells = [r \in Row |-> IF r = old.row THEN old.d ELSE AllFF]
      BY DEF Init
    <3>2. old.d \in PageData
      BY NandAssumption
    <3> QED
      BY <3>1, <3>2, FFIsPage
  <2>2. addr \in Col \X Row
    <3>1. 0 \in Block
      BY NandAssumption DEF Block
    <3>2. 0 * PPB \in Row /\ 0 * PPB = 0
      BY <3>1, FirstRow, NandAssumption
    <3> QED
      BY <1>1, <3>2 DEF Col
  <2>3. call.what \in {"none", "read", "program", "erase", "scan"} /\ call.d \in PageData
    BY <1>3, FFIsPage
  <2>4. ops \in 0 .. MaxOps
    BY <1>1, NandAssumption
  <2>5. reg \in PageData /\ cells0 \in [Row -> PageData]
    BY <1>1, <2>1, FFIsPage
  <2>6. TypeOK
    BY <1>1, <2>1, <2>2, <2>3, <2>4, <2>5 DEF TypeOK
  <2>7. call.units \in Seq(IF call.what = "erase" THEN Block ELSE Row)
    BY <1>3
  <2>8. data \in Seq(Pieces) /\ polls \in Seq(Polls)
    BY <1>1
  <2>9. call.quad \in BOOLEAN /\ call.sets \in BOOLEAN /\ ~call.sets
    BY <1>3
  <2>10. kind = "spi" => mode = "idle" /\ useRb
    BY <1>1
  <2>11. item \in Nat /\ pos \in Nat
    BY <1>1
  <2> QED
    BY <2>6, <2>7, <2>8, <2>9, <2>10, <2>11 DEF Types
<1>6. PosInv
  BY <1>1, <1>4 DEF PosInv
<1>7. CallInv
  BY <1>1, <1>3 DEF CallInv
<1>8. QeInv
  BY <1>1, <1>3 DEF QeInv
<1>9. TouchInv
  BY <1>1 DEF TouchInv
<1>10. ModeInv
  BY <1>1 DEF ModeInv
<1>11. ChipInv
  BY <1>1 DEF ChipInv
<1>12. DataInv /\ PollInv
  BY <1>3 DEF DataInv, PollInv
<1> QED
  BY <1>5, <1>6, <1>7, <1>8, <1>9, <1>10, <1>11, <1>12 DEF Inv

------------------------------------------------------------------------------
(* The theorems *)

\* Where the batch is, what the chip is doing at each of its operations, what
\* was read and what was written so far: for every chip (blocks, pages per
\* block), every content, every number of driver operations, and with a chip
\* that may be late, fail or be protected at any point of the batch.
THEOREM NandInvariant == Spec => []Inv
<1>1. Inv /\ [Next]_vars => Inv'
  <2> SUFFICES ASSUME Inv, [Next]_vars PROVE Inv'
    OBVIOUS
  <2>1. CASE ReadPages \/ ProgramPages \/ EraseBlocks \/ BadBlocks
    BY <2>1, ReadPagesStep, ProgramPagesStep, EraseBlocksStep, BadBlocksStep
  <2>2. CASE SetWp \/ Finish \/ SetFeature \/ Ready
    BY <2>2, SetWpStep, FinishStep, SetFeatureStep, ReadyStep
  <2>3. CASE Command \/ Address \/ WriteData \/ ReadData
    BY <2>3, CommandStep, AddressStep, WriteStep, ReadDataStep
  <2>4. CASE WaitRb \/ Poll \/ SpiPollStatus
    BY <2>4, WaitRbStep, PollStep, SpiPollStep
  <2>5. CASE Transaction \/ SpiReadCache
    BY <2>5, TransactionStep, SpiReadStep
  <2>6. CASE UNCHANGED vars
    BY <2>6, IdleStep
  <2> QED
    BY <2>1, <2>2, <2>3, <2>4, <2>5, <2>6 DEF Next
<1> QED
  BY <1>1, InitInv, PTL DEF Spec

\* A row that changed belongs to a unit of the call, and so to an item of it.
LEMMA Named ==
  ASSUME Inv, NEW r \in Row, cells[r] # cells0[r]
  PROVE  r \in Touched
<1>0. Types /\ CallInv /\ TouchInv
  BY DEF Inv
<1>1. PICK k \in 1 .. Units : r \in UnitRows(call.units[k])
  BY <1>0 DEF TouchInv
<1>2. CASE call.what = "program"
  <2>1. k \in DOMAIN call.items /\ r = call.items[k]
    BY <1>0, <1>1, <1>2 DEF CallInv, UnitRows, Units, Types
  <2> QED
    BY <1>2, <2>1 DEF Touched
<1>3. CASE call.what = "erase"
  <2>1. k \in DOMAIN call.items /\ r \in RowsOf(call.items[k])
    BY <1>0, <1>1, <1>3 DEF CallInv, UnitRows, Units, Types
  <2> QED
    BY <1>3, <2>1 DEF Touched
<1> QED
  BY <1>1, <1>2, <1>3 DEF UnitRows

\* While WP# is low a parallel chip keeps every cell of the operation's beginning.
WpInv == result = "busy" /\ kind # "spi" /\ ~wp => cells = cells0

\* A step begins an operation, is between two, or leaves WP# and the history alone;
\* the cells change only in an SPI chip or with WP# high.
LEMMA StepsAtCells ==
  ASSUME Inv, [Next]_vars
  PROVE  \/ cells0' = cells'
         \/ result' # "busy"
         \/ /\ UNCHANGED <<result, kind, wp, cells0>>
            /\ cells' = cells \/ kind = "spi" \/ wp
<1>1. CASE ReadPages \/ ProgramPages \/ EraseBlocks \/ BadBlocks
  <2>1. PICK what, items, units, d, q, sets : Start(what, items, units, d, q, sets)
    BY <1>1 DEF ReadPages, ProgramPages, EraseBlocks, BadBlocks
  <2> QED
    BY <2>1 DEF Start
<1>2. CASE SetWp \/ Finish
  BY <1>2 DEF SetWp, Finish, callVars
<1>3. CASE SetFeature \/ Ready \/ UNCHANGED vars
  BY <1>3 DEF SetFeature, Ready, vars, driverVars, callVars, chipVars
<1>4. CASE Address \/ WriteData \/ WaitRb \/ Poll \/ ReadData \/ SpiPollStatus \/ SpiReadCache
  BY <1>4 DEF Address, WriteData, WaitRb, Poll, ReadData, SpiPollStatus, SpiReadCache,
              Exec, driverVars, chipVars
<1>5. CASE Command
  <2>1. Exec("cmd") /\ wp' = wp /\ (cells' = cells \/ wp)
    BY <1>5 DEF Command, AreaCommand, LoadCommand, SetupCommand, ConfirmCommand
  <2> QED
    BY <2>1 DEF Exec, driverVars
<1>6. CASE Transaction
  <2>1. Types /\ PosInv /\ Exec("spi") /\ wp' = wp
    BY <1>6 DEF Inv, Transaction
  <2>2. kind = "spi"
    BY <2>1, TransactionOf
  <2> QED
    BY <2>1, <2>2 DEF Exec, driverVars
<1> QED
  BY <1>1, <1>2, <1>3, <1>4, <1>5, <1>6 DEF Next

LEMMA WpInvariant == Spec => []WpInv
<1>1. Init => WpInv
  BY DEF Init, WpInv
<1>2. Inv /\ WpInv /\ [Next]_vars => WpInv'
  <2> SUFFICES ASSUME Inv, WpInv, [Next]_vars PROVE WpInv'
    OBVIOUS
  <2> QED
    BY StepsAtCells DEF WpInv
<1> QED
  BY <1>1, <1>2, NandInvariant, PTL DEF Spec

\* An operation of the driver writes only rows it names: no command that a busy
\* chip missed, no failed wait and no leftover of an operation before it can
\* turn into a write of another row or block.  While WP# is low nothing is
\* written, and QE is as the operation found it when its batch is over.
THEOREM OnlyNamedRowsChange == Spec => []OnlyNamedRows
<1>1. Inv /\ WpInv => OnlyNamedRows
  <2> SUFFICES ASSUME Inv, WpInv PROVE OnlyNamedRows
    OBVIOUS
  <2>1. TypeOK /\ QeInv
    BY DEF Inv, Types
  <2>2. \A r \in Row \ Touched : cells[r] = cells0[r]
    BY Named
  <2>3. result # "busy" => qe = qe0
    BY <2>1 DEF QeInv
  <2> QED
    BY <2>1, <2>2, <2>3 DEF OnlyNamedRows, WpInv
<1> QED
  BY <1>1, NandInvariant, WpInvariant, PTL

\* A page or a block that program_pages or erase_blocks reports as good is
\* written or erased, in a batch of several too, unless a wait before it ran out.
THEOREM ReportedIsDone == Spec => []OkMeansDone
<1>1. Inv => OkMeansDone
  <2> SUFFICES ASSUME Inv, call.what \in {"program", "erase"}, result = "ok", ~late,
                      NEW i \in DOMAIN call.items,
                      polls[i].good, \A j \in 1 .. i : polls[j].ok
               PROVE  IF call.what = "program"
                      THEN cells[call.items[i]] = And(cells0[call.items[i]], call.d)
                      ELSE \A r \in RowsOf(call.items[i]) : cells[r] = AllFF
    BY DEF OkMeansDone
  <2>0. Types /\ PosInv /\ CallInv /\ PollInv
    BY DEF Inv
  <2>1. call.units = call.items
    BY <2>0 DEF CallInv
  <2>2. i \in 1 .. item - 1
    <3>1. i \in 1 .. Units /\ Units \in Nat
      BY <2>0, <2>1 DEF Units, Types
    <3>2. item = Units + 1
      BY <2>0 DEF PosInv
    <3> QED
      BY <3>1, <3>2
  <2>3. Done(call.units[i])
    BY <2>0, <2>2 DEF PollInv, Sure
  <2> QED
    BY <2>1, <2>3 DEF Done
<1> QED
  BY <1>1, NandInvariant, PTL

\* What a finished operation read is what the chip held when it began.
LEMMA AllRead ==
  ASSUME Inv, call.what \in {"read", "scan"}, result = "ok", Clean, call.what = "scan" => ~DeafScan
  PROVE  /\ Len(data) = Units /\ data \in Seq(Pieces) /\ Units \in Nat
         /\ \A k \in 1 .. Units : data[k] = Expected(call.units[k])
<1>0. Types /\ PosInv /\ DataInv
  BY DEF Inv
<1>1. Units \in Nat /\ item = Units + 1
  BY <1>0 DEF Types, Units, PosInv
<1>2. item - 1 = Units
  BY <1>1
<1>3. Len(data) = item - 1 /\ \A k \in 1 .. item - 1 : data[k] = Expected(call.units[k])
  BY <1>0 DEF DataInv
<1> QED
  BY <1>0, <1>1, <1>2, <1>3 DEF Types

\* read_pages returns the pages it was asked for, in their order, when no wait
\* ran out and the chip was ready at the beginning: with R/B# or by polling the
\* status, large pages, the three areas of small pages, SPI with one line or four.
THEOREM PagesReadAreTrue == Spec => []DataTrue
<1>1. Inv => DataTrue
  <2> SUFFICES ASSUME Inv, call.what = "read", result = "ok", AllWaited, ~late
               PROVE  data = [i \in DOMAIN call.items |-> Page(call.items[i])]
    BY DEF DataTrue
  <2>1. /\ Len(data) = Units /\ data \in Seq(Pieces) /\ Units \in Nat
        /\ \A k \in 1 .. Units : data[k] = Expected(call.units[k])
    BY AllRead DEF Clean
  <2>2. call.units = call.items /\ DOMAIN call.items = 1 .. Units
    BY DEF Inv, CallInv, Types, Units
  <2>3. \A u : Expected(u) = Page(u)
    <3>1. Width = 3 /\ FirstCol = 0
      BY DEF Width, FirstCol
    <3>2. \A i \in 1 .. 3 : 0 + i - 1 = i - 1
      OBVIOUS
    <3> QED
      BY <3>1, <3>2 DEF Expected, Page
  <2>4. data = [k \in 1 .. Units |-> data[k]]
    BY <2>1
  <2> QED
    BY <2>1, <2>2, <2>3, <2>4
<1> QED
  BY <1>1, NandInvariant, PTL

\* The one byte a scan reads of a page is its marker.
LEMMA Marker ==
  ASSUME Types, call.what = "scan", NEW r \in Row
  PROVE  Expected(r) # <<1>> <=> cells0[r][Spare] = 0
<1>1. Expected(r) = [i \in 1 .. 1 |-> cells0[r][2 + i - 1]]
  BY DEF Expected, Width, FirstCol, Spare
<1>2. Expected(r) = <<cells0[r][2]>>
  <2>1. \A i \in 1 .. 1 : i = 1 /\ 2 + i - 1 = 2
    OBVIOUS
  <2> QED
    BY <1>1, <2>1
<1>3. cells0[r][2] \in {0, 1}
  BY NowTypes, Bits DEF Col
<1> QED
  BY <1>2, <1>3 DEF Spare

\* bad_blocks names a block exactly when the spare area of its first or second
\* page holds a marker, but for scans over four lines of a chip that needs QE for
\* them and has it clear: it is deaf to such a read, and bad_blocks does not set it.
THEOREM MarkersAreSeen == Spec => []MarkersSeen
<1>1. Inv => MarkersSeen
  <2> SUFFICES ASSUME Inv, call.what = "scan", result = "ok", AllWaited, ~late, ~DeafScan,
                      NEW i \in DOMAIN call.items
               PROVE  (\E k \in 1 .. 2 : data[2 * (i - 1) + k] # <<1>>)
                        <=> \E r \in {call.items[i] * PPB, call.items[i] * PPB + 1} : cells0[r][Spare] = 0
    BY DEF MarkersSeen
  <2> DEFINE r1 == call.items[i] * PPB
             r2 == call.items[i] * PPB + 1
  <2>0. Types /\ CallInv
    BY DEF Inv
  <2>1. call.items \in Seq(Block) /\ Units = 2 * Len(call.items)
    BY <2>0 DEF CallInv
  <2>2. i \in 1 .. Len(call.items) /\ Len(call.items) \in Nat /\ call.items[i] \in Block
    BY <2>1
  <2>3. call.units[2 * i - 1] = r1 /\ call.units[2 * i] = r2
    BY <2>0, <2>2 DEF CallInv
  <2>4. r1 \in Row /\ r2 \in Row
    BY <2>2, FirstRow
  <2>5. \A k \in 1 .. Units : data[k] = Expected(call.units[k])
    BY AllRead DEF Clean
  <2>6. /\ 2 * i - 1 \in 1 .. Units /\ 2 * i \in 1 .. Units
        /\ 2 * (i - 1) + 1 = 2 * i - 1 /\ 2 * (i - 1) + 2 = 2 * i
    BY <2>1, <2>2
  <2>7. data[2 * (i - 1) + 1] = Expected(r1) /\ data[2 * (i - 1) + 2] = Expected(r2)
    BY <2>3, <2>5, <2>6
  <2>8. /\ data[2 * (i - 1) + 1] # <<1>> <=> cells0[r1][Spare] = 0
        /\ data[2 * (i - 1) + 2] # <<1>> <=> cells0[r2][Spare] = 0
    BY <2>0, <2>4, <2>7, Marker
  <2>9. \A k \in 1 .. 2 : k = 1 \/ k = 2
    OBVIOUS
  <2> QED
    BY <2>8, <2>9
<1> QED
  BY <1>1, NandInvariant, PTL
===============================================================================
