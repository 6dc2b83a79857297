----------------------------- MODULE NandDriver -----------------------------
(***************************************************************************)
(* The NAND drivers of flash.py (ParallelNand, SpiNand) as the sequences of *)
(* bus operations they send, against the chips of emulator.py (NandModel,  *)
(* SpiNandModel): commands that a busy chip does not hear, waiting for     *)
(* R/B# or for the status, the area commands of small pages, the marker    *)
(* bytes of bad blocks, write protection, and the quad-enable bit.         *)
(*                                                                         *)
(* An action is one operation of the batch, or the chip becoming ready.    *)
(***************************************************************************)
EXTENDS Integers, FiniteSets, Sequences

CONSTANTS
  Blocks, PPB, \* blocks of the chip, pages per block (at least 2)
  DataSet,     \* pages that are written
  OldPages,    \* what one row holds at the beginning: [row, d]
  MaxOps,      \* driver operations, one after the other
  Kinds        \* chips: a subset of {"large", "small", "spi"}

\* A page is the two halves of its main area and its spare area.  Columns count
\* them; a bit is 0 where a byte other than FF is.
Col == 0 .. 2
Spare == 2
PageData == [Col -> {0, 1}]
AllFF == [c \in Col |-> 1]

ASSUME NandAssumption ==
  /\ Blocks \in Nat \ {0}
  /\ PPB \in Nat \ {0, 1}
  /\ DataSet \subseteq PageData
  /\ OldPages \subseteq [row : Nat, d : PageData]
  /\ MaxOps \in Nat
  /\ Kinds \subseteq {"large", "small", "spi"}

Row == 0 .. (Blocks * PPB - 1)
Block == 0 .. (Blocks - 1)
RowsOf(b) == {r \in Row : r \div PPB = b}
NoRow == -1

VARIABLES
  kind,     \* "large", "small": parallel NAND; "spi": SPI NAND
  \* the driver
  useRb,    \* ParallelNand.use_rb
  call,     \* the driver operation: what it does, to which rows or blocks, the
            \* units its batch goes through, data, four lines, and whether the
            \* batch sets and clears QE around them
  item,     \* the unit the batch is at,
  pos,      \* and the operation within it; 0: QE is set first
  data,     \* what its reads returned
  polls,    \* results of its waits
  result,   \* "none", "busy": at work, "ok", "error"
  ops,
  \* both chips
  cells,
  busy,
  fail,     \* the last program or erase failed
  reg,      \* page register, cache
  \* the parallel chip
  mode,     \* what the next bus cycles mean to it; "status data": a status read
            \* that came in between data output, "resume": 00h after that
  area,     \* 00h, 01h or 50h: the pointer of a small-page chip
  addr,     \* column and row of the address cycles
  wp,       \* WP# is high
  \* the SPI chip
  wel,
  qe,       \* feature B0h bit 0
  needsQe,  \* QE_VENDORS: without QE the chip has no four lines
  \* history
  cells0,   \* cells when the operation began
  qe0,
  late      \* the chip was still busy when the operation began

driverVars == <<kind, useRb, needsQe>>
callVars == <<call, data, polls, result, ops, cells0, qe0, late>>
parVars == <<mode, area, addr>>
chipVars == <<cells, busy, fail, reg, wp, wel, qe>>
batchVars == <<item, pos>>
vars == <<driverVars, callVars, batchVars, chipVars, parVars>>

------------------------------------------------------------------------------
(* Bus operations *)
Cmd(c) == [o |-> "cmd", c |-> c]
Addr(c, r) == [o |-> "addr", col |-> c, row |-> r]
Write(d) == [o |-> "write", d |-> d]
Rb == [o |-> "rb"]
PollStatus == [o |-> "poll"]
Read(n) == [o |-> "read", n |-> n]
Spi(c, r, d) == [o |-> "spi", c |-> c, row |-> r, d |-> d]
SpiPoll == [o |-> "spi poll"]
SpiRead(c, n, q) == [o |-> "spi read", col |-> c, n |-> n, quad |-> q]

AreaOf(col) == IF kind # "small" \/ col = 0 THEN "00" ELSE IF col = 1 THEN "01" ELSE "50"

\* Slip: no command after the poll: the chip goes on sending its status.
ReadOpsStatus(col, row, n) ==
  IF kind = "small" THEN
    <<Cmd(AreaOf(col)), Addr(0, row), IF useRb THEN Rb ELSE PollStatus, Read(n)>>
  ELSE <<Cmd("00"), Addr(col, row), Cmd("30"), IF useRb THEN Rb ELSE PollStatus, Read(n)>>

\* _read_ops of ParallelNand: a small page is addressed by area command and
\* column within the area; after a status poll the command is sent again.
ReadOps(col, row, n) ==
  IF kind = "small" THEN
    IF useRb THEN <<Cmd(AreaOf(col)), Addr(0, row), Rb, Read(n)>>
    ELSE <<Cmd(AreaOf(col)), Addr(0, row), PollStatus, Cmd(AreaOf(col)), Read(n)>>
  ELSE
    IF useRb THEN <<Cmd("00"), Addr(col, row), Cmd("30"), Rb, Read(n)>>
    ELSE <<Cmd("00"), Addr(col, row), Cmd("30"), PollStatus, Cmd("00"), Read(n)>>

\* _read_ops of SpiNand.
SpiReadOps(col, row, n, q) == <<Spi("13", row, AllFF), SpiPoll, SpiRead(col, n, q)>>

\* Slip: the area command is left out.
ProgramOpsNoArea(row, d) == <<Cmd("80"), Addr(0, row), Write(d), Cmd("10"), PollStatus>>

\* program_pages, one item.
ProgramOps(row, d) ==
  IF kind = "small"
  THEN <<Cmd("00"), Cmd("80"), Addr(0, row), Write(d), Cmd("10"), PollStatus>>
  ELSE <<Cmd("80"), Addr(0, row), Write(d), Cmd("10"), PollStatus>>

SpiProgramOps(row, d, q) ==
  <<Spi("06", NoRow, AllFF), Spi(IF q THEN "32" ELSE "02", NoRow, d), Spi("10", row, AllFF), SpiPoll>>

\* Slip: the number of the block in place of its first row.
EraseOpsByBlock(b) ==
  IF kind = "spi" THEN <<Spi("06", NoRow, AllFF), Spi("D8", b, AllFF), SpiPoll>>
  ELSE <<Cmd("60"), Addr(0, b), Cmd("D0"), PollStatus>>

\* erase_blocks, one block.
EraseOps(b) ==
  IF kind = "spi" THEN <<Spi("06", NoRow, AllFF), Spi("D8", b * PPB, AllFF), SpiPoll>>
  ELSE <<Cmd("60"), Addr(0, b * PPB), Cmd("D0"), PollStatus>>

\* What the batch does for one unit: a row, or a block to be erased.
UnitOps(u) ==
  LET col == IF call.what = "scan" THEN Spare ELSE 0
      n == IF call.what = "scan" THEN 1 ELSE 3
  IN IF call.what = "erase" THEN EraseOps(u)
     ELSE IF call.what = "program" THEN
       IF kind = "spi" THEN SpiProgramOps(u, call.d, call.quad) ELSE ProgramOps(u, call.d)
     ELSE IF kind = "spi" THEN SpiReadOps(col, u, n, call.quad) ELSE ReadOps(col, u, n)

\* The operations of the present unit, and the one that is next.
Batch == UnitOps(call.units[item])
Now == Batch[pos]

\* Slip: only the first page of a block is looked at.
ScanRowsFirst(b) == <<b * PPB, b * PPB>>

\* bad_blocks: the markers are in the spare bytes of pages 0 and 1.
ScanRows(b) == <<b * PPB, b * PPB + 1>>

------------------------------------------------------------------------------
(* The driver *)

Init ==
  /\ kind \in Kinds
  /\ useRb \in BOOLEAN
  /\ kind = "spi" => useRb
  /\ needsQe \in BOOLEAN
  /\ kind # "spi" => ~needsQe
  /\ call = [what |-> "none", items |-> <<>>, units |-> <<>>, d |-> AllFF,
             quad |-> FALSE, sets |-> FALSE]
  /\ item = 1
  /\ pos = 1
  /\ data = <<>>
  /\ polls = <<>>
  /\ result = "none"
  /\ ops = 0
  /\ \E old \in OldPages : cells = [r \in Row |-> IF r = old.row THEN old.d ELSE AllFF]
  /\ busy = FALSE
  /\ fail = FALSE
  /\ reg = AllFF
  /\ mode = "idle"
  /\ area = "00"
  /\ addr = <<0, 0>>
  /\ wp = FALSE
  /\ wel = FALSE
  /\ qe \in BOOLEAN
  /\ ~needsQe => ~qe
  /\ cells0 = cells
  /\ qe0 = qe
  /\ late = FALSE

\* _bus_check and _bus_end around a batch that uses four lines.
SetsQe(q) == q /\ needsQe /\ ~qe

\* Batches of one item, or of two neighbours.
Items(S) == {<<x>> : x \in S} \cup {s \in S \X S : s[2] = s[1] + 1}

Start(what, items, units, d, q, sets) ==
  /\ result # "busy"
  /\ ops < MaxOps
  /\ ops' = ops + 1
  /\ call' = [what |-> what, items |-> items, units |-> units, d |-> d, quad |-> q, sets |-> sets]
  /\ item' = 1
  /\ pos' = IF sets THEN 0 ELSE 1
  /\ data' = <<>>
  /\ polls' = <<>>
  /\ result' = "busy"
  /\ cells0' = cells
  /\ qe0' = qe
  /\ busy' \in {busy, FALSE}
  /\ late' = busy'
  /\ UNCHANGED <<driverVars, cells, fail, reg, wp, wel, qe, parVars>>

ReadPages ==
  \E rows \in Items(Row), q \in {FALSE} \cup {kind = "spi"} :
    Start("read", rows, rows, AllFF, q, SetsQe(q))

ProgramPages ==
  \E rows \in Items(Row), d \in DataSet, q \in {FALSE} \cup {kind = "spi"} :
    Start("program", rows, rows, d, q, SetsQe(q))

EraseBlocks == \E bs \in Items(Block) : Start("erase", bs, bs, AllFF, FALSE, FALSE)

\* The rows whose spare bytes bad_blocks reads, for all blocks in one batch.
ScanUnits(bs) == [k \in 1 .. 2 * Len(bs) |-> ScanRows(bs[(k + 1) \div 2])[2 - (k % 2)]]

\* bad_blocks reads over the bus that io names; SpiNand's has no _bus_check.
BadBlocks ==
  \E bs \in Items(Block), q \in {FALSE, kind = "spi"} :
    Start("scan", bs, ScanUnits(bs), AllFF, q, FALSE)

\* begin_write and end_write
SetWp ==
  /\ kind # "spi"
  /\ result # "busy"
  /\ wp' = ~wp
  /\ UNCHANGED <<driverVars, callVars, batchVars, cells, busy, fail, reg, wel, qe, parVars>>

AllWaited == \A i \in DOMAIN polls : polls[i].ok

\* The batch is done.  read_pages looks at the waits for R/B#, and at the polls
\* of an SPI chip, but not at the polls that replace R/B#; bad_blocks at none.
Finish ==
  /\ result = "busy"
  /\ item > Len(call.units)
  /\ pos = IF call.sets THEN 2 ELSE 1
  /\ result' = IF call.what = "read" /\ useRb /\ ~AllWaited THEN "error" ELSE "ok"
  /\ UNCHANGED <<driverVars, call, data, polls, ops, cells0, qe0, late, batchVars, chipVars, parVars>>

------------------------------------------------------------------------------
(* The parallel chip *)

Exec(o) ==
  /\ result = "busy"
  /\ item =< Len(call.units)
  /\ pos > 0
  /\ Now.o = o
  /\ IF pos < Len(Batch) THEN item' = item /\ pos' = pos + 1
     ELSE item' = item + 1 /\ pos' = 1
  /\ UNCHANGED <<driverVars, call, result, ops, cells0, qe0, late>>

And(a, b) == [c \in Col |-> IF a[c] = 0 \/ b[c] = 0 THEN 0 ELSE 1]

\* An area command moves column 0 of a small page.
Offset == IF kind # "small" \/ area = "00" THEN 0 ELSE IF area = "01" THEN 1 ELSE 2

Load(col, row) ==
  /\ reg' = cells[row]
  /\ addr' = <<col, row>>
  /\ busy' = TRUE
  /\ mode' = "data"

AreaCommand ==
  /\ Now.c \in {"00", "01", "50"}
  /\ mode' = IF mode = "status data" THEN "resume" ELSE "read_addr"
  /\ area' = Now.c
  /\ UNCHANGED <<cells, busy, fail, reg, addr>>

LoadCommand ==
  /\ Now.c = "30"
  /\ IF mode = "read_addr" THEN Load(addr[1], addr[2]) ELSE UNCHANGED <<busy, reg, mode, addr>>
  /\ UNCHANGED <<cells, fail, area>>

SetupCommand ==
  /\ Now.c \in {"80", "60"}
  /\ mode' = IF Now.c = "80" THEN "prog_addr" ELSE "erase_addr"
  /\ reg' = IF Now.c = "80" THEN AllFF ELSE reg
  /\ UNCHANGED <<cells, busy, fail, area, addr>>

\* 10h and D0h.  With WP# low nothing happens but the time it takes.
ConfirmCommand ==
  /\ Now.c \in {"10", "D0"}
  /\ LET rows == IF Now.c = "10" THEN {addr[2]} ELSE RowsOf(addr[2] \div PPB) IN
     IF mode = (IF Now.c = "10" THEN "prog_data" ELSE "erased_addr")
     THEN /\ fail' \in BOOLEAN
          /\ cells' = IF ~wp \/ fail' THEN cells
                      ELSE [r \in Row |-> IF r \notin rows THEN cells[r]
                                          ELSE IF Now.c = "10" THEN And(cells[r], reg) ELSE AllFF]
          /\ busy' = TRUE
          /\ mode' = "idle"
     ELSE UNCHANGED <<cells, fail, busy, mode>>
  /\ UNCHANGED <<reg, area, addr>>

\* A busy chip hears no command.
Command ==
  /\ Exec("cmd")
  /\ IF busy THEN UNCHANGED <<cells, busy, fail, reg, parVars>>
     ELSE AreaCommand \/ LoadCommand \/ SetupCommand \/ ConfirmCommand
  /\ UNCHANGED <<data, polls, wp, wel, qe>>

\* All address cycles of a command; those of a small-page read start it.
Address ==
  /\ Exec("addr")
  /\ LET col == Now.col + Offset
         row == Now.row
     IN \/ /\ mode \in {"read_addr", "resume"} /\ kind = "small"
           /\ Load(col, row)
        \/ /\ ~(mode \in {"read_addr", "resume"} /\ kind = "small")
           /\ IF mode \in {"read_addr", "resume", "prog_addr", "erase_addr"}
              THEN addr' = <<col, row>> ELSE UNCHANGED addr
           /\ mode' = IF mode = "prog_addr" THEN "prog_data"
                      ELSE IF mode = "erase_addr" THEN "erased_addr"
                      ELSE IF mode = "resume" THEN "read_addr"
                      ELSE mode
           /\ UNCHANGED <<reg, busy>>
  /\ UNCHANGED <<data, polls, cells, fail, wp, wel, qe, area>>

\* Data that goes beyond the page is dropped.
WriteData ==
  /\ Exec("write")
  /\ reg' = IF mode = "prog_data"
            THEN [c \in Col |-> IF addr[1] =< c THEN Now.d[c - addr[1]] ELSE reg[c]]
            ELSE reg
  /\ UNCHANGED <<data, polls, cells, busy, fail, wp, wel, qe, parVars>>

\* A wait ends when the chip is ready, or runs out while it is busy.
Waited(st) ==
  \/ /\ busy' = FALSE
     /\ polls' = Append(polls, [ok |-> TRUE, good |-> st])
  \/ /\ busy
     /\ polls' = Append(polls, [ok |-> FALSE, good |-> FALSE])
     /\ UNCHANGED busy

WaitRb ==
  /\ Exec("rb")
  /\ Waited(TRUE)
  /\ UNCHANGED <<data, cells, fail, reg, wp, wel, qe, parVars>>

\* _check: bit 7 and bit 0.
GoodStatus == wp /\ ~fail

Poll ==
  /\ Exec("poll")
  /\ Waited(GoodStatus)
  /\ mode' = IF mode \in {"data", "status data"} THEN "status data" ELSE "status"
  /\ UNCHANGED <<data, cells, fail, reg, wp, wel, qe, area, addr>>

\* A status byte is not FF.
ReadData ==
  /\ Exec("read")
  /\ data' = Append(data,
       [i \in 1 .. Now.n |->
          IF mode \in {"status", "status data"} THEN 0
          ELSE IF busy \/ mode \notin {"data", "resume"} \/ addr[1] + i - 1 \notin Col THEN 1
          ELSE reg[addr[1] + i - 1]])
  /\ mode' = IF mode = "resume" THEN "data" ELSE mode
  /\ UNCHANGED <<polls, cells, busy, fail, reg, wp, wel, qe, area, addr>>

------------------------------------------------------------------------------
(* The SPI chip *)

QuadDeaf(q) == q /\ needsQe /\ ~qe

Transaction ==
  /\ Exec("spi")
  /\ LET t == Now IN
     \/ /\ busy
        /\ UNCHANGED <<cells, busy, fail, reg, wel>>
     \/ /\ ~busy /\ t.c = "06"
        /\ wel' = TRUE
        /\ UNCHANGED <<cells, busy, fail, reg>>
     \/ /\ ~busy /\ t.c = "13"
        /\ reg' = cells[t.row]
        /\ busy' = TRUE
        /\ UNCHANGED <<cells, fail, wel>>
     \/ /\ ~busy /\ t.c \in {"02", "32"}
        /\ reg' = IF QuadDeaf(t.c = "32") THEN reg ELSE t.d
        /\ UNCHANGED <<cells, busy, fail, wel>>
     \/ /\ ~busy /\ t.c \in {"10", "D8"}
        /\ fail' \in {TRUE, ~wel}
        /\ cells' = IF fail' THEN cells
                    ELSE IF t.c = "10" THEN [cells EXCEPT ![t.row] = And(@, reg)]
                    ELSE [r \in Row |-> IF r \in RowsOf(t.row \div PPB) THEN AllFF ELSE cells[r]]
        /\ wel' = FALSE
        /\ busy' = TRUE
        /\ UNCHANGED reg
  /\ UNCHANGED <<data, polls, wp, qe, parVars>>

SpiPollStatus ==
  /\ Exec("spi poll")
  /\ Waited(~fail)
  /\ UNCHANGED <<data, cells, fail, reg, wp, wel, qe, parVars>>

SpiReadCache ==
  /\ Exec("spi read")
  /\ LET t == Now IN
     data' = Append(data, [i \in 1 .. t.n |-> IF busy \/ QuadDeaf(t.quad) THEN 1 ELSE reg[t.col + i - 1]])
  /\ UNCHANGED <<polls, chipVars, parVars>>

\* set_feature is heard at any time.
SetFeature ==
  /\ result = "busy"
  /\ call.sets
  /\ \/ pos = 0 /\ qe' = TRUE
     \/ item > Len(call.units) /\ pos = 1 /\ qe' = FALSE
  /\ pos' = pos + 1
  /\ UNCHANGED <<driverVars, call, item, result, ops, cells0, qe0, late, data, polls, cells, busy, fail, reg, wp, wel, parVars>>

------------------------------------------------------------------------------
Ready ==
  /\ result = "busy"
  /\ busy
  /\ busy' = FALSE
  /\ UNCHANGED <<driverVars, callVars, batchVars, cells, fail, reg, wp, wel, qe, parVars>>

Next ==
  \/ ReadPages \/ ProgramPages \/ EraseBlocks \/ BadBlocks \/ SetWp \/ Finish
  \/ Command \/ Address \/ WriteData \/ WaitRb \/ Poll \/ ReadData
  \/ Transaction \/ SpiPollStatus \/ SpiReadCache \/ SetFeature \/ Ready

Spec == Init /\ [][Next]_vars

------------------------------------------------------------------------------
TypeOK ==
  /\ kind \in Kinds /\ useRb \in BOOLEAN /\ needsQe \in BOOLEAN
  /\ call.what \in {"none", "read", "program", "erase", "scan"} /\ call.d \in PageData
  /\ result \in {"none", "busy", "ok", "error"}
  /\ ops \in 0 .. MaxOps
  /\ cells \in [Row -> PageData] /\ cells0 \in [Row -> PageData]
  /\ busy \in BOOLEAN /\ fail \in BOOLEAN /\ wp \in BOOLEAN
  /\ reg \in PageData
  /\ mode \in {"idle", "read_addr", "resume", "prog_addr", "prog_data", "erase_addr",
               "erased_addr", "data", "status", "status data"}
  /\ area \in {"00", "01", "50"}
  /\ addr \in Col \X Row
  /\ wel \in BOOLEAN /\ qe \in BOOLEAN /\ qe0 \in BOOLEAN /\ late \in BOOLEAN

Page(r) == [i \in 1 .. 3 |-> cells0[r][i - 1]]

\* Pages that are read without an error are what the chip holds.  Two cases
\* are not noticed: a status poll that ran out in place of R/B#, and a chip that
\* is still busy with what the operation before it started.
DataTrue ==
  call.what = "read" /\ result = "ok" /\ AllWaited /\ ~late =>
    data = [i \in DOMAIN call.items |-> Page(call.items[i])]

\* An item that is reported as done is done, in a batch of several too, as long
\* as no wait before it ran out.
OkMeansDone ==
  call.what \in {"program", "erase"} /\ result = "ok" /\ ~late =>
    \A i \in DOMAIN call.items :
      polls[i].good /\ (\A j \in 1 .. i : polls[j].ok) =>
        IF call.what = "program" THEN cells[call.items[i]] = And(cells0[call.items[i]], call.d)
        ELSE \A r \in RowsOf(call.items[i]) : cells[r] = AllFF

Touched ==
  LET named == {call.items[i] : i \in DOMAIN call.items}
  IN IF call.what = "program" THEN named
     ELSE IF call.what = "erase" THEN UNION {RowsOf(b) : b \in named}
     ELSE {}

\* Whatever is busy, late, failing or protected: an operation changes no row
\* but those it names, nothing while WP# is low, and QE only while it works.
OnlyNamedRows ==
  /\ TypeOK
  /\ \A r \in Row \ Touched : cells[r] = cells0[r]
  /\ result = "busy" /\ kind # "spi" /\ ~wp => cells = cells0
  /\ result # "busy" => qe = qe0

\* bad_blocks reads over the lines of the driver, but never sets QE: a chip that
\* needs it for four lines is deaf to such a scan, and no block looks bad.
DeafScan == call.quad /\ needsQe /\ ~qe0

\* bad_blocks finds exactly the blocks with a marker in one of their first two
\* pages, unless it scans over four lines a chip that wants QE for them and has
\* it clear.
MarkersSeen ==
  call.what = "scan" /\ result = "ok" /\ AllWaited /\ ~late /\ ~DeafScan =>
    \A i \in DOMAIN call.items :
      (\E k \in 1 .. 2 : data[2 * (i - 1) + k] # <<1>>)
        <=> \E r \in {call.items[i] * PPB, call.items[i] * PPB + 1} : cells0[r][Spare] = 0
==============================================================================
