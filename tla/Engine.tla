-------------------------------- MODULE Engine --------------------------------
(***************************************************************************)
(* The gateware's engine (engine.v) between its two FIFOs and its two bus  *)
(* masters: it takes operations out of the receive FIFO, executes them in  *)
(* order and pushes their replies into the transmit FIFO, which a UART     *)
(* empties.  One step is one clock of the whole circuit: every component   *)
(* computes its next registers from the present ones.                      *)
(*                                                                         *)
(* The host sends a program, a sequence of operations encoded as           *)
(* protocol.py does; a byte is <<i, k>>, byte k of operation i, in both    *)
(* directions.  The link may lose the rest of an operation; the host is    *)
(* then silent until the engine has given it up.                           *)
(*                                                                         *)
(* The rate watchdog is left to BaudSwitch, overflow of the receive FIFO   *)
(* to DeviceRun; the FT232H phase and its watchdog, and what INFO and the  *)
(* pin test say, are left out.                                             *)
(* S_GETB, S_BAUD_ACK and the states named *2 and *0 that the code         *)
(* declares and never enters are left out.                                 *)
(***************************************************************************)
EXTENDS Integers, Sequences

CONSTANTS
  Programs,    \* what the host may send: sequences of operations
  Registers,   \* the timing registers at the start, a set of records
  RxDepth,     \* 1 << RX_AW
  TxDepth,     \* 1 << TX_AW
  Slack,       \* tx_room asks for at least this much room, 16 in the top module
  RestClocks,  \* longest silence inside an operation that is not cut
  UartClocks,  \* how long the UART may need for a byte
  RbClocks,    \* longest time the NAND chip keeps R/B# low
  IbClocks,    \* IB_TIMEOUT, in clocks
  TmoClocks,   \* time limit of a wait or a poll, in clocks
  CountMax     \* where counters of clocks saturate

InfoLen == 16
CsMinHigh == 4        \* CS_MIN_HIGH
PtSettle == 4         \* PT_SETTLE, 10 us
\* Slip: no time for the acknowledge to enter the transmit FIFO.
AckClocksNone == 0
AckClocks == 16       \* wcnt of OP_SET_BAUD

StatusCmd == <<0, 112>>
FF == <<0, 255>>

\* An operation: [op, n: data, address or command bytes or the switch of ce and
\* cs, w: width code, rd: reads, reg and val: of set_reg, sent: bytes of it that
\* are not lost].
FixedArgs ==
  [nop |-> 0, echo |-> 1, info |-> 0, setReg |-> 3, delay |-> 2, setBaud |-> 2,
   getPins |-> 0, pinTest |-> 2, ce |-> 1, cmd |-> 1, addr |-> 1, write |-> 2, read |-> 2,
   wait |-> 2, poll |-> 4, cs |-> 1, spiWrite |-> 2, spiRead |-> 2, xfer |-> 2,
   spiPoll |-> 1, read4 |-> 2, wide |-> 3]
Known == DOMAIN FixedArgs

------------------------------------------------------------------------------
(* The host's side of an operation, from protocol.py. *)

\* Bytes of it.
HostLen(o) ==
  CASE o.op \in {"nop", "info", "getPins", "unknown"} -> 1
    [] o.op \in {"echo", "ce", "cmd", "cs"} -> 2
    [] o.op \in {"delay", "setBaud", "pinTest", "read", "wait", "spiRead", "read4"} -> 3
    [] o.op = "setReg" -> 4
    [] o.op = "poll" -> 5
    [] o.op = "addr" -> 2 + o.n
    [] o.op \in {"write", "spiWrite", "xfer"} -> 3 + o.n
    [] o.op = "wide" -> IF o.rd THEN 4 ELSE 4 + o.n
    [] o.op = "spiPoll" -> 6 + o.n

\* rlen, and the acknowledge of SET_BAUD that _try_baud reads.
HostReply(o) ==
  CASE o.op \in {"echo", "setBaud", "wait"} -> 1
    [] o.op \in {"getPins", "poll", "spiPoll"} -> 2
    [] o.op = "pinTest" -> 3
    [] o.op = "info" -> InfoLen
    [] o.op \in {"read", "spiRead", "xfer", "read4"} -> o.n
    [] o.op = "wide" /\ o.rd -> o.n
    [] OTHER -> 0

IsCut(o) == o.sent < HostLen(o)

\* The host says nothing more before the engine is done with such an operation.
Pauses(o) == IsCut(o) \/ o.op = "setBaud"

------------------------------------------------------------------------------
VARIABLES
  prog,    \* the program
  e,       \* the engine's registers
  nb, sp,  \* the bus masters'
  rxf, txf,\* the FIFOs'
  rxw,     \* the byte the link writes in this clock
  link,    \* the next byte to come from the host, and the silence before it
  utx,     \* the UART that empties the transmit FIFO
  chip,    \* R/B# of the NAND chip, and its way through the synchroniser
  seen     \* what an observer of the pins and of the link has counted

vars == <<prog, e, nb, sp, rxf, txf, rxw, link, utx, chip, seen>>

Rx == INSTANCE Fifo8 WITH Depth <- RxDepth, NoByte <- <<0, 0>>,
        wr <- rxw.wr, din <- rxw.din, rd <- e.rxPop, f <- rxf
Tx == INSTANCE Fifo8 WITH Depth <- TxDepth, NoByte <- <<0, 0>>,
        wr <- e.txPush, din <- e.txData, rd <- utx.pop, f <- txf

\* Slip: a burst goes on until the FIFO is full.
RoomUntilFull == ~Tx!Full
txRoom == Tx!Level < TxDepth - Slack
txFull == Tx!Full
utxBusy == utx.left > 0
txDrained == ~txf.valid /\ Tx!Level = 0 /\ ~utxBusy /\ ~utx.start

\* Both chips present the number of the byte they are read for.
Nand == INSTANCE NandBus WITH t <- e.reg, req <- e.nbReq, kind <- e.nbKind, wdata <- e.nbData,
          ioIn <- seen.cycles - 1, SinceMax <- CountMax
Spi == INSTANCE SpiMaster WITH div <- e.reg.div, late <- e.reg.late, req <- e.spReq,
         tx <- e.spTx, width <- e.spWidth, lines <- seen.cycles

Op == prog[e.cur]

EngineReset(r) ==
  [st |-> "FETCH", ret |-> "FETCH", cur |-> 0, argn |-> 0, argc |-> 0, len |-> 0,
   rleft |-> 0, idx |-> 0, rxPop |-> FALSE, txPush |-> FALSE, txData |-> <<0, 0>>,
   nbReq |-> FALSE, nbKind |-> "cmd", nbData |-> <<0, 0>>, spReq |-> FALSE, spWidth |-> 0,
   spTx |-> FF, ce |-> FALSE, cs |-> FALSE, qin |-> FALSE, qout |-> 0, csGap |-> 0,
   wcnt |-> 0, tmo |-> 0, ib |-> 0, flags |-> {}, rate |-> 0, reg |-> r]

Init ==
  /\ prog \in Programs
  /\ \E r \in Registers : e = EngineReset(r)
  /\ nb = Nand!Reset
  /\ sp = Spi!Reset
  /\ rxf = Rx!Empty
  /\ txf = Tx!Empty
  /\ rxw = [wr |-> FALSE, din |-> <<0, 0>>]
  /\ link = [i |-> 1, k |-> 0, rest |-> 0]
  /\ utx = [start |-> FALSE, pop |-> FALSE, left |-> 0]
  /\ chip = [st |-> "ready", age |-> 0, rb1 |-> TRUE, rb |-> TRUE]
  /\ seen = [cycles |-> 0, bits |-> 0, outs |-> 0, ended |-> 0, tail |-> <<0, 0>>,
             kind |-> "none", steady |-> CountMax, strobe |-> 0, weUp |-> CountMax,
             reUp |-> CountMax, csHigh |-> CountMax, sckSame |-> CountMax]

------------------------------------------------------------------------------
(* The engine.  Each state is an action; Tick is what every clock does. *)

\* Slip: the byte that is already being taken is taken again.
CanPopTwice == rxf.valid
CanPop == rxf.valid /\ ~e.rxPop

\* waiting_input
WaitingInput == e.st = "ARGS" \/ (e.st \in {"NW", "SW", "SX"} /\ e.len # 0)

\* Slip: the gap runs down while the chip is selected.
TickGapSelected ==
  [e EXCEPT !.rxPop = FALSE,
            !.txPush = FALSE,
            !.csGap = IF @ # 0 /\ e.cs THEN @ - 1 ELSE @,
            !.tmo = IF @ < TmoClocks THEN @ + 1 ELSE @,
            !.ib = IF WaitingInput /\ ~rxf.valid THEN @ + 1 ELSE 0]

Tick ==
  [e EXCEPT !.rxPop = FALSE,
            !.txPush = FALSE,
            !.csGap = IF @ # 0 /\ ~e.cs THEN @ - 1 ELSE @,
            !.tmo = IF @ < TmoClocks THEN @ + 1 ELSE @,
            !.ib = IF WaitingInput /\ ~rxf.valid THEN @ + 1 ELSE 0]

Goto(s) == e' = [Tick EXCEPT !.st = s]

\* An operation whose bytes stop coming is given up.
Aborts == WaitingInput /\ e.ib >= IbClocks

\* Slip: the chip stays selected.
AbortSelected ==
  e' = [Tick EXCEPT !.flags = @ \cup {"timeout"}, !.ce = FALSE,
                    !.qin = FALSE, !.qout = 0, !.nbReq = FALSE, !.spReq = FALSE,
                    !.csGap = CsMinHigh, !.ib = 0, !.st = "FETCH"]

Abort ==
  e' = [Tick EXCEPT !.flags = @ \cup {"timeout"}, !.ce = FALSE, !.cs = FALSE,
                    !.qin = FALSE, !.qout = 0, !.nbReq = FALSE, !.spReq = FALSE,
                    !.csGap = CsMinHigh, !.ib = 0, !.st = "FETCH"]

\* Only the first byte of an operation is an opcode; any other is read as if it
\* were none of them.
Fetch ==
  /\ e.st = "FETCH"
  /\ IF ~CanPop THEN Goto("FETCH")
     ELSE LET i == rxf.dout[1]
              known == rxf.dout[2] = 0 /\ prog[i].op \in Known
              n == IF known THEN FixedArgs[prog[i].op] ELSE 0
          IN  e' = [Tick EXCEPT !.rxPop = TRUE, !.cur = i, !.argn = 0, !.argc = n,
                                !.flags = IF known THEN @ ELSE @ \cup {"opcode"},
                                !.st = IF ~known THEN "FETCH" ELSE IF n # 0 THEN "ARGS" ELSE "EXEC"]

\* ADDR and SPI_POLL say with their first byte how many follow.
Args ==
  /\ e.st = "ARGS"
  /\ IF ~CanPop THEN Goto("ARGS")
     ELSE LET first == e.argn = 0
              more == CASE Op.op = "addr" -> 1 [] Op.op = "spiPoll" -> 5 [] OTHER -> 0
              bad == Op.n = 0 \/ Op.n > (IF Op.op = "addr" THEN 8 ELSE 4)
              popped == [Tick EXCEPT !.rxPop = TRUE, !.argn = @ + 1]
          IN  e' = IF first /\ more > 0
                   THEN IF bad THEN [popped EXCEPT !.flags = @ \cup {"opcode"}, !.st = "FETCH"]
                               ELSE [popped EXCEPT !.argc = more + Op.n]
                   ELSE IF e.argn + 1 = e.argc THEN [popped EXCEPT !.st = "EXEC"]
                   ELSE popped

\* What S_EXEC sets for every operation.
\* Slip: lines of a wide write stay driven.
StartedDriving ==
  [Tick EXCEPT !.len = Op.n, !.rleft = Op.n, !.idx = 0, !.tmo = 0, !.spWidth = 0,
               !.spTx = FF]
Started ==
  [Tick EXCEPT !.len = Op.n, !.rleft = Op.n, !.idx = 0, !.tmo = 0, !.spWidth = 0,
               !.qout = 0, !.spTx = FF]

\* A reply byte, the k-th of the operation, and the state after it.
Replying(x, k, s) == [x EXCEPT !.txData = <<e.cur, k>>, !.ret = s, !.st = "PUSH"]

Exec ==
  /\ e.st = "EXEC"
  /\ e' = CASE Op.op = "echo" -> Replying(Started, 0, "DONE")
            [] Op.op = "info" -> [Started EXCEPT !.st = "INFO"]
            [] Op.op = "setReg" /\ Op.reg \in DOMAIN e.reg ->
                 [Started EXCEPT !.reg[Op.reg] = Op.val, !.st = "DONE"]
            [] Op.op = "setReg" /\ Op.reg \notin DOMAIN e.reg ->
                 [Started EXCEPT !.flags = @ \cup {"opcode"}, !.st = "DONE"]
            [] Op.op = "delay" -> [Started EXCEPT !.st = "DELAY"]
            [] Op.op = "setBaud" ->
                 [Replying(Started, 0, "BAUD_SW") EXCEPT !.wcnt = AckClocks]
            [] Op.op = "getPins" -> Replying(Started, 0, "PINS2")
            [] Op.op = "pinTest" -> [Started EXCEPT !.len = PtSettle, !.st = "PT"]
            [] Op.op = "ce" -> [Started EXCEPT !.ce = (Op.n = 1), !.st = "DONE"]
            [] Op.op = "cmd" ->
                 [Started EXCEPT !.nbKind = "cmd", !.nbData = <<e.cur, 1>>, !.ret = "DONE",
                                 !.st = "NAND"]
            [] Op.op = "addr" -> [Started EXCEPT !.st = "ADDR"]
            [] Op.op = "write" -> [Started EXCEPT !.nbKind = "wr", !.st = "NW"]
            [] Op.op = "read" -> [Started EXCEPT !.nbKind = "rd", !.st = "NR"]
            [] Op.op = "wait" -> [Started EXCEPT !.wcnt = e.reg.wb, !.st = "WRB0"]
            [] Op.op = "poll" ->
                 [Started EXCEPT !.nbKind = "cmd", !.nbData = StatusCmd, !.ret = "PS",
                                 !.st = "NAND"]
            [] Op.op = "cs" /\ Op.n = 1 -> [Started EXCEPT !.st = "CS_ON"]
            [] Op.op = "cs" /\ Op.n # 1 ->
                 [Started EXCEPT !.cs = FALSE, !.qin = FALSE, !.csGap = CsMinHigh, !.st = "DONE"]
            [] Op.op = "spiWrite" -> [Started EXCEPT !.st = "SW"]
            [] Op.op = "spiRead" -> [Started EXCEPT !.st = "SR"]
            [] Op.op = "read4" -> [Started EXCEPT !.spWidth = 2, !.qin = TRUE, !.st = "SR"]
            [] Op.op = "wide" /\ Op.rd ->
                 [Started EXCEPT !.spWidth = Op.w, !.qin = (Op.w # 0), !.st = "SR"]
            [] Op.op = "wide" /\ ~Op.rd ->
                 [Started EXCEPT !.spWidth = Op.w, !.qout = Op.w, !.st = "SW"]
            [] Op.op = "xfer" -> [Started EXCEPT !.st = "SX"]
            [] Op.op = "spiPoll" -> [Started EXCEPT !.st = "SP_CS"]
            [] OTHER -> [Started EXCEPT !.st = "DONE"]

Done ==
  /\ e.st = "DONE"
  /\ Goto("FETCH")

Push ==
  /\ e.st = "PUSH"
  /\ e' = IF txFull THEN Tick ELSE [Tick EXCEPT !.txPush = TRUE, !.st = e.ret]

\* One bus cycle; back when it is complete.
NandStart ==
  /\ e.st = "NAND"
  /\ e' = [Tick EXCEPT !.nbReq = TRUE, !.st = "NAND_W"]

\* Slip: back as soon as the cycle has begun.
NandWaitNot ==
  /\ e.st = "NAND_W"
  /\ e' = IF nb.ack THEN [Tick EXCEPT !.nbReq = FALSE, !.st = e.ret] ELSE Tick

NandWait ==
  /\ e.st = "NAND_W"
  /\ e' = IF nb.ack THEN [Tick EXCEPT !.nbReq = FALSE]
          ELSE IF ~e.nbReq /\ ~nb.busy THEN [Tick EXCEPT !.st = e.ret]
          ELSE Tick

\* One SPI byte; back when it has been received.
SpiStart ==
  /\ e.st = "SPI"
  /\ e' = [Tick EXCEPT !.spReq = TRUE, !.st = "SPI_W"]

SpiWait ==
  /\ e.st = "SPI_W"
  /\ e' = [Tick EXCEPT !.spReq = @ /\ ~sp.ack, !.st = IF sp.rvalid THEN e.ret ELSE @]

\* INFO, 16 bytes; the flags are told and forgotten.
Info ==
  /\ e.st = "INFO"
  /\ e' = Replying(Tick, e.idx, "INFO2")

Info2 ==
  /\ e.st = "INFO2"
  /\ e' = IF e.idx = InfoLen - 1 THEN [Tick EXCEPT !.flags = {}, !.st = "DONE"]
                                 ELSE [Tick EXCEPT !.idx = @ + 1, !.st = "INFO"]

\* A microsecond is a clock.
Delay ==
  /\ e.st = "DELAY"
  /\ e' = IF e.len = 0 THEN [Tick EXCEPT !.st = "DONE"] ELSE [Tick EXCEPT !.len = @ - 1]

\* The acknowledge leaves at the old rate.
BaudSwitch ==
  /\ e.st = "BAUD_SW"
  /\ e' = IF e.wcnt # 0 THEN [Tick EXCEPT !.wcnt = @ - 1]
          ELSE IF txDrained THEN [Tick EXCEPT !.rate = @ + 1, !.st = "FETCH"]
          ELSE Tick

PinTest ==
  /\ e.st = "PT"
  /\ e' = IF e.len = 0 THEN [Tick EXCEPT !.idx = 0, !.st = "PT2"] ELSE [Tick EXCEPT !.len = @ - 1]

PinTest2 ==
  /\ e.st = "PT2"
  /\ e' = IF e.idx = 3 THEN [Tick EXCEPT !.st = "DONE"]
                       ELSE Replying([Tick EXCEPT !.idx = @ + 1], e.idx, "PT2")

Pins2 ==
  /\ e.st = "PINS2"
  /\ e' = Replying(Tick, 1, "DONE")

Addr ==
  /\ e.st = "ADDR"
  /\ e' = IF e.idx = Op.n THEN [Tick EXCEPT !.st = "DONE"]
          ELSE [Tick EXCEPT !.nbKind = "addr", !.nbData = <<e.cur, e.idx + 2>>, !.idx = @ + 1,
                            !.ret = "ADDR", !.st = "NAND"]

\* Burst write: bytes go from the receive FIFO straight to the bus.
NandWrite ==
  /\ e.st = "NW"
  /\ LET takes == (~e.nbReq \/ nb.ack) /\ e.len # 0 /\ CanPop
         over == e.len = 0 /\ ~e.nbReq /\ ~nb.busy
     IN  e' = [Tick EXCEPT !.nbReq = takes \/ (@ /\ ~nb.ack),
                           !.rxPop = takes,
                           !.nbData = IF takes THEN rxf.dout ELSE @,
                           !.len = IF takes THEN @ - 1 ELSE @,
                           !.st = IF over THEN "DONE" ELSE @]

\* A byte of a burst read, number d of those asked for, goes to the host.
Received(x, d) == [x EXCEPT !.txPush = TRUE, !.txData = <<e.cur, d>>, !.rleft = @ - 1]

\* The request of a burst read after this clock, given the acknowledge of it.
\* Slip: it is kept for one cycle too many.
StillAskingLong(req, ack) ==
  IF ack THEN req /\ e.len # 0 /\ txRoom ELSE req \/ (e.len # 0 /\ txRoom)
StillAsking(req, ack) ==
  IF ack THEN req /\ e.len # 1 /\ txRoom ELSE req \/ (e.len # 0 /\ txRoom)

\* Burst read: cycles follow each other while the transmit FIFO has room.
NandRead ==
  /\ e.st = "NR"
  /\ LET x == IF nb.rvalid THEN Received(Tick, nb.rdata) ELSE Tick
     IN  e' = [x EXCEPT !.len = IF nb.ack THEN @ - 1 ELSE @,
                        !.nbReq = StillAsking(@, nb.ack),
                        !.st = IF e.rleft = 0 THEN "DONE" ELSE @]

\* The chip gets t_wb to pull R/B# low before it is looked at.
\* Slip: R/B# is looked at without waiting.
WaitRb0Skipped ==
  /\ e.st = "WRB0"
  /\ e' = [Tick EXCEPT !.tmo = 0, !.st = "WRB"]
WaitRb0 ==
  /\ e.st = "WRB0"
  /\ e' = IF e.wcnt = 0 THEN [Tick EXCEPT !.tmo = 0, !.st = "WRB"]
                        ELSE [Tick EXCEPT !.wcnt = @ - 1]

WaitReady == e.st = "WRB" /\ chip.rb
WaitTooLong == e.st = "WRB" /\ ~chip.rb /\ e.tmo >= TmoClocks
WaitRb ==
  /\ e.st = "WRB"
  /\ e' = IF WaitReady \/ WaitTooLong THEN Replying(Tick, 0, "DONE") ELSE Tick

PollRead ==
  /\ e.st = "PS"
  /\ e' = [Tick EXCEPT !.nbKind = "rd", !.ret = "PS2", !.st = "NAND"]

\* The status matches, or the time is up, or it is read again.
PollCheck(matches, again) ==
  IF matches \/ e.tmo >= TmoClocks THEN Replying(Tick, 0, "RES1") ELSE [Tick EXCEPT !.st = again]

PollNand ==
  /\ e.st = "PS2"
  /\ \E matches \in BOOLEAN : e' = PollCheck(matches, "PS")

PollResult ==
  /\ e.st = "RES1"
  /\ e' = Replying(Tick, 1, "DONE")

CsOn ==
  /\ e.st = "CS_ON"
  /\ e' = IF e.csGap = 0 THEN [Tick EXCEPT !.cs = TRUE, !.st = "DONE"] ELSE Tick

SpiWrite ==
  /\ e.st = "SW"
  /\ LET takes == (~e.spReq \/ sp.ack) /\ e.len # 0 /\ CanPop
         over == e.len = 0 /\ ~e.spReq /\ ~sp.busy
     IN  e' = [Tick EXCEPT !.spReq = takes \/ (@ /\ ~sp.ack),
                           !.rxPop = takes,
                           !.spTx = IF takes THEN rxf.dout ELSE @,
                           !.len = IF takes THEN @ - 1 ELSE @,
                           !.st = IF over THEN "DONE" ELSE @]

\* The byte all eight bits belong to, if they do.
ByteOf(bits) == IF \A b \in 1 .. 8 : bits[b] = bits[1] THEN bits[1] ELSE -1

SpiRead ==
  /\ e.st = "SR"
  /\ LET x == IF sp.rvalid THEN Received(Tick, ByteOf(sp.rx)) ELSE Tick
     IN  e' = [x EXCEPT !.len = IF sp.ack THEN @ - 1 ELSE @,
                        !.spReq = StillAsking(@, sp.ack),
                        !.st = IF e.rleft = 0 THEN "DONE" ELSE @]

SpiXfer ==
  /\ e.st = "SX"
  /\ LET x == IF sp.rvalid THEN Received(Tick, ByteOf(sp.rx)) ELSE Tick
         takes == (~e.spReq \/ sp.ack) /\ e.len # 0 /\ CanPop /\ txRoom
     IN  e' = [x EXCEPT !.spReq = takes \/ (@ /\ ~sp.ack),
                        !.rxPop = takes,
                        !.spTx = IF takes THEN rxf.dout ELSE @,
                        !.len = IF takes THEN @ - 1 ELSE @,
                        !.st = IF e.rleft = 0 THEN "DONE" ELSE @]

PollCs ==
  /\ e.st = "SP_CS"
  /\ e' = IF e.csGap = 0 THEN [Tick EXCEPT !.cs = TRUE, !.idx = 0, !.st = "SP_CMD"] ELSE Tick

PollCmd ==
  /\ e.st = "SP_CMD"
  /\ e' = IF e.idx = Op.n THEN [Tick EXCEPT !.spTx = FF, !.ret = "SP_RD", !.st = "SPI"]
          ELSE [Tick EXCEPT !.spTx = <<e.cur, e.idx + 2>>, !.idx = @ + 1, !.ret = "SP_CMD",
                            !.st = "SPI"]

PollDeselect ==
  /\ e.st = "SP_RD"
  /\ e' = [Tick EXCEPT !.cs = FALSE, !.csGap = CsMinHigh, !.st = "SP_CHK"]

PollSpi ==
  /\ e.st = "SP_CHK"
  /\ \E matches \in BOOLEAN : e' = PollCheck(matches, "SP_CS")

Execute ==
  \/ Fetch \/ Args \/ Exec \/ Done \/ Push \/ NandStart \/ NandWait \/ SpiStart \/ SpiWait
  \/ Info \/ Info2 \/ Delay \/ BaudSwitch \/ PinTest \/ PinTest2 \/ Pins2
  \/ Addr \/ NandWrite \/ NandRead \/ WaitRb0 \/ WaitRb \/ PollRead \/ PollNand \/ PollResult
  \/ CsOn \/ SpiWrite \/ SpiRead \/ SpiXfer \/ PollCs \/ PollCmd \/ PollDeselect \/ PollSpi

EngineClock == (Aborts /\ Abort) \/ (~Aborts /\ Execute)

------------------------------------------------------------------------------
(* Around the engine. *)

\* Where the byte after <<i, k>> is.
After(i, k) == IF k + 1 < prog[i].sent THEN [i |-> i, k |-> k + 1] ELSE [i |-> i + 1, k |-> 0]

HasByte ==
  /\ link.i <= Len(prog)
  /\ Rx!Used + (IF rxw.wr THEN 1 ELSE 0) < RxDepth
  /\ link.k = 0 /\ link.i > 1 /\ Pauses(prog[link.i - 1]) => seen.ended >= link.i - 1

Arrive ==
  /\ HasByte
  /\ rxw' = [wr |-> TRUE, din |-> <<link.i, link.k>>]
  /\ LET next == After(link.i, link.k)
     IN  link' = [i |-> next.i, k |-> next.k, rest |-> 0]

Rest ==
  /\ HasByte => link.rest < RestClocks
  /\ rxw' = [rxw EXCEPT !.wr = FALSE]
  /\ link' = [link EXCEPT !.rest = IF HasByte THEN @ + 1 ELSE 0]

\* utx_start and utx_pop of the top module, and a transmitter that takes its time.
UartClock ==
  LET starts == txf.valid /\ ~utxBusy /\ ~utx.start /\ ~utx.pop
  IN  \E n \in UartClocks :
        utx' = [start |-> starts,
                pop |-> starts,
                left |-> IF utxBusy THEN utx.left - 1 ELSE IF utx.start THEN n ELSE 0]

WeFall == ~nb.we /\ nb'.we
WeRise == nb.we /\ ~nb'.we
ReFall == ~nb.re /\ nb'.re
ReRise == nb.re /\ ~nb'.re
SckRise == ~sp.sck /\ sp'.sck
SckFall == sp.sck /\ ~sp'.sck
Latched == IF nb.cle THEN "cmd" ELSE IF nb.ale THEN "addr" ELSE "wr"

\* A command makes the chip busy within t_wb; it is ready again at some time.
Starts == WeRise /\ nb.cle /\ nb.ioO # StatusCmd

ChipClock ==
  \E st \in {"ready", "starting", "busy"} :
    /\ IF Starts THEN st = "starting"
       ELSE CASE chip.st = "ready" -> st = "ready"
              [] chip.st = "starting" -> /\ st \in {"starting", "busy"}
                                         /\ chip.age + 1 >= e.reg.wb => st = "busy"
              [] chip.st = "busy" -> /\ st \in {"busy", "ready"}
                                     /\ chip.age + 1 >= RbClocks => st = "ready"
    /\ chip' = [st |-> st, age |-> IF st = chip.st /\ st # "ready" THEN chip.age + 1 ELSE 0,
                rb1 |-> chip.st # "busy", rb |-> chip.rb1]

\* Clocks since something last happened.
Since(count, happened) == IF happened THEN 0 ELSE IF count < CountMax THEN count + 1 ELSE CountMax

BitsClocked == IF SckFall THEN seen.bits + Spi!BitsPerClock(sp.w) ELSE seen.bits

Observe ==
  LET starts == e'.cur # e.cur
      ends == e'.st = "FETCH"
  IN  seen' = [cycles |-> IF starts THEN 0
                          ELSE IF WeRise \/ ReFall \/ BitsClocked = 8 THEN seen.cycles + 1
                          ELSE seen.cycles,
               bits   |-> IF ~e'.cs THEN 0 ELSE BitsClocked % 8,
               outs   |-> IF starts THEN 0 ELSE IF e'.txPush THEN seen.outs + 1 ELSE seen.outs,
               ended  |-> IF ends THEN e'.cur ELSE seen.ended,
               tail   |-> IF utx.start /\ ~utxBusy THEN txf.dout ELSE seen.tail,
               kind   |-> IF WeRise THEN Latched ELSE IF ReFall THEN "rd" ELSE seen.kind,
               steady |-> Since(seen.steady,
                                <<nb.cle, nb.ale, nb.ioO, nb.ioOe>>
                                # <<nb'.cle, nb'.ale, nb'.ioO, nb'.ioOe>>),
               strobe |-> Since(seen.strobe, nb.we # nb'.we \/ nb.re # nb'.re),
               weUp   |-> Since(seen.weUp, WeRise),
               reUp   |-> Since(seen.reUp, ReRise),
               csHigh |-> Since(seen.csHigh, e.cs /\ ~e'.cs),
               sckSame |-> Since(seen.sckSame, SckRise \/ SckFall)]

Next ==
  /\ EngineClock
  /\ Nand!Clock
  /\ Spi!Clock
  /\ Rx!Clock
  /\ Tx!Clock
  /\ UartClock
  /\ ChipClock
  /\ Arrive \/ Rest
  /\ Observe
  /\ UNCHANGED prog

\* The clock does not stop.
Spec == Init /\ [][Next]_vars /\ WF_vars(Next)

------------------------------------------------------------------------------
(* Properties. *)

\* What the pins show after k bus cycles or bytes is what the operation is for.
AskedLatch(i, k) ==
  LET o == prog[i]
  IN  CASE o.op = "cmd" /\ k = 1 -> <<"cmd", <<i, 1>>>>
        [] o.op = "addr" /\ k <= o.n -> <<"addr", <<i, k + 1>>>>
        [] o.op = "write" /\ k <= o.n -> <<"wr", <<i, k + 2>>>>
        [] o.op = "poll" /\ k = 1 -> <<"cmd", StatusCmd>>
        [] OTHER -> <<"none", FF>>
AsksRead(o, k) == (o.op = "read" /\ k <= o.n) \/ (o.op = "poll" /\ k > 1)
AskedWidth(o) == IF o.op = "wide" THEN o.w ELSE IF o.op = "read4" THEN 2 ELSE 0
SpiReads(o) == o.op \in {"spiRead", "read4"} \/ (o.op = "wide" /\ o.rd)
SpiWrites(o) == o.op = "spiWrite" \/ (o.op = "wide" /\ ~o.rd)
AskedByte(i, k) ==
  LET o == prog[i]
      turn == (k - 1) % (o.n + 1)
  IN  CASE o.op \in {"spiWrite", "xfer"} /\ k <= o.n -> <<i, k + 2>>
        [] o.op = "wide" /\ ~o.rd /\ k <= o.n -> <<i, k + 3>>
        [] SpiReads(o) /\ k <= o.n -> FF
        [] o.op = "spiPoll" -> IF turn < o.n THEN <<i, turn + 2>> ELSE FF
        [] OTHER -> <<0, 0>>

\* Every register stays in its range.
Byte == (0 .. Len(prog)) \X (0 .. 255)
TypeOK ==
  /\ e.cur \in 0 .. Len(prog)
  /\ e.len \in 0 .. 255 /\ e.rleft \in 0 .. 255
  /\ e.argn \in 0 .. 15 /\ e.argc \in 0 .. 15 /\ e.idx \in 0 .. 15
  /\ e.txData \in Byte /\ e.nbData \in Byte /\ e.spTx \in Byte
  /\ e.csGap \in 0 .. CsMinHigh /\ e.wcnt \in 0 .. 255 /\ e.ib \in 0 .. IbClocks
  /\ rxf.wp \in Rx!Pointer /\ rxf.rp \in Rx!Pointer
  /\ txf.wp \in Tx!Pointer /\ txf.rp \in Tx!Pointer
  /\ nb.cnt \in 0 .. 255 /\ nb.since \in 0 .. CountMax
  /\ sp.left \in 0 .. 7 /\ sp.cnt \in 0 .. 255 /\ sp.phase \in 0 .. 1

\* Every operation is begun at its first byte and once, and each strobe of WE#, RE#
\* or SCK is one it asks for, in its order, with its data on the pins, on its number of
\* lines; chip and programmer never drive the same line.
InStep == e.st = "FETCH" /\ e'.rxPop => rxf.dout = <<e.cur + 1, 0>>

\* IO0 .. IO3 the programmer drives (top module).
Driven ==
  (IF e.qin THEN {} ELSE {0, 2, 3}) \cup (IF ~e.qin /\ e.qout # 0 THEN {1} ELSE {})
Carries(o) == CASE AskedWidth(o) = 2 -> 0 .. 3
                [] AskedWidth(o) = 1 -> {0, 1}
                [] OTHER -> {IF SpiWrites(o) THEN 0 ELSE 1}
Contends ==
  IF SpiWrites(Op) THEN ~(Carries(Op) \cup {0} \subseteq Driven)
  ELSE Carries(Op) \cap Driven # {} \/ (AskedWidth(Op) = 0 /\ 0 \notin Driven)

StrobeAsked ==
  /\ WeRise => <<Latched, nb.ioO>> = AskedLatch(e.cur, seen.cycles + 1) /\ nb.ioOe
  /\ ReFall => AsksRead(Op, seen.cycles + 1)
  /\ SckRise => /\ sp.out = AskedByte(e.cur, seen.cycles + 1)
                /\ sp.w = AskedWidth(Op)
                /\ ~Contends
BusAsAsked == [][InStep /\ StrobeAsked]_vars

\* An operation that is done has made all its bus cycles and has answered with as
\* many bytes as the host will cut off for it; and whenever an operation is over, also
\* one that was given up, no request and no strobe is left on the buses.
CyclesDone(o) ==
  CASE o.op = "cmd" -> seen.cycles = 1
    [] o.op \in {"addr", "write", "read", "xfer"} \/ SpiReads(o) \/ SpiWrites(o) ->
         seen.cycles = o.n
    [] o.op = "poll" -> seen.cycles > 1
    [] o.op = "spiPoll" -> seen.cycles > 0 /\ seen.cycles % (o.n + 1) = 0
    [] OTHER -> seen.cycles = 0
DoneIsComplete == e.st = "DONE" => CyclesDone(Op) /\ seen.outs = HostReply(Op)
FetchQuiet ==
  e.st = "FETCH" => /\ ~e.nbReq /\ ~nb.we /\ ~nb.re /\ ~nb.ack /\ ~nb.rvalid
                    /\ ~e.spReq /\ ~sp.busy /\ ~sp.sck /\ ~sp.ack

\* The bytes that leave are the replies, in order and none missing, though a burst is
\* stopped only between bytes and the FIFO drops what it has no room for; an operation
\* the link has cut may answer with a part.  The rate changes only after the
\* acknowledge has left whole.
Silent(i) == HostReply(prog[i]) = 0 \/ IsCut(prog[i])
Follows(a, b) ==
  \/ b = <<a[1], a[2] + 1>> /\ b[2] < HostReply(prog[a[1]])
  \/ /\ b[2] = 0 /\ b[1] > a[1]
     /\ \A i \in a[1] + 1 .. b[1] - 1 : Silent(i)
     /\ a[1] # 0 => IsCut(prog[a[1]]) \/ a[2] + 1 = HostReply(prog[a[1]])
AckAtOldRate == e'.rate # e.rate => seen.tail = <<e.cur, 0>> /\ utx.left = 0
RepliesInOrder ==
  [][(seen.tail' # seen.tail => Follows(seen.tail, seen.tail')) /\ AckAtOldRate]_vars

\* The NAND pins keep the times of the registers, whatever cycles follow each other;
\* the SPI chip is deselected long enough and never in the middle of a byte, SCK is
\* never too fast, and a selection is a new one, also after an operation that was given
\* up: the chip would take a command for data.
Elapsed(count) == IF count = CountMax THEN CountMax ELSE count + 1
AtLeast(count, n) == Elapsed(count) >= Nand!AtLeast1(n)
NandPins == <<nb.cle, nb.ale, nb.ioO, nb.ioOe>>
NandTimes ==
  LET r == e.reg
  IN  /\ WeRise => /\ AtLeast(seen.strobe, r.wp)
                   /\ Elapsed(seen.steady) >= Nand!AtLeast1(r.setup) + Nand!AtLeast1(r.wp)
      /\ NandPins # NandPins' => ~nb.we /\ ~nb'.we /\ AtLeast(seen.weUp, r.wh)
      /\ ReRise => AtLeast(seen.strobe, r.rp)
      /\ ReFall => /\ ~nb'.ioOe
                   /\ AtLeast(seen.reUp, r.reh)
                   /\ seen.kind # "rd" => AtLeast(seen.weUp, r.whr)
      /\ WeFall /\ Latched = "wr" /\ seen.kind = "addr" => AtLeast(seen.weUp, r.adl)
SpiTimes ==
  /\ ~e.cs /\ e'.cs => Elapsed(seen.csHigh) >= CsMinHigh
  /\ e.cs # e'.cs => ~sp.busy
  /\ e.st = "CS_ON" => ~e.cs
  /\ SckRise \/ SckFall => Elapsed(seen.sckSame) >= e.reg.div + 1
  /\ SckRise => e.cs
PinTiming == [][NandTimes /\ SpiTimes]_vars

\* "Ready" is never what R/B# said before the chip had taken the command.
ReadyMeansDone == WaitReady => chip.st = "ready"

\* What an operation leaves: all of its cycles and reply bytes, an answer of the
\* chip that was waited for, quiet buses.
EndsClean == TypeOK /\ DoneIsComplete /\ ReadyMeansDone /\ FetchQuiet

\* Whatever is cut, the engine gets through the whole program and is idle again.
AllDone == e.st = "FETCH" /\ seen.ended = Len(prog)
Finishes == <>[]AllDone
==============================================================================
