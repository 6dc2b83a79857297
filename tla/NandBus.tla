------------------------------- MODULE NandBus -------------------------------
(***************************************************************************)
(* nand_bus.v: one cycle on the NAND bus per request.  The client holds    *)
(* req, kind and wdata until it sees ack for one clock; a request that is  *)
(* already there in the last clock of a cycle follows without a gap.       *)
(*                                                                         *)
(* One step is one clock: registers get their next values from the present *)
(* values of all registers and inputs.                                     *)
(***************************************************************************)
EXTENDS Integers

CONSTANTS
  SinceMax    \* where the counter since_we saturates

VARIABLES
  t,                  \* timing registers, in clocks: setup, wp, wh, rp, reh, whr, adl
  req, kind, wdata,   \* inputs; kinds are "cmd", "addr", "wr", "rd"
  ioIn,               \* the level of the data pins
  nb                  \* all the registers

Reset == [st |-> "idle", cnt |-> 0, k |-> "cmd", d |-> <<0, 0>>, since |-> SinceMax,
          lastKind |-> "cmd", haveLast |-> FALSE, ack |-> FALSE, rvalid |-> FALSE,
          rdata |-> -1, busy |-> FALSE, cle |-> FALSE, ale |-> FALSE, we |-> FALSE,
          re |-> FALSE, ioO |-> <<0, 0>>, ioOe |-> FALSE]

AtLeast1(n) == IF n = 0 THEN 1 ELSE n

LastClk == nb.cnt = 0 /\ nb.st \in {"wh", "reh"}
Take == req /\ ~nb.ack /\ (nb.st = "idle" \/ LastClk)

\* Kind of the latest cycle, as a request taken now sees it.
HasLatest == nb.haveLast \/ LastClk
Latest == IF LastClk THEN nb.k ELSE nb.lastKind

\* Clocks since the last rising edge of WE# that a cycle of this kind needs.
GapFor(next) ==
  IF ~HasLatest THEN 0
  ELSE IF next = "rd" /\ Latest # "rd" THEN t.whr
  ELSE IF next = "wr" /\ Latest = "addr" THEN t.adl
  ELSE 0

\* What every clock does, whatever the state.
Base ==
  [nb EXCEPT !.ack = FALSE,
             !.rvalid = FALSE,
             !.since = IF nb.we \/ @ = SinceMax THEN @ ELSE @ + 1,
             !.lastKind = IF LastClk THEN nb.k ELSE @,
             !.haveLast = HasLatest]

Launch(next, kk, dd) ==
  IF kk = "rd"
  THEN [next EXCEPT !.ioOe = FALSE, !.cle = FALSE, !.ale = FALSE, !.re = TRUE,
                    !.cnt = AtLeast1(t.rp) - 1, !.st = "rp"]
  ELSE [next EXCEPT !.cle = (kk = "cmd"), !.ale = (kk = "addr"), !.ioO = dd, !.ioOe = TRUE,
                    !.cnt = AtLeast1(t.setup) - 1, !.st = "setup"]

Accept ==
  /\ Take
  /\ LET next == [Base EXCEPT !.ack = TRUE, !.busy = TRUE, !.k = kind, !.d = wdata]
     IN  nb' = IF nb.since >= GapFor(kind)
               THEN Launch(next, kind, wdata)
               ELSE [next EXCEPT !.cle = FALSE, !.ale = FALSE, !.ioOe = FALSE, !.st = "gap"]

Idle ==
  /\ nb.st = "idle"
  /\ nb' = Base

WaitGap ==
  /\ nb.st = "gap"
  /\ nb' = IF nb.since >= GapFor(nb.k) THEN Launch(Base, nb.k, nb.d) ELSE Base

CountDown ==
  /\ nb.st \in {"setup", "wp", "wh", "rp", "reh"}
  /\ nb.cnt # 0
  /\ nb' = [Base EXCEPT !.cnt = @ - 1]

LowerWe ==
  /\ nb.st = "setup"
  /\ nb.cnt = 0
  /\ nb' = [Base EXCEPT !.we = TRUE, !.cnt = AtLeast1(t.wp) - 1, !.st = "wp"]

\* Slip: the counter of the gaps is not restarted.
RaiseWeNoRestart ==
  /\ nb.st = "wp"
  /\ nb.cnt = 0
  /\ nb' = [Base EXCEPT !.we = FALSE, !.cnt = AtLeast1(t.wh) - 1, !.st = "wh"]

RaiseWe ==
  /\ nb.st = "wp"
  /\ nb.cnt = 0
  /\ nb' = [Base EXCEPT !.we = FALSE, !.since = 0, !.cnt = AtLeast1(t.wh) - 1, !.st = "wh"]

EndWrite ==
  /\ nb.st = "wh"
  /\ nb.cnt = 0
  /\ nb' = [Base EXCEPT !.cle = FALSE, !.ale = FALSE, !.ioOe = FALSE, !.busy = FALSE,
                        !.st = "idle"]

Sample ==
  /\ nb.st = "rp"
  /\ nb.cnt = 0
  /\ nb' = [Base EXCEPT !.rdata = ioIn, !.rvalid = TRUE, !.re = FALSE,
                        !.cnt = AtLeast1(t.reh) - 1, !.st = "reh"]

EndRead ==
  /\ nb.st = "reh"
  /\ nb.cnt = 0
  /\ nb' = [Base EXCEPT !.busy = FALSE, !.st = "idle"]

Clock ==
  \/ Accept
  \/ /\ ~Take
     /\ \/ Idle \/ WaitGap \/ CountDown \/ LowerWe \/ RaiseWe \/ EndWrite \/ Sample \/ EndRead
==============================================================================
