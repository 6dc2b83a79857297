------------------------------ MODULE SpiMaster ------------------------------
(***************************************************************************)
(* spi_master.v: shifts one byte per request, on one, two or four lines,   *)
(* in mode 0.  The handshake is that of NandBus.                           *)
(*                                                                         *)
(* The byte that is sent is its name, "out", and not its bits; what comes  *)
(* in is a shift register of eight bits, each named by "lines", the byte   *)
(* the chip is presenting.  "left" is bitn.                                *)
(***************************************************************************)
EXTENDS Integers, Sequences

VARIABLES
  div,         \* half a period of SCK is div + 1 clocks
  late,        \* sample_late: sample before the falling edge of SCK
  req, tx,     \* inputs
  width,       \* input: 0, 1, 2 for one, two, four lines
  lines,       \* input: the level of the lines
  sp           \* all the registers

Reset == [busy |-> FALSE, sck |-> FALSE, out |-> <<0, 0>>, left |-> 0, cnt |-> 0,
          phase |-> 0, w |-> 0, ack |-> FALSE, rvalid |-> FALSE,
          in |-> [b \in 1 .. 8 |-> -1], rx |-> [b \in 1 .. 8 |-> -1]]

LastBit(w) == CASE w = 2 -> 1 [] w = 1 -> 3 [] OTHER -> 7
BitsPerClock(w) == CASE w = 2 -> 4 [] w = 1 -> 2 [] OTHER -> 1

\* shifted_in
ShiftedIn ==
  LET n == BitsPerClock(sp.w)
  IN  [b \in 1 .. 8 |-> IF b + n <= 8 THEN sp.in[b + n] ELSE lines]

Base == [sp EXCEPT !.ack = FALSE, !.rvalid = FALSE]

Load(next) == [next EXCEPT !.ack = TRUE, !.out = tx, !.w = width, !.left = LastBit(width)]

Accept ==
  /\ ~sp.busy
  /\ sp' = IF req /\ ~sp.ack
           THEN [Load(Base) EXCEPT !.busy = TRUE, !.cnt = div, !.phase = 0, !.sck = FALSE]
           ELSE Base

CountDown ==
  /\ sp.busy
  /\ sp.cnt # 0
  /\ sp' = [Base EXCEPT !.cnt = @ - 1]

RaiseSck ==
  /\ sp.busy
  /\ sp.cnt = 0
  /\ sp.phase = 0
  /\ sp' = [Base EXCEPT !.cnt = div, !.sck = TRUE, !.phase = 1,
                        !.in = IF late THEN @ ELSE ShiftedIn]

\* Slip: the last bit of a late sample is left out of the byte.
LowerSckStale ==
  /\ sp.busy
  /\ sp.cnt = 0
  /\ sp.phase = 1
  /\ LET sampled == IF late THEN ShiftedIn ELSE sp.in
         next == [Base EXCEPT !.cnt = div, !.sck = FALSE, !.phase = 0, !.in = sampled]
         ends == [next EXCEPT !.rvalid = TRUE, !.rx = sp.in]
     IN  sp' = IF sp.left > 0 THEN [next EXCEPT !.left = @ - 1]
               ELSE IF req /\ ~sp.ack THEN Load(ends)
               ELSE [ends EXCEPT !.busy = FALSE]

LowerSck ==
  /\ sp.busy
  /\ sp.cnt = 0
  /\ sp.phase = 1
  /\ LET sampled == IF late THEN ShiftedIn ELSE sp.in
         next == [Base EXCEPT !.cnt = div, !.sck = FALSE, !.phase = 0, !.in = sampled]
         ends == [next EXCEPT !.rvalid = TRUE, !.rx = sampled]
     IN  sp' = IF sp.left > 0 THEN [next EXCEPT !.left = @ - 1]
               ELSE IF req /\ ~sp.ack THEN Load(ends)
               ELSE [ends EXCEPT !.busy = FALSE]

Clock == Accept \/ CountDown \/ RaiseSck \/ LowerSck
==============================================================================
