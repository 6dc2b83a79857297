------------------------------ MODULE DeviceRun ------------------------------
(***************************************************************************)
(* Device.run: how the host executes a batch on the programmer over a link *)
(* that loses nothing by itself.  The host cuts the list of operations     *)
(* into segments, closes each with an ECHO of a marker, and never has more *)
(* than Window bytes of segments in flight, because a UART link has no     *)
(* flow control and the gateware's receive FIFO drops what does not fit.   *)
(*                                                                         *)
(* Bytes are counted, not stored: "sent", "arrived", "taken" are positions *)
(* in the command stream, "queued", "pushed", "read" in the reply stream.  *)
(* What a reply byte is, the engine records when it makes it (made, mark). *)
(*                                                                         *)
(* Lost bytes, deadlines and the resynchronisation they lead to are not    *)
(* here: module Resync models them.                                        *)
(***************************************************************************)
EXTENDS Integers, Sequences

CONSTANTS
  Batches,      \* batches a run may be given, and the link it has, see BatchOK
  Window,       \* Device.window
  RxFifo,       \* receive FIFO of the gateware, in bytes
  LinkBuf,      \* bytes a link holds between the host and the receive FIFO
  UpBuf         \* bytes the reply path holds when the host does not read

\* batch.cmd[k] and batch.rep[k]: bytes of the commands, and of the replies,
\* of the first k operations.  An operation has at least its opcode byte and
\* with its marker fits the window: protocol.py cuts data into MAX_CHUNK.
\* batch.fifo: the link is an FT232H FIFO, with flow control, and not a UART.
BatchOK(b) ==
  /\ b.fifo \in BOOLEAN
  /\ b.n \in Nat
  /\ b.cmd \in [0 .. b.n -> Nat]
  /\ b.rep \in [0 .. b.n -> Nat]
  /\ b.cmd[0] = 0
  /\ b.rep[0] = 0
  /\ \A i, j \in 0 .. b.n : i < j => /\ b.cmd[i] < b.cmd[j]
                                     /\ b.rep[i] =< b.rep[j]
  /\ \A i \in 1 .. b.n : b.cmd[i] - b.cmd[i - 1] + 2 =< Window

ASSUME BatchesAssumption == \A b \in Batches : BatchOK(b)

ASSUME SizesAssumption ==
  /\ Window \in Nat
  /\ RxFifo \in Nat
  /\ LinkBuf \in Nat \ {0}
  /\ UpBuf \in Nat \ {0}
  /\ Window =< RxFifo

VARIABLES
  batch,          \* the operations of this run
  \* the host, in Device.run
  pc,             \* "fill", "write", "read", "done" or "error"
  pos,            \* operations of the segments written so far
  cuts,           \* cuts[s]: last operation of the s-th segment written
  answered,       \* segments answered and taken off "inflight"
  inflightBytes,  \* inflight_bytes
  stopped,        \* segments = segments[:i] was executed
  bufBase,        \* reply bytes deleted from "buf" so far
  got,            \* got[k]: reply position the result of operation k was cut from
  \* the link
  sent,           \* command bytes accepted by the link
  arrived,        \* command bytes that reached the receive FIFO
  overflow,       \* rx_overflow: a byte found the receive FIFO full
  \* the engine
  taken,          \* command bytes it has popped from the receive FIFO
  op,             \* operations executed
  mk,             \* markers echoed
  queued,         \* reply bytes produced
  made,           \* made[k]: position before the first reply byte of operation k
  mark,           \* mark[s]: position of the s-th marker in the reply stream
  \* the way back
  pushed,         \* reply bytes handed to the reply path
  read            \* reply bytes the host has read

hostVars == <<pc, pos, cuts, answered, inflightBytes, stopped, bufBase, got>>
linkVars == <<sent, arrived, overflow>>
engVars  == <<taken, op, mk, queued, made, mark>>
upVars   == <<pushed, read>>
vars == <<batch, hostVars, linkVars, engVars, upVars>>

NotYet == -1

------------------------------------------------------------------------------
(* Segments *)

Limit == Window - 2

\* _segment: the segment that starts after operation i ends at operation e.
\* It is closed by the first operation that would take it over the limit.
IsSegEnd(i, e) ==
  /\ e \in (i + 1) .. batch.n
  /\ batch.cmd[e] - batch.cmd[i] > Limit => e = i + 1
  /\ e < batch.n => batch.cmd[e + 1] - batch.cmd[i] > Limit

\* Slips: SegBytes without the marker, and its reply with none and with two.
SegBytesNoMarker(i, e) == batch.cmd[e] - batch.cmd[i]
SegReplyNoMarker(i, e) == batch.rep[e] - batch.rep[i]
SegReplyTooLong(i, e) == batch.rep[e] - batch.rep[i] + 2

\* _close: the marker ECHO adds two command bytes and one reply byte.
SegBytes(i, e) == batch.cmd[e] - batch.cmd[i] + 2
SegReply(i, e) == batch.rep[e] - batch.rep[i] + 1

Cut(s) == IF s = 0 THEN 0 ELSE cuts[s]

\* Position of the end of the s-th segment in the command stream.
SegEnd(s) == batch.cmd[Cut(s)] + 2 * s

Written == SegEnd(Len(cuts))

InFlight == Len(cuts) - answered

------------------------------------------------------------------------------
Init ==
  /\ batch \in Batches
  /\ pc = "fill"
  /\ pos = 0
  /\ cuts = <<>>
  /\ answered = 0
  /\ inflightBytes = 0
  /\ stopped = FALSE
  /\ bufBase = 0
  /\ got = [k \in 1 .. batch.n |-> NotYet]
  /\ sent = 0
  /\ arrived = 0
  /\ overflow = FALSE
  /\ taken = 0
  /\ op = 0
  /\ mk = 0
  /\ queued = 0
  /\ made = [k \in 1 .. batch.n |-> NotYet]
  /\ mark = <<>>
  /\ pushed = 0
  /\ read = 0

------------------------------------------------------------------------------
(* The host *)

\* Slips: the last operation forgotten, the window not looked at.
MoreToSendButLast == pos < batch.n - 1 /\ ~stopped
MaySendAnyTime(e) == IsSegEnd(pos, e)

MoreToSend == pos < batch.n /\ ~stopped

MaySend(e) ==
  /\ IsSegEnd(pos, e)
  /\ InFlight > 0 => inflightBytes + SegBytes(pos, e) =< Window

\* Slip: the segment's bytes are not added to inflight_bytes.
SendUncounted ==
  /\ pc = "fill"
  /\ MoreToSend
  /\ \E e \in 1 .. batch.n :
       /\ MaySend(e)
       /\ cuts' = Append(cuts, e)
       /\ pos' = e
  /\ pc' = "write"
  /\ UNCHANGED <<batch, answered, inflightBytes, stopped, bufBase, got, linkVars, engVars,
                 upVars>>

\* link.write(seg.data) begins; the segment is on the "inflight" deque.
SendSegment ==
  /\ pc = "fill"
  /\ MoreToSend
  /\ \E e \in 1 .. batch.n :
       /\ MaySend(e)
       /\ cuts' = Append(cuts, e)
       /\ pos' = e
       /\ inflightBytes' = inflightBytes + SegBytes(pos, e)
  /\ pc' = "write"
  /\ UNCHANGED <<batch, answered, stopped, bufBase, got, linkVars, engVars, upVars>>

\* link.write blocks until the link has accepted every byte; the host does
\* not read meanwhile.
WriteByte ==
  /\ pc = "write"
  /\ sent - arrived < LinkBuf
  /\ sent' = sent + 1
  /\ pc' = IF sent + 1 = Written THEN "fill" ELSE "write"
  /\ UNCHANGED <<batch, pos, cuts, answered, inflightBytes, stopped, bufBase, got,
                 arrived, overflow, engVars, upVars>>

\* Nothing more fits the window: wait for the reply of the oldest segment.
StartRead ==
  /\ pc = "fill"
  /\ ~(MoreToSend /\ \E e \in 1 .. batch.n : MaySend(e))
  /\ InFlight > 0
  /\ pc' = "read"
  /\ UNCHANGED <<batch, pos, cuts, answered, inflightBytes, stopped, bufBase, got,
                 linkVars, engVars, upVars>>

\* Slip: returns when everything is sent, not when everything is answered.
ReturnEarly ==
  /\ pc = "fill"
  /\ ~MoreToSend
  /\ pc' = "done"
  /\ UNCHANGED <<batch, pos, cuts, answered, inflightBytes, stopped, bufBase, got,
                 linkVars, engVars, upVars>>

Return ==
  /\ pc = "fill"
  /\ ~MoreToSend
  /\ InFlight = 0
  /\ pc' = "done"
  /\ UNCHANGED <<batch, pos, cuts, answered, inflightBytes, stopped, bufBase, got,
                 linkVars, engVars, upVars>>

\* Slip: the position is advanced before the slice is taken.
SliceAfter(k) == bufBase + (batch.rep[k] - batch.rep[Cut(answered)])

\* _dispatch: where in the reply stream the slice of operation k begins.
Slice(k) == bufBase + (batch.rep[k - 1] - batch.rep[Cut(answered)])

HeadFrom == Cut(answered)
HeadTo == cuts[answered + 1]
Need == SegReply(HeadFrom, HeadTo) - (read - bufBase)

\* cancelled() is asked after every read, whatever it returned.
MayStop == stopped' \in {stopped, stopped \/ pos < batch.n}

\* link.read returned part of the head segment's reply.
ReadPart ==
  /\ pc = "read"
  /\ \E k \in 1 .. (Need - 1) :
       /\ read + k =< pushed
       /\ read' = read + k
  /\ MayStop
  /\ pc' = "fill"
  /\ UNCHANGED <<batch, pos, cuts, answered, inflightBytes, bufBase, got,
                 linkVars, engVars, pushed>>

\* The head segment's reply is complete: _dispatch looks at the marker and
\* hands each operation its slice of the buffer.
ReadAll ==
  /\ pc = "read"
  /\ read + Need =< pushed
  /\ read' = read + Need
  /\ LET last == bufBase + SegReply(HeadFrom, HeadTo)
         isMarker == answered + 1 =< Len(mark) /\ mark[answered + 1] = last
     IN  IF isMarker
         THEN /\ got' = [k \in 1 .. batch.n |->
                           IF HeadFrom < k /\ k =< HeadTo
                           THEN Slice(k)
                           ELSE got[k]]
              /\ bufBase' = last
              /\ answered' = answered + 1
              /\ inflightBytes' = inflightBytes - SegBytes(HeadFrom, HeadTo)
              /\ MayStop
              /\ pc' = "fill"
         ELSE /\ pc' = "error"
              /\ UNCHANGED <<got, bufBase, answered, inflightBytes, stopped>>
  /\ UNCHANGED <<batch, pos, cuts, linkVars, engVars, pushed>>

\* A read that timed out with nothing: only cancelled() can change anything.
ReadNothing ==
  /\ pc = "read"
  /\ read = pushed
  /\ pos < batch.n
  /\ ~stopped
  /\ stopped' = TRUE
  /\ pc' = "fill"
  /\ UNCHANGED <<batch, pos, cuts, answered, inflightBytes, bufBase, got,
                 linkVars, engVars, upVars>>

------------------------------------------------------------------------------
(* The link towards the engine.  A UART delivers whether or not there is
   room; an FT245 bridge leaves the byte in the FT232H until there is. *)

Arrive ==
  /\ arrived < sent
  /\ batch.fifo => arrived - taken < RxFifo
  /\ arrived' = arrived + 1
  /\ overflow' = (overflow \/ arrived - taken >= RxFifo)
  /\ UNCHANGED <<batch, hostVars, sent, engVars, upVars>>

------------------------------------------------------------------------------
(* The engine executes what it is sent in order: the operations of a segment,
   then its marker.  It fetches again only when its replies are pushed. *)

AtMarker == mk < Len(cuts) /\ op = cuts[mk + 1]
ItemEnd == IF AtMarker THEN batch.cmd[op] + 2 * (mk + 1) ELSE batch.cmd[op + 1] + 2 * mk
HasItem == AtMarker \/ op < pos

Take ==
  /\ HasItem
  /\ pushed = queued
  /\ taken < arrived
  /\ taken < ItemEnd
  /\ taken' = taken + 1
  /\ UNCHANGED <<batch, hostVars, linkVars, op, mk, queued, made, mark, upVars>>

ExecOp ==
  /\ HasItem
  /\ ~AtMarker
  /\ pushed = queued
  /\ taken = ItemEnd
  /\ op' = op + 1
  /\ made' = [made EXCEPT ![op + 1] = queued]
  /\ queued' = queued + (batch.rep[op + 1] - batch.rep[op])
  /\ UNCHANGED <<batch, hostVars, linkVars, taken, mk, mark, upVars>>

ExecMarker ==
  /\ AtMarker
  /\ pushed = queued
  /\ taken = ItemEnd
  /\ mk' = mk + 1
  /\ queued' = queued + 1
  /\ mark' = Append(mark, queued + 1)
  /\ UNCHANGED <<batch, hostVars, linkVars, taken, op, made, upVars>>

\* S_PUSH waits for tx_ready.  Only a flow-controlled link can hold it up
\* for good: a UART keeps sending, and the host's driver keeps the bytes.
Push ==
  /\ pushed < queued
  /\ batch.fifo => pushed - read < UpBuf
  /\ pushed' = pushed + 1
  /\ UNCHANGED <<batch, hostVars, linkVars, engVars, read>>

------------------------------------------------------------------------------
HostStep == SendSegment \/ WriteByte \/ StartRead \/ Return \/ ReadPart \/ ReadAll \/ ReadNothing
EngineStep == Take \/ ExecOp \/ ExecMarker

Next == HostStep \/ Arrive \/ EngineStep \/ Push

\* The gateware and the link always run.  The host runs too: ReadPart and
\* ReadAll are what a read that finds bytes does.
Fairness ==
  /\ WF_vars(SendSegment \/ WriteByte \/ StartRead \/ Return)
  /\ WF_vars(ReadPart \/ ReadAll)
  /\ WF_vars(Arrive)
  /\ WF_vars(EngineStep)
  /\ WF_vars(Push)

Spec == Init /\ [][Next]_vars
FairSpec == Spec /\ Fairness

------------------------------------------------------------------------------
TypeOK ==
  /\ batch \in Batches
  /\ pc \in {"fill", "write", "read", "done", "error"}
  /\ pos \in 0 .. batch.n
  /\ cuts \in Seq(1 .. batch.n)
  /\ answered \in 0 .. Len(cuts)
  /\ inflightBytes \in Nat
  /\ stopped \in BOOLEAN
  /\ bufBase \in Nat
  /\ got \in [1 .. batch.n -> Nat \cup {NotYet}]
  /\ sent \in Nat
  /\ arrived \in Nat
  /\ overflow \in BOOLEAN
  /\ taken \in Nat
  /\ op \in 0 .. batch.n
  /\ mk \in 0 .. Len(cuts)
  /\ queued \in Nat
  /\ made \in [1 .. batch.n -> Nat \cup {NotYet}]
  /\ mark \in Seq(Nat)
  /\ pushed \in Nat
  /\ read \in Nat

\* Flow control without a wire for it (device.py "window", protocol.md 5): no
\* byte ever finds the gateware's receive FIFO full.
NoOverflow == ~overflow

\* The bytes sent and not yet consumed by the engine stay within the window,
\* although the host learns of consumption only through the marker.
WindowRespected == sent - taken =< Window

\* Two neighbouring segments of one batch never fit the window together,
\* because _segment fills a segment up to the window: the deque never holds
\* more than one of them, and the host waits for each marker before it writes.
OneSegmentInFlight == InFlight =< 1

\* Every result is cut from the bytes the engine made for that very operation.
ResultsExact == \A k \in 1 .. batch.n : got[k] # NotYet => got[k] = made[k]

\* On a link that loses nothing, "stream out of sync" is never raised.
NoFalseAlarm == pc # "error"

\* When run returns nothing of it is left anywhere: no command byte on the
\* way, no reply byte to come that the next run would take for its own; and a
\* run that was not stopped has filled in every result.
QuietAtReturn ==
  pc = "done" =>
    /\ sent = taken
    /\ op = pos
    /\ read = queued
    /\ inflightBytes = 0
    /\ ~stopped => \A k \in 1 .. batch.n : got[k] # NotYet

\* A run comes to an end: host, link and engine never all wait for one
\* another, whichever of them applies back-pressure.
RunEnds == <>(pc = "done")

\* run implements the promise of BatchExec.
Promise == INSTANCE BatchExec WITH
             size <- batch.n,
             executed <- op,
             delivered <- Cut(answered),
             returned <- (pc = "done")

ImplementsPromise == Promise!Spec
------------------------------------------------------------------------------
(* The inductive invariant behind the safety properties. *)

\* The host's book-keeping: at most one segment is out, it fits the window,
\* and together with the first operation left over it would not.
HostInv ==
  /\ InFlight \in {0, 1}
  /\ pos = Cut(Len(cuts))
  /\ inflightBytes = Written - SegEnd(answered)
  /\ bufBase = batch.rep[Cut(answered)] + answered
  /\ InFlight = 1 => /\ Cut(answered) < pos
                     /\ SegBytes(Cut(answered), pos) =< Window
                     /\ pos < batch.n =>
                          batch.cmd[pos + 1] - batch.cmd[Cut(answered)] > Limit
  /\ pc = "write" => sent < Written
  /\ pc \in {"fill", "read", "done"} => sent = Written
  /\ pc \in {"read", "write"} => InFlight = 1
  /\ pc = "done" => InFlight = 0 /\ ~MoreToSend
  /\ pc # "error"

\* How far the engine is: in the segment that is out, or just past it.
EngineInv ==
  /\ answered =< mk
  /\ Cut(answered) =< op
  /\ op =< pos
  /\ mk = Len(cuts) => op = pos
  /\ queued = batch.rep[op] + mk
  /\ Len(mark) = mk
  /\ mk > answered => mark[mk] = queued
  /\ \A k \in 1 .. op : k > Cut(answered) => made[k] = batch.rep[k - 1] + answered

\* The order of the positions in the two streams.
StreamInv ==
  /\ batch.cmd[op] + 2 * mk =< taken
  /\ HasItem => taken =< ItemEnd
  /\ taken =< arrived
  /\ arrived =< sent
  /\ sent =< Written
  /\ bufBase =< read
  /\ read =< pushed
  /\ pushed =< queued
  /\ ~overflow

ResultInv ==
  \A k \in 1 .. batch.n :
    IF k =< Cut(answered) THEN got[k] # NotYet /\ got[k] = made[k]
                          ELSE got[k] = NotYet

\* All of it together: the counters, positions and results of the host agree
\* with what the link and the engine have seen, at every step of the run.
IndInv == TypeOK /\ HostInv /\ EngineInv /\ StreamInv /\ ResultInv
==============================================================================
