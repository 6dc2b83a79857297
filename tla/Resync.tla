-------------------------------- MODULE Resync --------------------------------
(***************************************************************************)
(* Device.resync: how host and engine get back into step after a run that  *)
(* went wrong, or after a host process that was killed in the middle of    *)
(* one.  Bytes may be lost in either direction.  An operation that lost    *)
(* some of its bytes waits for them and takes the bytes of whatever comes  *)
(* next, unless nothing comes for IbTicks: then the engine drops it.       *)
(*                                                                         *)
(* Operations and their replies are the units here.  A segment is written  *)
(* at once; the engine takes no time but for operations that wait for the  *)
(* flash chip; the host may be late with every step.                       *)
(***************************************************************************)
EXTENDS Integers, Sequences, FiniteSets

CONSTANTS
  Segments,    \* what a run may send; "q": no reply, "r": a reply, "m": the marker
  MaxRuns,     \* runs
  MaxFaults,   \* operations or replies hit by a lost byte
  Kills,       \* TRUE: the host process may be killed while it waits
  BusyTicks,   \* longest an operation waits for the flash chip
  IbTicks,     \* IB_TIMEOUT, 100 ms
  QuietTicks,  \* drain(quiet=0.15)
  LimitTicks,  \* drain(limit=3.0)
  ReadTicks,   \* read(2 + INFO_LEN, 1.0)
  RunTicks     \* _deadline: 3 s on top of what the operations may take

\* _close ends every segment with a marker of its own.
ASSUME SegmentsAssumption ==
  \A seg \in Segments :
    /\ seg \in Seq({"q", "r", "m"}) /\ seg # <<>>
    /\ \A k \in DOMAIN seg : seg[k] = "m" <=> k = Len(seg)

ASSUME TicksAssumption ==
  /\ MaxRuns \in Nat /\ MaxFaults \in Nat
  /\ BusyTicks \in Nat /\ IbTicks \in Nat /\ QuietTicks \in Nat
  /\ LimitTicks \in Nat /\ ReadTicks \in Nat /\ RunTicks \in Nat

VARIABLES
  pc,         \* "idle", "run", "drain", "write", "read", "insync", "lost"
  runs,       \* runs started; the marker of a run is its number
  need,       \* replies the run still waits for
  timer,      \* ticks left of a deadline, of a read, of the drain's limit
  quiet,      \* ticks of silence the drain still waits for
  attempt,    \* attempts made by this resync
  rxFifo,     \* operations on their way to the engine or in its receive FIFO
  eng,        \* "fetch", "args": waits for lost bytes, "busy"
  current,    \* operation the engine is busy with
  clock,      \* ib_ms, or ticks the engine stays busy
  up,         \* replies the host has not read
  faults,     \* faults that may still happen
  swallowed   \* bytes of a resync pattern went into an unfinished operation

hostVars == <<pc, runs, need, timer, quiet, attempt>>
engVars == <<rxFifo, eng, current, clock>>
vars == <<hostVars, engVars, up, faults, swallowed>>

Attempts == 3

\* An operation is <<kind, id>>; "half" is one that lost bytes.
Kinds == {"q", "r", "m", "half", "pattern"}
NoOp == <<"q", 0>>

Init ==
  /\ pc = "idle"
  /\ runs = 0
  /\ need = 0
  /\ timer = 0
  /\ quiet = 0
  /\ attempt = 0
  /\ rxFifo = <<>>
  /\ eng = "fetch"
  /\ current = NoOp
  /\ clock = 0
  /\ up = <<>>
  /\ faults = MaxFaults
  /\ swallowed = FALSE

------------------------------------------------------------------------------
(* The host *)

\* Bytes of operation k get lost: all of it, or some of it.
Damaged(ops, k) ==
  { SubSeq(ops, 1, k - 1) \o SubSeq(ops, k + 1, Len(ops)),
    [ops EXCEPT ![k] = <<"half", 0>>] }

\* What arrives of a segment, and the faults it took.
Sendings(ops) ==
  {<<ops, 0>>} \cup
  UNION {{<<d, 1>> : d \in Damaged(ops, k)} : k \in 1 .. Len(ops)}

Transmit(ops) ==
  \E s \in Sendings(ops) :
    /\ s[2] =< faults
    /\ faults' = faults - s[2]
    /\ rxFifo' = rxFifo \o s[1]

Run ==
  /\ pc \in {"idle", "insync", "lost"}
  /\ runs < MaxRuns
  /\ runs' = runs + 1
  /\ \E seg \in Segments :
       /\ Transmit([k \in 1 .. Len(seg) |-> <<seg[k], runs + 1>>])
       /\ need' = Cardinality({k \in DOMAIN seg : seg[k] # "q"})
  /\ timer' = RunTicks
  /\ pc' = "run"
  /\ UNCHANGED <<quiet, attempt, eng, current, clock, up, swallowed>>

\* The next attempt: drain first.
StartAttempt ==
  /\ pc' = "drain"
  /\ quiet' = QuietTicks
  /\ timer' = LimitTicks

StartResync ==
  /\ StartAttempt
  /\ attempt' = 1

\* Slip: the marker is not looked at.
RunReadTrusting ==
  /\ pc = "run"
  /\ up # <<>>
  /\ up' = Tail(up)
  /\ need' = need - 1
  /\ timer' = IF need > 1 THEN RunTicks ELSE 0
  /\ pc' = IF need > 1 THEN "run" ELSE "idle"
  /\ UNCHANGED <<runs, quiet, attempt, engVars, faults, swallowed>>

\* The run reads a reply.  With the last one comes _dispatch's look at the
\* marker, and resync if it is not there.
RunRead ==
  /\ pc = "run"
  /\ up # <<>>
  /\ up' = Tail(up)
  /\ need' = need - 1
  /\ IF need > 1
     THEN /\ timer' = RunTicks
          /\ UNCHANGED <<pc, quiet, attempt>>
     ELSE IF Head(up) = <<"m", runs>>
          THEN /\ pc' = "idle"
               /\ timer' = 0
               /\ UNCHANGED <<quiet, attempt>>
          ELSE StartResync
  /\ UNCHANGED <<runs, engVars, faults, swallowed>>

RunTimeout ==
  /\ pc = "run"
  /\ up = <<>>
  /\ timer = 0
  /\ StartResync
  /\ UNCHANGED <<runs, need, engVars, up, faults, swallowed>>

\* The process is killed; the next one begins its open with a resync.
Kill ==
  /\ Kills
  /\ pc = "run"
  /\ StartResync
  /\ UNCHANGED <<runs, need, engVars, up, faults, swallowed>>

DrainRead ==
  /\ pc = "drain"
  /\ up # <<>>
  /\ timer > 0
  /\ up' = <<>>
  /\ quiet' = QuietTicks
  /\ UNCHANGED <<pc, runs, need, timer, attempt, engVars, faults, swallowed>>

\* Slip: the pattern is written as soon as there is nothing to read.
DrainOnce ==
  /\ pc = "drain"
  /\ up = <<>>
  /\ pc' = "write"
  /\ UNCHANGED <<runs, need, timer, quiet, attempt, engVars, up, faults, swallowed>>

DrainEnd ==
  /\ pc = "drain"
  /\ timer > 0 => up = <<>> /\ quiet = 0
  /\ pc' = "write"
  /\ UNCHANGED <<runs, need, timer, quiet, attempt, engVars, up, faults, swallowed>>

\* ECHO 5A, ECHO A5, INFO
WritePattern ==
  /\ pc = "write"
  /\ Transmit(<< <<"pattern", 0>> >>)
  /\ timer' = ReadTicks
  /\ pc' = "read"
  /\ UNCHANGED <<runs, need, quiet, attempt, eng, current, clock, up, swallowed>>

\* Slip: one attempt too many.
AttemptFailedLate ==
  IF attempt =< Attempts
  THEN /\ attempt' = attempt + 1
       /\ StartAttempt
  ELSE /\ pc' = "lost"
       /\ timer' = 0
       /\ UNCHANGED <<attempt, quiet>>

AttemptFailed ==
  IF attempt < Attempts
  THEN /\ attempt' = attempt + 1
       /\ StartAttempt
  ELSE /\ pc' = "lost"
       /\ timer' = 0
       /\ UNCHANGED <<attempt, quiet>>

\* The pattern is searched for in the first bytes read; something else may
\* stand before it, or leave no room for it.
ReadPattern ==
  /\ pc = "read"
  /\ up # <<>>
  /\ up' = Tail(up)
  /\ \/ /\ Head(up)[1] = "pattern"
        /\ pc' = "insync"
        /\ timer' = 0
        /\ UNCHANGED <<attempt, quiet>>
     \/ /\ Head(up)[1] # "pattern"
        /\ UNCHANGED <<pc, timer, attempt, quiet>>
     \/ /\ Head(up)[1] # "pattern"
        /\ AttemptFailed
  /\ UNCHANGED <<runs, need, engVars, faults, swallowed>>

ReadTimeout ==
  /\ pc = "read"
  /\ up = <<>>
  /\ timer = 0
  /\ AttemptFailed
  /\ UNCHANGED <<runs, need, engVars, up, faults, swallowed>>

------------------------------------------------------------------------------
(* The engine *)

Fetch ==
  /\ eng = "fetch"
  /\ rxFifo # <<>>
  /\ rxFifo' = Tail(rxFifo)
  /\ current' = Head(rxFifo)
  /\ IF Head(rxFifo)[1] = "half"
     THEN /\ eng' = "args"
          /\ clock' = 0
     ELSE /\ eng' = "busy"
          /\ clock' \in IF Head(rxFifo)[1] = "r" THEN 0 .. BusyTicks ELSE {0}
  /\ UNCHANGED <<hostVars, up, faults, swallowed>>

\* The operation takes the bytes it misses from what follows.  It may need
\* all of that and more, or be complete and leave a rest that is no
\* operation any more.
Swallow ==
  /\ eng = "args"
  /\ rxFifo # <<>>
  /\ rxFifo' = Tail(rxFifo)
  /\ swallowed' = (swallowed \/ Head(rxFifo)[1] = "pattern")
  /\ clock' = 0
  /\ \/ UNCHANGED <<eng, current>>
     \/ /\ eng' = "busy"
        /\ current' \in {<<"q", 0>>, <<"r", 0>>}
  /\ UNCHANGED <<hostVars, up, faults>>

\* Slip: the inter-byte timeout is forgotten while arguments are read.
DropNothing == FALSE

\* Inter-byte timeout.
Drop ==
  /\ eng = "args"
  /\ rxFifo = <<>>
  /\ clock >= IbTicks
  /\ eng' = "fetch"
  /\ clock' = 0
  /\ UNCHANGED <<hostVars, rxFifo, current, up, faults, swallowed>>

\* A read whose length was made up of other bytes may answer more than any
\* operation that was sent.
Replies(op) ==
  CASE op[1] = "q" -> {<<>>}
    [] op = <<"r", 0>> -> {<<op>>, <<op, op>>}
    [] OTHER -> {<<op>>}

\* The operation is done; its reply goes out, if it has one, and may be lost.
Done ==
  /\ eng = "busy"
  /\ clock = 0
  /\ eng' = "fetch"
  /\ \/ /\ up' \in {up \o reply : reply \in Replies(current)}
        /\ UNCHANGED faults
     \/ /\ current[1] # "q"
        /\ faults > 0
        /\ faults' = faults - 1
        /\ UNCHANGED up
  /\ UNCHANGED <<hostVars, rxFifo, current, clock, swallowed>>

------------------------------------------------------------------------------
\* Only a wait for the flash chip, and one for missing bytes, takes time; and
\* a host that drains looks at its input all the time.
EngineWaits ==
  \/ eng = "fetch" /\ rxFifo = <<>>
  \/ eng = "args" /\ rxFifo = <<>> /\ clock < IbTicks
  \/ eng = "busy" /\ clock > 0

Less(n) == IF n > 0 THEN n - 1 ELSE 0

Tick ==
  /\ EngineWaits
  /\ pc = "drain" => up = <<>>
  /\ timer > 0 \/ quiet > 0 \/ eng # "fetch"
  /\ timer' = Less(timer)
  /\ quiet' = Less(quiet)
  /\ clock' = CASE eng = "args" -> clock + 1
                [] eng = "busy" -> clock - 1
                [] OTHER -> clock
  /\ UNCHANGED <<pc, runs, need, attempt, rxFifo, eng, current, up, faults, swallowed>>

HostRun == RunRead \/ RunTimeout
HostResync == DrainRead \/ DrainEnd \/ WritePattern \/ ReadPattern \/ ReadTimeout
Engine == Fetch \/ Swallow \/ Drop \/ Done

Next == Run \/ Kill \/ HostRun \/ HostResync \/ Engine \/ Tick

Spec == Init /\ [][Next]_vars

\* The host goes on with what it began; the engine and time always do.
FairSpec ==
  /\ Spec
  /\ WF_vars(HostRun)
  /\ WF_vars(HostResync)
  /\ WF_vars(Engine)
  /\ WF_vars(Tick)

------------------------------------------------------------------------------
TypeOK ==
  /\ pc \in {"idle", "run", "drain", "write", "read", "insync", "lost"}
  /\ runs \in 0 .. MaxRuns
  /\ need \in Nat
  /\ timer \in Nat
  /\ quiet \in 0 .. QuietTicks
  /\ attempt \in 0 .. Attempts
  /\ rxFifo \in Seq(Kinds \X (0 .. MaxRuns))
  /\ eng \in {"fetch", "args", "busy"}
  /\ current \in Kinds \X (0 .. MaxRuns)
  /\ clock \in Nat
  /\ up \in Seq(Kinds \X (0 .. MaxRuns))
  /\ faults \in 0 .. MaxFaults
  /\ swallowed \in BOOLEAN

\* The drain outlasts the inter-byte timeout: what resync writes is never
\* taken for the missing bytes of an operation.
PatternWhole == ~swallowed

\* resync "brings host and engine back into step": when it has found the
\* pattern, the engine waits for an operation and nothing is on the way; and a
\* run that found its marker where it belongs has left nothing behind either,
\* whatever was lost or made up on the way.
BackInStep ==
  /\ TypeOK /\ PatternWhole
  /\ pc \in {"insync", "idle"} => eng = "fetch" /\ rxFifo = <<>> /\ up = <<>>

\* Once no more bytes get lost, a resync that begins finds the engine.
ResyncFinds == (pc = "drain" /\ attempt = 1 /\ faults = 0) ~> pc = "insync"
==============================================================================
