------------------------------ MODULE BaudSwitch ------------------------------
(***************************************************************************)
(* How host and engine agree on a UART rate: Device.open finds the engine, *)
(* negotiate_baud tries faster rates, close goes back to the default, and  *)
(* the engine's watchdog undoes a rate nobody confirmed.                   *)
(*                                                                         *)
(* A message (SET_BAUD, ECHO pair, resync pattern, INFO) arrives whole     *)
(* when both ends run at the same rate and that rate works in its          *)
(* direction; otherwise, or when a fault hits it, it does not arrive.      *)
(* Bytes received at a wrong rate are taken to form no confirmation.       *)
(* Time passes in ticks; the host may be late with any step, the engine    *)
(* and the wire are faster than a tick.                                    *)
(***************************************************************************)
EXTENDS Integers, Sequences

CONSTANTS
  Default,       \* DEFAULT_BAUD, BAUD_DIV_DEFAULT
  Candidates,    \* BAUD_CANDIDATES, a sequence of faster rates
  MaxFaults,     \* messages lost and host processes killed
  WatchdogTicks, \* BAUD_WD_MS
  AckTicks,      \* read(1, 1.0)
  EchoTicks,     \* read(2, 0.4)
  RevertTicks,   \* sleep(1.2)
  ResyncTicks    \* drain and read(..., 1.0) of one resync attempt

Faster == {Candidates[k] : k \in 1 .. Len(Candidates)}
Rates == Faster \cup {Default}

\* The host waits for the engine's watchdog before it looks for it again.
ASSUME TicksAssumption ==
  /\ {WatchdogTicks, AckTicks, EchoTicks, RevertTicks, ResyncTicks} \subseteq Nat
  /\ RevertTicks > WatchdogTicks

ASSUME SizesAssumption ==
  /\ Candidates \in Seq(Faster)
  /\ MaxFaults \in Nat

VARIABLES
  pc,        \* where the host is
  todo,      \* what a resync is for: "open", "scan", "query", "tryBaud", "close"
  attempt,   \* attempts of the resync left
  cand,      \* candidate being scanned or tried
  timer,     \* ticks until the host's read or sleep is over
  hostRate,  \* link.baudrate
  rx,        \* reply waiting in the host's serial driver, or "none"
  down,      \* message on its way to the engine, or "none"
  downRate,  \* the rate it is sent at
  engRate,   \* baud_div
  newRate,   \* argument of the SET_BAUD on its way
  pending,   \* baud_pending
  wd,        \* wd_ms
  works,     \* works[r]: directions in which rate r works
  faults     \* faults that may still happen

hostVars == <<pc, todo, attempt, cand, timer, hostRate>>
engVars == <<engRate, pending, wd>>
vars == <<hostVars, rx, down, downRate, newRate, engVars, works, faults>>

BothWays == {"down", "up"}

Init ==
  /\ pc = "closed"
  /\ todo = "open"
  /\ attempt = 0
  /\ cand = 1
  /\ timer = 0
  /\ hostRate = Default
  /\ rx = "none"
  /\ down = "none"
  /\ downRate = Default
  /\ engRate = Default
  /\ newRate = Default
  /\ pending = FALSE
  /\ wd = 0
  /\ works \in {w \in [Rates -> SUBSET BothWays] : w[Default] = BothWays}
  /\ faults = MaxFaults

------------------------------------------------------------------------------
(* Steps of the host *)

\* link.write: input that came before and was not read stays in the driver.
Send(msg, ticks) ==
  /\ down = "none"
  /\ down' = msg
  /\ downRate' = hostRate
  /\ timer' = ticks

\* A read succeeded, or its time is up.
Answered(msg) == rx = msg
TimedOut(msg) == rx # msg /\ timer = 0 /\ down = "none"

StartResync(what, n, rate) ==
  /\ pc' = "drain"
  /\ todo' = what
  /\ attempt' = n
  /\ hostRate' = rate
  /\ timer' = 0

\* A new process: SerialLink opens the port at the default rate.
Open ==
  /\ pc \in {"closed", "failed"}
  /\ StartResync("open", 3, Default)
  /\ rx' = "none"
  /\ cand' = 1
  /\ UNCHANGED <<down, downRate, newRate, engVars, works, faults>>

\* resync: discard the input, send the pattern.
ResyncSend ==
  /\ pc = "drain"
  /\ Send("probe", ResyncTicks)
  /\ rx' = "none"
  /\ attempt' = attempt - 1
  /\ pc' = "resync"
  /\ UNCHANGED <<todo, cand, hostRate, newRate, engVars, works, faults>>

\* Slip: the candidate is counted twice.
NextCandidateTwice(k) ==
  /\ pc' = IF k =< Len(Candidates) THEN "try" ELSE "ready"
  /\ cand' = k + 1

\* Try the next candidate, or settle for the rate the link has.
NextCandidate(k) ==
  /\ pc' = IF k =< Len(Candidates) THEN "try" ELSE "ready"
  /\ cand' = k

ResyncOK ==
  /\ pc = "resync"
  /\ Answered("probe")
  /\ rx' = "none"
  /\ \/ /\ todo \in {"open", "scan"}
        /\ pc' = "query"
        /\ UNCHANGED cand
     \/ /\ todo = "tryBaud"
        /\ NextCandidate(cand + 1)
     \/ /\ todo = "query"
        /\ pc' = "failed"
        /\ UNCHANGED cand
     \/ /\ todo = "close"
        /\ pc' = "closed"
        /\ UNCHANGED cand
  /\ timer' = 0
  /\ UNCHANGED <<todo, attempt, hostRate, down, downRate, newRate, engVars, works, faults>>

\* Slip: no other rate is tried.
ScanNothing(k) ==
  /\ pc' = "failed"
  /\ timer' = 0
  /\ UNCHANGED <<todo, attempt, cand, hostRate>>

\* open: after a failed resync, one attempt at each rate an earlier session
\* may have left the engine at.
ScanNext(k) ==
  IF k =< Len(Candidates) + 1
  THEN /\ StartResync("scan", 1, (Candidates \o <<Default>>)[k])
       /\ cand' = k
  ELSE /\ pc' = "failed"
       /\ timer' = 0
       /\ UNCHANGED <<todo, attempt, cand, hostRate>>

ResyncTimeout ==
  /\ pc = "resync"
  /\ TimedOut("probe")
  /\ IF attempt > 0
     THEN /\ pc' = "drain"
          /\ UNCHANGED <<todo, attempt, cand, timer, hostRate>>
     ELSE \/ /\ todo = "open"
             /\ ScanNext(1)
          \/ /\ todo = "scan"
             /\ ScanNext(cand + 1)
          \/ /\ todo \in {"query", "tryBaud"}
             /\ pc' = "failed"
             /\ UNCHANGED <<todo, attempt, cand, timer, hostRate>>
          \/ /\ todo = "close"
             /\ pc' = "closed"
             /\ UNCHANGED <<todo, attempt, cand, timer, hostRate>>
  /\ UNCHANGED <<rx, down, downRate, newRate, engVars, works, faults>>

\* open: query_info is a batch of its own, with a marker and a deadline.
QueryInfo ==
  /\ pc = "query"
  /\ Send("info", AckTicks)
  /\ pc' = "queryWait"
  /\ UNCHANGED <<todo, attempt, cand, hostRate, rx, newRate, engVars, works, faults>>

QueryDone ==
  /\ pc = "queryWait"
  /\ \/ /\ Answered("info")
        /\ rx' = "none"
        /\ NextCandidate(1)
        /\ UNCHANGED <<todo, attempt, hostRate, timer>>
     \/ /\ TimedOut("info")
        /\ StartResync("query", 3, hostRate)
        /\ UNCHANGED <<cand, rx>>
  /\ UNCHANGED <<down, downRate, newRate, engVars, works, faults>>

\* _try_baud
SetBaud ==
  /\ pc = "try"
  /\ Send("setBaud", AckTicks)
  /\ newRate' = Candidates[cand]
  /\ pc' = "ack"
  /\ UNCHANGED <<todo, attempt, cand, hostRate, rx, engVars, works, faults>>

\* With the acknowledge the host changes its rate too; without it, the engine
\* is looked for at the rate the host has.
AckDone ==
  /\ pc = "ack"
  /\ \/ /\ Answered("ack")
        /\ hostRate' = Candidates[cand]
        /\ rx' = "none"
        /\ pc' = "confirm"
        /\ timer' = 0
        /\ UNCHANGED <<todo, attempt>>
     \/ /\ TimedOut("ack")
        /\ StartResync("tryBaud", 3, hostRate)
        /\ UNCHANGED rx
  /\ UNCHANGED <<cand, down, downRate, newRate, engVars, works, faults>>

Confirm ==
  /\ pc = "confirm"
  /\ Send("echo", EchoTicks)
  /\ rx' = "none"
  /\ pc' = "confirmWait"
  /\ UNCHANGED <<todo, attempt, cand, hostRate, newRate, engVars, works, faults>>

ConfirmDone ==
  /\ pc = "confirmWait"
  /\ \/ /\ Answered("echo")
        /\ pc' = "ready"
        /\ rx' = "none"
        /\ UNCHANGED <<hostRate, timer>>
     \/ /\ TimedOut("echo")
        /\ pc' = "revert"
        /\ hostRate' = Default
        /\ timer' = RevertTicks
        /\ UNCHANGED rx
  /\ UNCHANGED <<todo, attempt, cand, down, downRate, newRate, engVars, works, faults>>

\* Slip: goes on to the next candidate without resynchronising.
RevertedBlindly ==
  /\ pc = "revert"
  /\ timer = 0
  /\ NextCandidate(cand + 1)
  /\ UNCHANGED <<todo, attempt, hostRate, timer, rx, down, downRate, newRate, engVars, works,
                 faults>>

Reverted ==
  /\ pc = "revert"
  /\ timer = 0
  /\ StartResync("tryBaud", 3, Default)
  /\ UNCHANGED <<cand, rx, down, downRate, newRate, engVars, works, faults>>

\* close: a batch that leaves the pins safe, then the default rate.
Close ==
  /\ pc = "ready"
  /\ Send("info", AckTicks)
  /\ pc' = "closing"
  /\ UNCHANGED <<todo, attempt, cand, hostRate, rx, newRate, engVars, works, faults>>

CloseBaud ==
  /\ pc = "closing"
  /\ \/ /\ Answered("info")
        /\ rx' = "none"
        /\ IF hostRate # Default
           THEN /\ Send("setBaud", AckTicks)
                /\ newRate' = Default
                /\ pc' = "closeAck"
           ELSE /\ pc' = "closed"
                /\ UNCHANGED <<down, downRate, timer, newRate>>
        /\ UNCHANGED <<todo, attempt, hostRate>>
     \/ /\ TimedOut("info")
        /\ StartResync("close", 3, hostRate)
        /\ UNCHANGED <<rx, down, downRate, newRate>>
  /\ UNCHANGED <<cand, engVars, works, faults>>

Closed ==
  /\ pc = "closeAck"
  /\ Answered("ack") \/ TimedOut("ack")
  /\ pc' = "closed"
  /\ UNCHANGED <<todo, attempt, cand, timer, hostRate, rx, down, downRate, newRate, engVars,
                 works, faults>>

\* The process dies anywhere, without close().
Kill ==
  /\ pc \notin {"closed", "failed"}
  /\ faults > 0
  /\ faults' = faults - 1
  /\ pc' = "closed"
  /\ timer' = 0
  /\ UNCHANGED <<todo, attempt, cand, hostRate, rx, down, downRate, newRate, engVars, works>>

------------------------------------------------------------------------------
(* The wire and the engine *)

ReachesEngine == downRate = engRate /\ "down" \in works[downRate]

\* The reply leaves at the engine's rate of the moment: SET_BAUD answers
\* before it switches (tx_drained).
Reply(msg, lost) ==
  rx' = IF hostRate = engRate /\ "up" \in works[engRate] /\ ~lost THEN msg ELSE rx

\* S_DONE: ECHO and INFO confirm the rate.
Confirms(msg) == msg \in {"probe", "echo", "info"}

\* Slip: the rate is confirmed by SET_BAUD itself.
ObeyUnguarded(msg) ==
  IF msg = "setBaud"
  THEN engRate' = newRate /\ pending' = FALSE /\ wd' = 0
  ELSE /\ pending' = (pending /\ ~Confirms(msg))
       /\ wd' = IF Confirms(msg) THEN 0 ELSE wd
       /\ UNCHANGED engRate

\* S_BAUD_SW and S_DONE
Obey(msg) ==
  IF msg = "setBaud"
  THEN engRate' = newRate /\ pending' = TRUE /\ wd' = 0
  ELSE /\ pending' = (pending /\ ~Confirms(msg))
       /\ wd' = IF Confirms(msg) THEN 0 ELSE wd
       /\ UNCHANGED engRate

\* An operation that was waiting for bytes when nothing more came is dropped
\* by the inter-byte timeout, so a message is obeyed whole or not at all.
Receive ==
  /\ down # "none"
  /\ ReachesEngine
  /\ \E lost \in BOOLEAN :
       /\ lost => faults > 0
       /\ faults' = IF lost THEN faults - 1 ELSE faults
       /\ Reply(IF down = "setBaud" THEN "ack" ELSE down, lost)
  /\ Obey(down)
  /\ down' = "none"
  /\ UNCHANGED <<hostVars, downRate, newRate, works>>

Miss ==
  /\ down # "none"
  /\ ~ReachesEngine
  /\ down' = "none"
  /\ UNCHANGED <<hostVars, rx, downRate, newRate, engVars, works, faults>>

Lose ==
  /\ down # "none"
  /\ faults > 0
  /\ faults' = faults - 1
  /\ down' = "none"
  /\ UNCHANGED <<hostVars, rx, downRate, newRate, engVars, works>>

\* Baud-rate confirmation watchdog.
Watchdog ==
  /\ pending
  /\ wd >= WatchdogTicks
  /\ engRate' = Default
  /\ pending' = FALSE
  /\ UNCHANGED <<hostVars, rx, down, downRate, newRate, wd, works, faults>>

Tick ==
  /\ down = "none"
  /\ timer > 0 \/ pending
  /\ pending => wd < WatchdogTicks
  /\ timer' = IF timer > 0 THEN timer - 1 ELSE 0
  /\ wd' = IF pending THEN wd + 1 ELSE wd
  /\ UNCHANGED <<pc, todo, attempt, cand, hostRate, rx, down, downRate, newRate, engRate, pending,
                 works, faults>>

------------------------------------------------------------------------------
TryBaud == SetBaud \/ AckDone \/ Confirm \/ ConfirmDone \/ Reverted
Resync == ResyncSend \/ ResyncOK \/ ResyncTimeout
Query == QueryInfo \/ QueryDone
Shut == Close \/ CloseBaud \/ Closed

Next ==
  \/ Open \/ Resync \/ Query \/ TryBaud \/ Shut \/ Kill
  \/ Receive \/ Miss \/ Lose \/ Watchdog \/ Tick

Spec == Init /\ [][Next]_vars

\* A host that began to open goes on; the wire, the engine and time always do.
FairSpec ==
  /\ Spec
  /\ WF_vars(Resync \/ Query \/ TryBaud)
  /\ WF_vars(CloseBaud \/ Closed)
  /\ WF_vars(Receive \/ Miss)
  /\ WF_vars(Watchdog)
  /\ WF_vars(Tick)

------------------------------------------------------------------------------
TypeOK ==
  /\ pc \in {"closed", "drain", "resync", "query", "queryWait", "try", "ack", "confirm",
             "confirmWait", "revert", "ready", "closing", "closeAck", "failed"}
  /\ todo \in {"open", "scan", "query", "tryBaud", "close"}
  /\ attempt \in 0 .. 3
  /\ cand \in 1 .. (Len(Candidates) + 1)
  /\ timer \in Nat
  /\ {hostRate, downRate, engRate, newRate} \subseteq Rates
  /\ rx \in {"none", "probe", "info", "echo", "ack"}
  /\ down \in {"none", "probe", "info", "echo", "setBaud"}
  /\ pending \in BOOLEAN
  /\ wd \in 0 .. WatchdogTicks
  /\ works \in [Rates -> SUBSET BothWays]
  /\ faults \in 0 .. MaxFaults

\* Once open has returned, host and engine run at the same rate, it works both
\* ways, and no watchdog is left that would take the engine off it.
InStep ==
  /\ TypeOK
  /\ pc = "ready" =>
       /\ hostRate = engRate
       /\ works[engRate] = BothWays
       /\ ~pending

\* A rate at which the engine hears nothing is never kept: outside the
\* watchdog's second the engine is at a rate the host can reach it at.
EngineReachable == ~pending => "down" \in works[engRate]

\* Every rate works in both directions or in none.
AllOrNone == \A r \in Rates : works[r] \in {{}, BothWays}

\* Rates that do not work at all are no reason to fail: only a fault is,
\* however late the host is with any step.
OnlyFaultsFail == pc = "failed" /\ AllOrNone => faults < MaxFaults

\* Contact is not lost by negotiating: the engine is left where it hears the
\* host, and an open that fails met a fault.
NegotiatingIsSafe == EngineReachable /\ OnlyFaultsFail

\* Whatever happened to earlier sessions, the next open that meets no fault
\* finds the engine, provided no rate works in one direction only.
OpenRecovers ==
  pc = "drain" /\ todo = "open" /\ attempt = 3 /\ faults = 0 /\ AllOrNone ~> pc = "ready"
==============================================================================
