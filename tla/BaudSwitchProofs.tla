--------------------------- MODULE BaudSwitchProofs ---------------------------
(***************************************************************************)
(* Proofs about BaudSwitch, for every list of candidate rates, whichever   *)
(* of them work in which direction, every number of faults and every       *)
(* timing in which the host's pause after a failed rate outlasts the       *)
(* engine's watchdog.                                                      *)
(***************************************************************************)
EXTENDS BaudSwitch, SequenceTheorems, TLAPS

------------------------------------------------------------------------------
(* The inductive invariant *)

\* The message the host waits for the answer of.
Asked ==
  CASE pc = "resync" -> "probe"
    [] pc \in {"queryWait", "closing"} -> "info"
    [] pc \in {"ack", "closeAck"} -> "setBaud"
    [] pc = "confirmWait" -> "echo"
    [] OTHER -> "none"

Answer(msg) == IF msg = "setBaud" THEN "ack" ELSE msg

\* A killed session may have left anything on the wire; the next one drains it.
InSession == pc \notin {"closed", "failed", "drain"}

\* In a session nothing is on the wire but what the host asked last, at the
\* host's rate, and nothing in its driver but the answer.
LineInv ==
  InSession =>
    /\ down \in {"none", Asked}
    /\ rx \in {"none", Answer(Asked)}
    /\ down # "none" => rx = "none" /\ downRate = hostRate

\* Host and engine have heard each other and the rate is confirmed.
Met ==
  /\ hostRate = engRate
  /\ works[engRate] = BothWays
  /\ ~pending

MetInv ==
  /\ pc \in {"query", "try", "ready"} => Met
  /\ InSession /\ rx \in {"probe", "info", "echo"} => Met

Trying ==
  \/ pc \in {"try", "ack", "confirm", "confirmWait", "revert"}
  \/ pc \in {"drain", "resync"} /\ todo = "tryBaud"

CountInv ==
  /\ pc = "drain" => attempt > 0
  /\ Trying => cand =< Len(Candidates)

ReachInv ==
  /\ works[Default] = BothWays
  /\ EngineReachable

Undisturbed == faults = MaxFaults /\ AllOrNone

\* Without a fault the host is never wrong about the engine for longer than the
\* watchdog: it looks for it at the default rate only, and finds it there.
UndisturbedInv ==
  Undisturbed =>
    /\ pc # "failed"
    /\ pc \in {"closed", "drain"} => down = "none"
    /\ pc \in {"closed", "drain", "resync"} => engRate = Default
    /\ pc \in {"drain", "resync"} => hostRate = Default /\ todo \in {"open", "tryBaud"}
    /\ pc \in {"resync", "queryWait", "ack", "closing", "closeAck"} /\ rx = "none" => down = Asked
    /\ pc \in {"queryWait", "ack", "closing", "closeAck"} /\ rx = "none" => Met
    /\ pc = "closeAck" => IF rx = "none" THEN newRate = Default ELSE engRate = Default
    /\ \/ pc = "confirm"
       \/ pc = "ack" /\ rx # "none"
       \/ pc = "confirmWait" /\ rx = "none"
       => engRate = Default \/ pending
    /\ pc = "revert" => engRate = Default \/ (pending /\ timer + wd >= RevertTicks)

IndInv == TypeOK /\ LineInv /\ MetInv /\ CountInv /\ ReachInv /\ UndisturbedInv

------------------------------------------------------------------------------
(* What the constants and the types give. *)
LEMMA Sizes ==
  /\ Len(Candidates) \in Nat
  /\ \A k \in 1 .. Len(Candidates) : Candidates[k] \in Rates
  /\ \A k \in 1 .. (Len(Candidates) + 1) : (Candidates \o <<Default>>)[k] \in Rates
  /\ WatchdogTicks \in Nat /\ AckTicks \in Nat /\ EchoTicks \in Nat
  /\ RevertTicks \in Nat /\ ResyncTicks \in Nat /\ RevertTicks > WatchdogTicks
  /\ MaxFaults \in Nat
<1>1. Len(Candidates) \in Nat
  BY SizesAssumption
<1>2. \A k \in 1 .. Len(Candidates) : Candidates[k] \in Rates
  BY DEF Rates, Faster
<1>3. ASSUME NEW k \in 1 .. (Len(Candidates) + 1) PROVE (Candidates \o <<Default>>)[k] \in Rates
  <2>1. Candidates \in Seq(Rates) /\ <<Default>> \in Seq(Rates)
    BY SizesAssumption DEF Rates
  <2>2. /\ Len(Candidates \o <<Default>>) = Len(Candidates) + 1
        /\ Candidates \o <<Default>> \in Seq(Rates)
    BY <2>1, ConcatProperties
  <2> QED BY <2>2
<1> QED BY <1>1, <1>2, <1>3, TicksAssumption, SizesAssumption

LEMMA InitInd == Init => IndInv
<1> SUFFICES ASSUME Init PROVE IndInv
  OBVIOUS
<1>1. TypeOK
  <2>1. Default \in Rates /\ {hostRate, downRate, engRate, newRate} \subseteq Rates
    BY DEF Init, Rates
  <2>2. cand \in 1 .. (Len(Candidates) + 1) /\ wd \in 0 .. WatchdogTicks /\ faults \in 0 .. MaxFaults
    BY Sizes DEF Init
  <2>3. timer \in Nat /\ attempt \in 0 .. 3 /\ works \in [Rates -> SUBSET BothWays]
    BY DEF Init
  <2> QED BY <2>1, <2>2, <2>3 DEF Init, TypeOK
<1>2. LineInv /\ MetInv
  BY DEF Init, LineInv, MetInv, InSession
<1>3. CountInv /\ ReachInv
  BY DEF Init, CountInv, Trying, ReachInv, EngineReachable, BothWays
<1>4. UndisturbedInv
  BY DEF Init, UndisturbedInv
<1> QED BY <1>1, <1>2, <1>3, <1>4 DEF IndInv

------------------------------------------------------------------------------
(* Steps of the host.  UndisturbedInv is what has to be shown at every one of *)
(* them: where it waits, the answer is there or its message is on the wire.   *)

LEMMA OpenInd == IndInv /\ Open => IndInv'
<1> SUFFICES ASSUME IndInv, Open PROVE IndInv'
  OBVIOUS
<1> USE DEF Open, StartResync, hostVars, engVars
<1>1. TypeOK'
  BY Sizes DEF IndInv, TypeOK, CountInv, Trying
<1>2. LineInv'
  BY DEF IndInv, LineInv, InSession, Asked, Answer
<1>3. MetInv'
  BY DEF IndInv, LineInv, MetInv, Met, InSession, Asked, Answer
<1>4. CountInv'
  BY Sizes DEF IndInv, TypeOK, CountInv, Trying
<1>5. ReachInv'
  BY DEF IndInv, TypeOK, ReachInv, EngineReachable, BothWays
<1>6. UndisturbedInv'
  BY Sizes DEF IndInv, TypeOK, LineInv, MetInv, Met, InSession, Asked, Answer, UndisturbedInv,
               Undisturbed, AllOrNone, BothWays
<1> QED BY <1>1, <1>2, <1>3, <1>4, <1>5, <1>6 DEF IndInv

LEMMA ResyncSendInd == IndInv /\ ResyncSend => IndInv'
<1> SUFFICES ASSUME IndInv, ResyncSend PROVE IndInv'
  OBVIOUS
<1> USE DEF ResyncSend, Send, hostVars, engVars
<1>1. TypeOK'
  BY Sizes DEF IndInv, TypeOK, CountInv, Trying
<1>2. LineInv'
  BY DEF IndInv, LineInv, InSession, Asked, Answer
<1>3. MetInv'
  BY DEF IndInv, LineInv, MetInv, Met, InSession, Asked, Answer
<1>4. CountInv'
  BY Sizes DEF IndInv, TypeOK, CountInv, Trying
<1>5. ReachInv'
  BY DEF IndInv, TypeOK, ReachInv, EngineReachable, BothWays
<1>6. UndisturbedInv'
  BY Sizes DEF IndInv, TypeOK, LineInv, MetInv, Met, InSession, Asked, Answer, UndisturbedInv,
               Undisturbed, AllOrNone, BothWays
<1> QED BY <1>1, <1>2, <1>3, <1>4, <1>5, <1>6 DEF IndInv

LEMMA ResyncOKInd == IndInv /\ ResyncOK => IndInv'
<1> SUFFICES ASSUME IndInv, ResyncOK PROVE IndInv'
  OBVIOUS
<1> USE DEF ResyncOK, Answered, NextCandidate, hostVars, engVars
<1>1. TypeOK'
  BY Sizes DEF IndInv, TypeOK, CountInv, Trying
<1>2. LineInv'
  BY DEF IndInv, LineInv, InSession, Asked, Answer
<1>3. MetInv'
  BY DEF IndInv, LineInv, MetInv, Met, InSession, Asked, Answer
<1>4. CountInv'
  BY Sizes DEF IndInv, TypeOK, CountInv, Trying
<1>5. ReachInv'
  BY DEF IndInv, TypeOK, ReachInv, EngineReachable, BothWays
<1>6. UndisturbedInv'
  BY Sizes DEF IndInv, TypeOK, LineInv, MetInv, Met, InSession, Asked, Answer, UndisturbedInv,
               Undisturbed, AllOrNone, BothWays
<1> QED BY <1>1, <1>2, <1>3, <1>4, <1>5, <1>6 DEF IndInv

LEMMA ResyncTimeoutInd == IndInv /\ ResyncTimeout => IndInv'
<1> SUFFICES ASSUME IndInv, ResyncTimeout PROVE IndInv'
  OBVIOUS
<1> USE DEF ResyncTimeout, TimedOut, ScanNext, StartResync, hostVars, engVars
<1>1. TypeOK'
  BY Sizes DEF IndInv, TypeOK, CountInv, Trying
<1>2. LineInv'
  BY DEF IndInv, LineInv, InSession, Asked, Answer
<1>3. MetInv'
  BY DEF IndInv, LineInv, MetInv, Met, InSession, Asked, Answer
<1>4. CountInv'
  BY Sizes DEF IndInv, TypeOK, CountInv, Trying
<1>5. ReachInv'
  BY DEF IndInv, TypeOK, ReachInv, EngineReachable, BothWays
<1>6. UndisturbedInv'
  BY Sizes DEF IndInv, TypeOK, LineInv, MetInv, Met, InSession, Asked, Answer, UndisturbedInv,
               Undisturbed, AllOrNone, BothWays
<1> QED BY <1>1, <1>2, <1>3, <1>4, <1>5, <1>6 DEF IndInv

LEMMA QueryInfoInd == IndInv /\ QueryInfo => IndInv'
<1> SUFFICES ASSUME IndInv, QueryInfo PROVE IndInv'
  OBVIOUS
<1> USE DEF QueryInfo, Send, hostVars, engVars
<1>1. TypeOK'
  BY Sizes DEF IndInv, TypeOK, CountInv, Trying
<1>2. LineInv'
  BY DEF IndInv, LineInv, InSession, Asked, Answer
<1>3. MetInv'
  BY DEF IndInv, LineInv, MetInv, Met, InSession, Asked, Answer
<1>4. CountInv'
  BY Sizes DEF IndInv, TypeOK, CountInv, Trying
<1>5. ReachInv'
  BY DEF IndInv, TypeOK, ReachInv, EngineReachable, BothWays
<1>6. UndisturbedInv'
  BY Sizes DEF IndInv, TypeOK, LineInv, MetInv, Met, InSession, Asked, Answer, UndisturbedInv,
               Undisturbed, AllOrNone, BothWays
<1> QED BY <1>1, <1>2, <1>3, <1>4, <1>5, <1>6 DEF IndInv

LEMMA QueryDoneInd == IndInv /\ QueryDone => IndInv'
<1> SUFFICES ASSUME IndInv, QueryDone PROVE IndInv'
  OBVIOUS
<1> USE DEF QueryDone, Answered, TimedOut, NextCandidate, StartResync, hostVars, engVars
<1>1. TypeOK'
  BY Sizes DEF IndInv, TypeOK, CountInv, Trying
<1>2. LineInv'
  BY DEF IndInv, LineInv, InSession, Asked, Answer
<1>3. MetInv'
  BY DEF IndInv, LineInv, MetInv, Met, InSession, Asked, Answer
<1>4. CountInv'
  BY Sizes DEF IndInv, TypeOK, CountInv, Trying
<1>5. ReachInv'
  BY DEF IndInv, TypeOK, ReachInv, EngineReachable, BothWays
<1>6. UndisturbedInv'
  BY Sizes DEF IndInv, TypeOK, LineInv, MetInv, Met, InSession, Asked, Answer, UndisturbedInv,
               Undisturbed, AllOrNone, BothWays
<1> QED BY <1>1, <1>2, <1>3, <1>4, <1>5, <1>6 DEF IndInv

LEMMA SetBaudInd == IndInv /\ SetBaud => IndInv'
<1> SUFFICES ASSUME IndInv, SetBaud PROVE IndInv'
  OBVIOUS
<1> USE DEF SetBaud, Send, hostVars, engVars
<1>1. TypeOK'
  BY Sizes DEF IndInv, TypeOK, CountInv, Trying
<1>2. LineInv'
  BY DEF IndInv, LineInv, InSession, Asked, Answer
<1>3. MetInv'
  BY DEF IndInv, LineInv, MetInv, Met, InSession, Asked, Answer
<1>4. CountInv'
  BY Sizes DEF IndInv, TypeOK, CountInv, Trying
<1>5. ReachInv'
  BY DEF IndInv, TypeOK, ReachInv, EngineReachable, BothWays
<1>6. UndisturbedInv'
  BY Sizes DEF IndInv, TypeOK, LineInv, MetInv, Met, InSession, Asked, Answer, UndisturbedInv,
               Undisturbed, AllOrNone, BothWays
<1> QED BY <1>1, <1>2, <1>3, <1>4, <1>5, <1>6 DEF IndInv

LEMMA AckDoneInd == IndInv /\ AckDone => IndInv'
<1> SUFFICES ASSUME IndInv, AckDone PROVE IndInv'
  OBVIOUS
<1> USE DEF AckDone, Answered, TimedOut, StartResync, hostVars, engVars
<1>1. TypeOK'
  BY Sizes DEF IndInv, TypeOK, CountInv, Trying
<1>2. LineInv'
  BY DEF IndInv, LineInv, InSession, Asked, Answer
<1>3. MetInv'
  BY DEF IndInv, LineInv, MetInv, Met, InSession, Asked, Answer
<1>4. CountInv'
  BY Sizes DEF IndInv, TypeOK, CountInv, Trying
<1>5. ReachInv'
  BY DEF IndInv, TypeOK, ReachInv, EngineReachable, BothWays
<1>6. UndisturbedInv'
  BY Sizes DEF IndInv, TypeOK, LineInv, MetInv, Met, InSession, Asked, Answer, UndisturbedInv,
               Undisturbed, AllOrNone, BothWays
<1> QED BY <1>1, <1>2, <1>3, <1>4, <1>5, <1>6 DEF IndInv

LEMMA ConfirmInd == IndInv /\ Confirm => IndInv'
<1> SUFFICES ASSUME IndInv, Confirm PROVE IndInv'
  OBVIOUS
<1> USE DEF Confirm, Send, hostVars, engVars
<1>1. TypeOK'
  BY Sizes DEF IndInv, TypeOK, CountInv, Trying
<1>2. LineInv'
  BY DEF IndInv, LineInv, InSession, Asked, Answer
<1>3. MetInv'
  BY DEF IndInv, LineInv, MetInv, Met, InSession, Asked, Answer
<1>4. CountInv'
  BY Sizes DEF IndInv, TypeOK, CountInv, Trying
<1>5. ReachInv'
  BY DEF IndInv, TypeOK, ReachInv, EngineReachable, BothWays
<1>6. UndisturbedInv'
  BY Sizes DEF IndInv, TypeOK, LineInv, MetInv, Met, InSession, Asked, Answer, UndisturbedInv,
               Undisturbed, AllOrNone, BothWays
<1> QED BY <1>1, <1>2, <1>3, <1>4, <1>5, <1>6 DEF IndInv

LEMMA ConfirmDoneInd == IndInv /\ ConfirmDone => IndInv'
<1> SUFFICES ASSUME IndInv, ConfirmDone PROVE IndInv'
  OBVIOUS
<1> USE DEF ConfirmDone, Answered, TimedOut, hostVars, engVars
<1>1. TypeOK'
  BY Sizes DEF IndInv, TypeOK, CountInv, Trying
<1>2. LineInv'
  BY DEF IndInv, LineInv, InSession, Asked, Answer
<1>3. MetInv'
  BY DEF IndInv, LineInv, MetInv, Met, InSession, Asked, Answer
<1>4. CountInv'
  BY Sizes DEF IndInv, TypeOK, CountInv, Trying
<1>5. ReachInv'
  BY DEF IndInv, TypeOK, ReachInv, EngineReachable, BothWays
<1>6. UndisturbedInv'
  BY Sizes DEF IndInv, TypeOK, LineInv, MetInv, Met, InSession, Asked, Answer, UndisturbedInv,
               Undisturbed, AllOrNone, BothWays
<1> QED BY <1>1, <1>2, <1>3, <1>4, <1>5, <1>6 DEF IndInv

LEMMA RevertedInd == IndInv /\ Reverted => IndInv'
<1> SUFFICES ASSUME IndInv, Reverted PROVE IndInv'
  OBVIOUS
<1> USE DEF Reverted, StartResync, hostVars, engVars
<1>1. TypeOK'
  BY Sizes DEF IndInv, TypeOK, CountInv, Trying
<1>2. LineInv'
  BY DEF IndInv, LineInv, InSession, Asked, Answer
<1>3. MetInv'
  BY DEF IndInv, LineInv, MetInv, Met, InSession, Asked, Answer
<1>4. CountInv'
  BY Sizes DEF IndInv, TypeOK, CountInv, Trying
<1>5. ReachInv'
  BY DEF IndInv, TypeOK, ReachInv, EngineReachable, BothWays
<1>6. UndisturbedInv'
  BY Sizes DEF IndInv, TypeOK, LineInv, MetInv, Met, InSession, Asked, Answer, UndisturbedInv,
               Undisturbed, AllOrNone, BothWays
<1> QED BY <1>1, <1>2, <1>3, <1>4, <1>5, <1>6 DEF IndInv

LEMMA CloseInd == IndInv /\ Close => IndInv'
<1> SUFFICES ASSUME IndInv, Close PROVE IndInv'
  OBVIOUS
<1> USE DEF Close, Send, hostVars, engVars
<1>1. TypeOK'
  BY Sizes DEF IndInv, TypeOK, CountInv, Trying
<1>2. LineInv'
  BY DEF IndInv, LineInv, InSession, Asked, Answer
<1>3. MetInv'
  BY DEF IndInv, LineInv, MetInv, Met, InSession, Asked, Answer
<1>4. CountInv'
  BY Sizes DEF IndInv, TypeOK, CountInv, Trying
<1>5. ReachInv'
  BY DEF IndInv, TypeOK, ReachInv, EngineReachable, BothWays
<1>6. UndisturbedInv'
  BY Sizes DEF IndInv, TypeOK, LineInv, MetInv, Met, InSession, Asked, Answer, UndisturbedInv,
               Undisturbed, AllOrNone, BothWays
<1> QED BY <1>1, <1>2, <1>3, <1>4, <1>5, <1>6 DEF IndInv

LEMMA CloseBaudInd == IndInv /\ CloseBaud => IndInv'
<1> SUFFICES ASSUME IndInv, CloseBaud PROVE IndInv'
  OBVIOUS
<1> USE DEF CloseBaud, Answered, TimedOut, Send, StartResync, hostVars, engVars
<1>1. TypeOK'
  BY Sizes DEF IndInv, TypeOK, CountInv, Trying
<1>2. LineInv'
  BY DEF IndInv, LineInv, InSession, Asked, Answer
<1>3. MetInv'
  BY DEF IndInv, LineInv, MetInv, Met, InSession, Asked, Answer
<1>4. CountInv'
  BY Sizes DEF IndInv, TypeOK, CountInv, Trying
<1>5. ReachInv'
  BY DEF IndInv, TypeOK, ReachInv, EngineReachable, BothWays
<1>6. UndisturbedInv'
  BY Sizes DEF IndInv, TypeOK, LineInv, MetInv, Met, InSession, Asked, Answer, UndisturbedInv,
               Undisturbed, AllOrNone, BothWays
<1> QED BY <1>1, <1>2, <1>3, <1>4, <1>5, <1>6 DEF IndInv

LEMMA ClosedInd == IndInv /\ Closed => IndInv'
<1> SUFFICES ASSUME IndInv, Closed PROVE IndInv'
  OBVIOUS
<1> USE DEF Closed, Answered, TimedOut, hostVars, engVars
<1>1. TypeOK'
  BY Sizes DEF IndInv, TypeOK, CountInv, Trying
<1>2. LineInv'
  BY DEF IndInv, LineInv, InSession, Asked, Answer
<1>3. MetInv'
  BY DEF IndInv, LineInv, MetInv, Met, InSession, Asked, Answer
<1>4. CountInv'
  BY Sizes DEF IndInv, TypeOK, CountInv, Trying
<1>5. ReachInv'
  BY DEF IndInv, TypeOK, ReachInv, EngineReachable, BothWays
<1>6. UndisturbedInv'
  BY Sizes DEF IndInv, TypeOK, LineInv, MetInv, Met, InSession, Asked, Answer, UndisturbedInv,
               Undisturbed, AllOrNone, BothWays
<1> QED BY <1>1, <1>2, <1>3, <1>4, <1>5, <1>6 DEF IndInv

LEMMA KillInd == IndInv /\ Kill => IndInv'
<1> SUFFICES ASSUME IndInv, Kill PROVE IndInv'
  OBVIOUS
<1> USE DEF Kill, hostVars, engVars
<1>1. TypeOK'
  BY Sizes DEF IndInv, TypeOK, CountInv, Trying
<1>2. LineInv'
  BY DEF IndInv, LineInv, InSession, Asked, Answer
<1>3. MetInv'
  BY DEF IndInv, LineInv, MetInv, Met, InSession, Asked, Answer
<1>4. CountInv'
  BY Sizes DEF IndInv, TypeOK, CountInv, Trying
<1>5. ReachInv'
  BY DEF IndInv, TypeOK, ReachInv, EngineReachable, BothWays
<1>6. UndisturbedInv'
  BY Sizes DEF IndInv, TypeOK, LineInv, MetInv, Met, InSession, Asked, Answer, UndisturbedInv,
               Undisturbed, AllOrNone, BothWays
<1> QED BY <1>1, <1>2, <1>3, <1>4, <1>5, <1>6 DEF IndInv

------------------------------------------------------------------------------
(* Steps of the wire and the engine *)

LEMMA ReceiveInd == IndInv /\ Receive => IndInv'
<1> SUFFICES ASSUME IndInv, Receive PROVE IndInv'
  OBVIOUS
<1> USE DEF Receive, ReachesEngine, Reply, Obey, Confirms, hostVars, engVars
<1>1. TypeOK'
  <2>1. faults' \in 0 .. MaxFaults
    BY Sizes DEF IndInv, TypeOK
  <2>2. wd' \in 0 .. WatchdogTicks
    BY Sizes DEF IndInv, TypeOK
  <2>3. rx' \in {"none", "probe", "info", "echo", "ack"}
    BY DEF IndInv, TypeOK
  <2>4. engRate' \in Rates /\ pending' \in BOOLEAN
    BY DEF IndInv, TypeOK
  <2> QED BY <2>1, <2>2, <2>3, <2>4 DEF IndInv, TypeOK
<1>2. LineInv'
  BY DEF IndInv, LineInv, InSession, Asked, Answer
<1>3. MetInv'
  <2>1. CASE ~InSession
    BY <2>1 DEF MetInv, InSession
  <2>2. CASE InSession
    <3>1. down = Asked /\ rx = "none" /\ pc \notin {"query", "try", "ready"}
      BY <2>2 DEF IndInv, LineInv, Asked
    <3>2. CASE rx' = rx \/ down = "setBaud"
      BY <2>2, <3>1, <3>2 DEF MetInv, InSession
    <3>3. CASE rx' # rx /\ down # "setBaud"
      <4>1. /\ hostRate = engRate /\ "up" \in works[engRate] /\ "down" \in works[engRate]
            /\ UNCHANGED <<hostRate, engRate, works>>
        BY <3>3
      <4>2. works[engRate] \subseteq BothWays
        BY DEF IndInv, TypeOK
      <4>3. works[engRate] = BothWays
        BY <4>1, <4>2 DEF BothWays
      <4>4. ~pending'
        BY <3>1, <3>3 DEF Asked
      <4> QED BY <4>1, <4>3, <4>4 DEF MetInv, Met
    <3> QED BY <3>2, <3>3
  <2> QED BY <2>1, <2>2
<1>4. CountInv'
  BY Sizes DEF IndInv, TypeOK, CountInv, Trying
<1>5. ReachInv'
  BY DEF IndInv, TypeOK, ReachInv, EngineReachable, BothWays
<1>6. UndisturbedInv'
  BY Sizes DEF IndInv, TypeOK, LineInv, MetInv, Met, InSession, Asked, Answer, UndisturbedInv,
               Undisturbed, AllOrNone, BothWays
<1> QED BY <1>1, <1>2, <1>3, <1>4, <1>5, <1>6 DEF IndInv

LEMMA MissInd == IndInv /\ Miss => IndInv'
<1> SUFFICES ASSUME IndInv, Miss PROVE IndInv'
  OBVIOUS
<1> USE DEF Miss, ReachesEngine, hostVars, engVars
<1>1. TypeOK'
  BY Sizes DEF IndInv, TypeOK, CountInv, Trying
<1>2. LineInv'
  BY DEF IndInv, LineInv, InSession, Asked, Answer
<1>3. MetInv'
  BY DEF IndInv, LineInv, MetInv, Met, InSession, Asked, Answer
<1>4. CountInv'
  BY Sizes DEF IndInv, TypeOK, CountInv, Trying
<1>5. ReachInv'
  BY DEF IndInv, TypeOK, ReachInv, EngineReachable, BothWays
<1>6. UndisturbedInv'
  BY Sizes DEF IndInv, TypeOK, LineInv, ReachInv, MetInv, Met, InSession, Asked, Answer, UndisturbedInv,
               Undisturbed, AllOrNone, BothWays
<1> QED BY <1>1, <1>2, <1>3, <1>4, <1>5, <1>6 DEF IndInv

LEMMA LoseInd == IndInv /\ Lose => IndInv'
<1> SUFFICES ASSUME IndInv, Lose PROVE IndInv'
  OBVIOUS
<1> USE DEF Lose, hostVars, engVars
<1>1. TypeOK'
  BY Sizes DEF IndInv, TypeOK, CountInv, Trying
<1>2. LineInv'
  BY DEF IndInv, LineInv, InSession, Asked, Answer
<1>3. MetInv'
  BY DEF IndInv, LineInv, MetInv, Met, InSession, Asked, Answer
<1>4. CountInv'
  BY Sizes DEF IndInv, TypeOK, CountInv, Trying
<1>5. ReachInv'
  BY DEF IndInv, TypeOK, ReachInv, EngineReachable, BothWays
<1>6. UndisturbedInv'
  BY Sizes DEF IndInv, TypeOK, LineInv, MetInv, Met, InSession, Asked, Answer, UndisturbedInv,
               Undisturbed, AllOrNone, BothWays
<1> QED BY <1>1, <1>2, <1>3, <1>4, <1>5, <1>6 DEF IndInv

LEMMA WatchdogInd == IndInv /\ Watchdog => IndInv'
<1> SUFFICES ASSUME IndInv, Watchdog PROVE IndInv'
  OBVIOUS
<1> USE DEF Watchdog, hostVars, engVars
<1>1. TypeOK'
  BY DEF IndInv, TypeOK, Rates
<1>2. LineInv'
  BY DEF IndInv, LineInv, InSession, Asked, Answer
<1>3. MetInv'
  BY DEF IndInv, LineInv, MetInv, Met, InSession, Asked, Answer
<1>4. CountInv'
  BY Sizes DEF IndInv, TypeOK, CountInv, Trying
<1>5. ReachInv'
  BY DEF IndInv, TypeOK, ReachInv, EngineReachable, BothWays
<1>6. UndisturbedInv'
  BY Sizes DEF IndInv, TypeOK, LineInv, MetInv, Met, InSession, Asked, Answer, UndisturbedInv,
               Undisturbed, AllOrNone, BothWays
<1> QED BY <1>1, <1>2, <1>3, <1>4, <1>5, <1>6 DEF IndInv

LEMMA TickInd == IndInv /\ Tick => IndInv'
<1> SUFFICES ASSUME IndInv, Tick PROVE IndInv'
  OBVIOUS
<1> USE DEF Tick, hostVars, engVars
<1>1. TypeOK'
  <2>1. timer' \in Nat
    BY DEF IndInv, TypeOK
  <2>2. wd' \in 0 .. WatchdogTicks
    BY Sizes DEF IndInv, TypeOK
  <2> QED BY <2>1, <2>2 DEF IndInv, TypeOK
<1>2. LineInv'
  BY DEF IndInv, LineInv, InSession, Asked, Answer
<1>3. MetInv'
  BY DEF IndInv, LineInv, MetInv, Met, InSession, Asked, Answer
<1>4. CountInv'
  BY Sizes DEF IndInv, TypeOK, CountInv, Trying
<1>5. ReachInv'
  BY DEF IndInv, TypeOK, ReachInv, EngineReachable, BothWays
<1>6. UndisturbedInv'
  BY Sizes DEF IndInv, TypeOK, LineInv, MetInv, Met, InSession, Asked, Answer, UndisturbedInv,
               Undisturbed, AllOrNone, BothWays
<1> QED BY <1>1, <1>2, <1>3, <1>4, <1>5, <1>6 DEF IndInv

------------------------------------------------------------------------------
(* The invariant and what follows from it *)

LEMMA NextInd == IndInv /\ [Next]_vars => IndInv'
<1> SUFFICES ASSUME IndInv, [Next]_vars PROVE IndInv'
  OBVIOUS
<1>1. CASE Open \/ ResyncSend \/ ResyncOK \/ ResyncTimeout \/ QueryInfo \/ QueryDone
  BY <1>1, OpenInd, ResyncSendInd, ResyncOKInd, ResyncTimeoutInd, QueryInfoInd, QueryDoneInd
<1>2. CASE SetBaud \/ AckDone \/ Confirm \/ ConfirmDone \/ Reverted
  BY <1>2, SetBaudInd, AckDoneInd, ConfirmInd, ConfirmDoneInd, RevertedInd
<1>3. CASE Close \/ CloseBaud \/ Closed \/ Kill
  BY <1>3, CloseInd, CloseBaudInd, ClosedInd, KillInd
<1>4. CASE Receive \/ Miss \/ Lose \/ Watchdog \/ Tick
  BY <1>4, ReceiveInd, MissInd, LoseInd, WatchdogInd, TickInd
<1>5. CASE UNCHANGED vars
  <2> USE <1>5 DEF vars, hostVars, engVars
  <2>1. TypeOK'
    BY DEF IndInv, TypeOK
  <2>2. LineInv' /\ MetInv' /\ CountInv' /\ ReachInv'
    BY DEF IndInv, LineInv, MetInv, Met, InSession, Asked, Answer, CountInv, Trying, ReachInv,
           EngineReachable
  <2>3. UndisturbedInv'
    BY DEF IndInv, UndisturbedInv, Undisturbed, AllOrNone, Met, Asked
  <2> QED BY <2>1, <2>2, <2>3 DEF IndInv
<1> QED
  BY <1>1, <1>2, <1>3, <1>4, <1>5 DEF Next, Resync, Query, TryBaud, Shut

\* The inductive invariant holds in every state of host, wire and engine.
THEOREM RatesInvariant == Spec => []IndInv
<1>1. Init => IndInv
  BY InitInd
<1>2. IndInv /\ [Next]_vars => IndInv'
  BY NextInd
<1> QED BY <1>1, <1>2, PTL DEF Spec

\* Device.open returns with both ends at one rate that works both ways, and with
\* no watchdog running that would take the engine off it.
THEOREM OpensInStep == Spec => []InStep
<1>1. IndInv => InStep
  BY DEF IndInv, MetInv, Met, InStep
<1> QED BY <1>1, RatesInvariant, PTL

\* Device._try_baud and the watchdog of engine.v: the engine is never left at
\* a rate at which it does not hear the host, and where every rate works in both
\* directions or in none, an open only fails after a fault.
THEOREM NegotiatesSafely == Spec => []NegotiatingIsSafe
<1>1. IndInv => NegotiatingIsSafe
  <2> SUFFICES ASSUME IndInv PROVE NegotiatingIsSafe
    OBVIOUS
  <2>1. EngineReachable
    BY DEF IndInv, ReachInv
  <2>2. faults =< MaxFaults
    BY Sizes DEF IndInv, TypeOK
  <2>3. OnlyFaultsFail
    <3> SUFFICES ASSUME pc = "failed", AllOrNone PROVE faults < MaxFaults
      BY DEF OnlyFaultsFail
    <3>1. faults # MaxFaults
      BY DEF IndInv, UndisturbedInv, Undisturbed
    <3>2. faults \in Int /\ MaxFaults \in Int
      BY Sizes DEF IndInv, TypeOK
    <3> QED BY <2>2, <3>1, <3>2
  <2> QED BY <2>1, <2>3 DEF NegotiatingIsSafe
<1> QED BY <1>1, RatesInvariant, PTL
==============================================================================
