----------------------------- MODULE PhaseTune -----------------------------
(***************************************************************************)
(* The clock phase of the synchronous FIFO link: set_phase, _recover and   *)
(* tune of ft232h.py, the phase a session starts from (apply_saved_phase), *)
(* and the watchdog of the engine, which undoes a phase that no INFO       *)
(* confirms.                                                               *)
(*                                                                         *)
(* A phase is good, deaf (no byte reaches the engine, a write may stall),  *)
(* garbled (bytes arrive, but wrong), mute (commands arrive, replies do    *)
(* not) or marginal (commands arrive, replies sometimes do).  Time counts  *)
(* in ticks of 500 ms; a step of the host says how many ticks it takes.    *)
(***************************************************************************)
EXTENDS Integers, Sequences, FiniteSets

CONSTANTS
  Phases,     \* PHASES
  Rounds,     \* rounds of a probe
  RoundTicks, \* longest time a round takes: a write that stalls, then PROBE_S
  WdTicks,    \* PH_WD_S
  WaitTicks,  \* REVERT_S; an attempt of resync takes as long
  Qualities,  \* what the phases may be like
  MaxCycles   \* power cycles

ASSUME PhaseAssumption ==
  /\ Phases \in Nat \ {0} /\ Rounds \in Nat \ {0} /\ MaxCycles \in Nat
  /\ RoundTicks \in Nat /\ WdTicks \in Nat /\ WaitTicks \in Nat
  /\ WaitTicks > WdTicks
  /\ \A q \in Qualities : q \in [0 .. (Phases - 1) -> {"good", "deaf", "garbled", "mute", "marginal"}]

VARIABLES
  quality,    \* of every phase
  ftPhase,    \* the engine: the phase it samples with
  prev,       \* ph_prev
  age,        \* ticks since SET_REG, -1 when the phase is confirmed
  pc,         \* the host: "closed", "idle", "set", "probe", "info", "recover",
              \* "resync", "blind", "lost", "sweep", "done"
  job,        \* what set_phase is called for: "apply", "one", "sweep", "settle"
  phase,      \* its argument
  round,      \* rounds of the probe, attempts of a resync
  blind,      \* the phase was switched back blindly
  known,      \* dev.ft_phase, -1 for None
  results,    \* of the sweep: TRUE for a phase that passed
  best,       \* rep.best, -1 for None
  saved,      \* the saved phase, -1 for none
  cycles,
  astray      \* history: the host misjudged a phase that the watchdog took back, or a
              \* byte that arrived wrong confirmed one

engVars == <<ftPhase, prev, age>>
vars == <<quality, ftPhase, prev, age, pc, job, phase, round, blind, known, results, best, saved, cycles, astray>>

None == -1
DEFAULT_PHASE == 0
All == 0 .. (Phases - 1)

------------------------------------------------------------------------------
(* The link and the engine *)

Arrives == quality[ftPhase] \notin {"deaf", "garbled"}
\* Whether a reply comes back from a phase.
Answers(p) ==
  CASE quality[p] = "good" -> {TRUE} [] quality[p] = "marginal" -> BOOLEAN [] OTHER -> {FALSE}

\* The watchdog takes effect within the next d ticks.
Reverts(d) == age # None /\ age + d > WdTicks

Elapse(d) ==
  IF Reverts(d) THEN ftPhase' = prev /\ age' = None
  ELSE ftPhase' = ftPhase /\ age' = IF age = None THEN None ELSE age + d

\* A round of echoes: when the phase changes meanwhile, what was under way is lost;
\* what a deaf phase held up goes through under the previous one.
Outcomes(d) ==
  IF ~Reverts(d) THEN Answers(ftPhase)
  ELSE {FALSE} \cup IF quality[ftPhase] \in {"garbled", "mute"} THEN {} ELSE Answers(prev)

\* The watchdog ran out on a phase that works, or the round passed all the same.
Late(d, ok) == Reverts(d) /\ (ok \/ quality[ftPhase] = "good")

------------------------------------------------------------------------------
(* _longest_run *)

Ok(p) == results[p + 1]
\* Slip: the phases are no circle.
RunLine(start, len) ==
  IF start + len > Phases THEN {} ELSE {start + i : i \in 0 .. (len - 1)}

Run(start, len) == {(start + i) % Phases : i \in 0 .. (len - 1)}

\* <<start, len>> of the longest run, the first after a phase that failed.
LongestRun ==
  LET runs == {r \in All \X (1 .. Phases) : Run(r[1], r[2]) # {} /\ \A p \in Run(r[1], r[2]) : Ok(p)}
      longest == {r \in runs : \A s \in runs : s[2] =< r[2]}
      bad == CHOOSE p \in All : ~Ok(p) /\ \A q \in All : ~Ok(q) => p =< q
      After(r) == (r[1] - bad + Phases) % Phases
  IN CHOOSE r \in longest : \A s \in longest : After(r) =< After(s)

\* The middle of the window; the default when every phase works.
Best ==
  IF \A p \in All : Ok(p) THEN DEFAULT_PHASE
  ELSE (LongestRun[1] + (LongestRun[2] - 1) \div 2) % Phases

------------------------------------------------------------------------------
(* set_phase *)

Call(j, p) ==
  /\ job' = j /\ phase' = p /\ pc' = "set"
  /\ round' = 1 /\ blind' = FALSE

\* SET_REG under the phase that is in use; then the first round of the probe.
SetReg ==
  /\ pc = "set"
  /\ pc' = "probe"
  /\ IF Arrives
     THEN /\ prev' = IF age # None THEN prev ELSE ftPhase
          /\ ftPhase' = phase
          /\ age' = 0
     ELSE UNCHANGED engVars
  /\ UNCHANGED <<quality, job, phase, round, blind, known, results, best, saved, cycles, astray>>

\* One of the bytes that arrive wrong reads as INFO and confirms the phase.
Mistaken ==
  /\ pc = "probe" /\ quality[ftPhase] = "garbled" /\ age # None
  /\ age' = None
  /\ astray' = TRUE
  /\ UNCHANGED <<quality, ftPhase, prev, pc, job, phase, round, blind, known, results, best, saved, cycles>>

\* A round: a write, which may stall until pyftdi's time-out, and PROBE_S for the echoes.
Probe(d, ok) ==
  /\ pc = "probe"
  /\ ok \in Outcomes(d)
  /\ Elapse(d)
  /\ astray' = (astray \/ Late(d, ok))
  /\ pc' = IF ~ok THEN "recover" ELSE IF round < Rounds THEN "probe" ELSE "info"
  /\ round' = IF ok /\ round < Rounds THEN round + 1 ELSE 1
  /\ UNCHANGED <<quality, prev, job, phase, blind, known, results, best, saved, cycles>>

\* What set_phase returns to: an error or none.
Return(ok) ==
  /\ pc' = IF job = "sweep" THEN "sweep" ELSE IF job = "settle" /\ ok THEN "done" ELSE "idle"
  /\ results' = IF job = "sweep" THEN Append(results, ok) ELSE results
  /\ best' = IF job = "settle" /\ ok THEN phase ELSE best

\* query_info: INFO confirms the phase.  When the reply is lost, Device.run resyncs
\* once and raises all the same.
Info(ok) ==
  /\ pc = "info"
  /\ ok \in Answers(ftPhase)
  /\ age' = IF Arrives THEN None ELSE age
  /\ IF ok THEN known' = phase /\ Return(TRUE)
     ELSE pc' = "recover" /\ UNCHANGED <<known, results, best>>
  /\ UNCHANGED <<quality, ftPhase, prev, job, phase, round, blind, saved, cycles, astray>>

\* Slip: resync at once, its INFO confirms the phase.
RecoverAtOnce ==
  /\ pc = "recover"
  /\ pc' = "resync"
  /\ UNCHANGED <<quality, ftPhase, prev, age, job, phase, round, blind, known, results, best, saved, cycles, astray>>

\* _recover: wait for the watchdog, resync, switch back blindly, resync.
Recover ==
  /\ pc = "recover"
  /\ Elapse(WaitTicks)
  /\ pc' = "resync"
  /\ UNCHANGED <<quality, prev, job, phase, round, blind, known, results, best, saved, cycles, astray>>

Fallback == IF known # None THEN known ELSE DEFAULT_PHASE

\* After three attempts: the blind switch, once.
NextAttempt == IF blind THEN "lost" ELSE "blind"

\* An attempt sends two ECHOs and INFO.
Resync(ok) ==
  /\ pc = "resync"
  /\ ok \in Answers(ftPhase)
  /\ IF Arrives THEN age' = None /\ UNCHANGED ftPhase ELSE Elapse(WaitTicks)
  /\ IF ok THEN Return(FALSE) /\ UNCHANGED round
     ELSE /\ pc' = IF round < 3 THEN "resync" ELSE NextAttempt
          /\ round' = IF round < 3 THEN round + 1 ELSE 1
          /\ UNCHANGED <<results, best>>
  /\ UNCHANGED <<quality, prev, job, phase, blind, known, saved, cycles, astray>>

\* SET_REG and INFO in one write.
Blind ==
  /\ pc = "blind"
  /\ IF Arrives
     THEN /\ prev' = IF age # None THEN prev ELSE ftPhase
          /\ ftPhase' = Fallback
          /\ age' = IF quality[Fallback] \in {"deaf", "garbled"} THEN 0 ELSE None
     ELSE UNCHANGED engVars
  /\ blind' = TRUE
  /\ pc' = "resync"
  /\ UNCHANGED <<quality, job, phase, round, known, results, best, saved, cycles, astray>>

------------------------------------------------------------------------------
(* Sessions *)

\* connect: resync, which may fail; with a saved phase, apply_saved_phase unless
\* ft_phase=False.
NoAnswer ==
  /\ pc = "closed"
  /\ FALSE \in Answers(ftPhase)
  /\ IF Arrives THEN age' = None /\ UNCHANGED ftPhase ELSE Elapse(WaitTicks)
  /\ UNCHANGED <<quality, prev, pc, job, phase, round, blind, known, results, best, saved, cycles, astray>>

Open(apply) ==
  /\ pc = "closed"
  /\ TRUE \in Answers(ftPhase)
  /\ age' = None
  /\ known' = None
  /\ results' = <<>> /\ best' = None
  /\ IF apply /\ saved # None THEN Call("apply", saved)
     ELSE pc' = "idle" /\ UNCHANGED <<job, phase, round, blind>>
  /\ UNCHANGED <<quality, ftPhase, prev, saved, cycles, astray>>

\* ft232h-tune with a phase.
SetOne(p) ==
  /\ pc = "idle"
  /\ Call("one", p)
  /\ results' = <<>> /\ best' = None
  /\ UNCHANGED <<quality, ftPhase, prev, age, known, saved, cycles, astray>>

Tune ==
  /\ pc = "idle"
  /\ Call("sweep", 0)
  /\ results' = <<>> /\ best' = None
  /\ UNCHANGED <<quality, ftPhase, prev, age, known, saved, cycles, astray>>

\* The next phase of the sweep, or the middle of the window.
Sweep ==
  /\ pc = "sweep"
  /\ IF Len(results) < Phases THEN Call("sweep", Len(results))
     ELSE IF \E p \in All : Ok(p) THEN Call("settle", Best)
     ELSE pc' = "idle" /\ UNCHANGED <<job, phase, round, blind>>
  /\ UNCHANGED <<quality, ftPhase, prev, age, known, results, best, saved, cycles, astray>>

\* save_phase, after a tune that found a phase.
Save ==
  /\ pc = "done"
  /\ saved' = best
  /\ pc' = "idle"
  /\ results' = <<>> /\ best' = None
  /\ UNCHANGED <<quality, ftPhase, prev, age, job, phase, round, blind, known, cycles, astray>>

Close ==
  /\ pc \in {"idle", "lost"}
  /\ pc' = "closed"
  /\ job' = "one" /\ phase' = 0 /\ round' = 1 /\ blind' = FALSE
  /\ known' = None /\ results' = <<>> /\ best' = None
  /\ UNCHANGED <<quality, ftPhase, prev, age, saved, cycles, astray>>

\* Other wires, another module: the saved phase is that of the old ones.
PowerCycle ==
  /\ cycles < MaxCycles
  /\ pc = "closed"
  /\ cycles' = cycles + 1
  /\ quality' \in Qualities
  /\ ftPhase' = DEFAULT_PHASE /\ prev' = DEFAULT_PHASE /\ age' = None
  /\ astray' = FALSE
  /\ UNCHANGED <<pc, job, phase, round, blind, known, results, best, saved>>

Init ==
  /\ quality \in Qualities
  /\ ftPhase = DEFAULT_PHASE /\ prev = DEFAULT_PHASE /\ age = None /\ astray = FALSE
  /\ pc = "closed" /\ job = "one" /\ phase = 0 /\ round = 1 /\ blind = FALSE
  /\ known = None /\ results = <<>> /\ best = None
  /\ saved = None /\ cycles = 0

Next ==
  \/ SetReg
  \/ Mistaken
  \/ \E d \in 0 .. RoundTicks, ok \in BOOLEAN : Probe(d, ok)
  \/ \E ok \in BOOLEAN : Info(ok) \/ Resync(ok)
  \/ Recover \/ Blind
  \/ NoAnswer
  \/ \E apply \in BOOLEAN : Open(apply)
  \/ \E p \in All : SetOne(p)
  \/ Tune \/ Sweep \/ Save \/ Close \/ PowerCycle

Spec == Init /\ [][Next]_vars

------------------------------------------------------------------------------
(* Properties *)

TypeOK ==
  /\ quality \in Qualities /\ ftPhase \in All /\ prev \in All /\ age \in None .. WdTicks
  /\ pc \in {"closed", "idle", "set", "probe", "info", "recover", "resync", "blind", "lost", "sweep", "done"}
  /\ phase \in All /\ round \in 1 .. (Rounds + 3) /\ known \in None .. (Phases - 1)
  /\ saved \in None .. (Phases - 1) /\ Len(results) =< Phases /\ astray \in BOOLEAN

Sharp == \A p \in All : quality[p] # "marginal"

\* "a phase that breaks the link costs a short wait, never the connection": between
\* two calls the engine samples with a confirmed phase under which commands arrive
\* and answers come, the host gives up only when the phase it would go back to is
\* no good one either, and, with no marginal phase around, the engine is at the
\* phase the host believes in: the one set_phase reported as set, or still the
\* previous one after an error, without the blind switch (which would take it to the
\* default when the host does not know the previous one).  Two things excuse it: a
\* round of the probe that goes on while the watchdog takes the phase back, and a
\* byte that arrives wrong and reads as INFO.
LinkKept ==
  /\ TypeOK
  /\ ~astray =>
       /\ pc \in {"idle", "sweep", "done", "lost", "closed"} =>
            age = None /\ quality[ftPhase] \in {"good", "marginal"}
       /\ pc = "lost" => quality[Fallback] # "good"
       /\ pc \in {"blind", "resync"} /\ Sharp => pc # "blind" /\ ~blind
       /\ pc \in {"idle", "sweep", "done"} /\ Sharp /\ known # None => ftPhase = known

\* Phases on both sides of p that are good.
Margin(p) ==
  CHOOSE m \in 0 .. Phases :
    /\ \A i \in 0 .. (m - 1) : \A s \in {1, -1} : quality[(p + s * i + Phases) % Phases] = "good"
    /\ m < Phases => \E s \in {1, -1} : quality[(p + s * m + Phases) % Phases] # "good"

\* The sweep passes exactly the phases that work, and the phase it settles on is as
\* far from the nearest one that does not as any phase is, round the circle; with
\* the same two excuses.
TuneTrue ==
  ~astray =>
    /\ \A p \in 0 .. (Len(results) - 1) :
         /\ quality[p] = "good" => Ok(p)
         /\ Ok(p) => quality[p] \in {"good", "marginal"}
    /\ pc = "done" =>
         /\ age = None /\ ftPhase = best
         /\ Sharp /\ (\E p \in All : quality[p] # "good") => \A p \in All : Margin(p) =< Margin(best)
==============================================================================
