---------------------------- MODULE PhaseTuneProofs ----------------------------
(***************************************************************************)
(* Proofs about PhaseTune, for any number of phases and rounds and any     *)
(* quality of the wires under which the default phase works.               *)
(***************************************************************************)
EXTENDS PhaseTune, WellFoundedInduction, TLAPS

-----------------------------------------------------------------------------
(* What is assumed of the environment *)

\* The released gateware starts at a phase under which the link works, well
\* enough for a session to open.
DefaultWorks == \A q \in Qualities : q[DEFAULT_PHASE] \in {"good", "marginal"}

-----------------------------------------------------------------------------
(* The inductive invariant *)

Works(p) == quality[p] \in {"good", "marginal"}
Busy == {"set", "probe", "info", "recover", "resync", "blind"}

\* What holds whatever the wires do.
Types ==
    /\ TypeOK
    /\ job \in {"apply", "one", "sweep", "settle"}
    /\ blind \in BOOLEAN
    /\ results \in Seq(BOOLEAN)
    /\ best \in None .. (Phases - 1)
    /\ cycles \in Nat

Order ==
    /\ pc = "closed" => results = <<>>
    /\ pc = "sweep" => job = "sweep"
    /\ pc \in Busy /\ job = "sweep" => phase = Len(results)

Shape == Types /\ Order

\* While a phase is tried the engine keeps one that works; at all other times it
\* samples with one that works and nothing is left to take back.
EngineInv ==
    /\ pc \notin {"probe", "info", "recover"} => age = None /\ Works(ftPhase)
    /\ pc \in {"probe", "info"} => age # None /\ ftPhase = phase /\ Works(prev)
    /\ pc = "info" => Works(phase)
    /\ pc = "recover" => Works(IF age = None THEN ftPhase ELSE prev)

\* The phase the host believes in is the one the engine is at or goes back to.
KnownInv ==
    pc # "closed" /\ known # None =>
      /\ Works(known)
      /\ Sharp => known = IF pc \in {"probe", "info"} \/ (pc = "recover" /\ age # None)
                          THEN prev ELSE ftPhase

\* The blind switch is for marginal phases, and takes the engine to the fallback.
BlindInv ==
    /\ blind => pc \notin {"set", "probe", "info", "recover", "blind"}
    /\ pc = "blind" \/ (pc = "resync" /\ blind) => ~Sharp
    /\ pc = "resync" => round =< 3 /\ (blind => ftPhase = Fallback)
    /\ pc = "lost" => quality[Fallback] # "good"

\* The sweep recorded what the phases are like.
Recorded ==
    \A p \in 0 .. (Len(results) - 1) :
      (quality[p] = "good" => Ok(p)) /\ (Ok(p) => Works(p))

\* The window the tune settles on is that of the whole sweep.
Swept == Len(results) = Phases /\ \E p \in All : Ok(p)

SweepInv ==
    /\ Recorded
    /\ pc \in {"recover", "resync", "blind"} /\ job = "sweep" => quality[phase] # "good"
    /\ pc \in Busy /\ job = "settle" => Swept /\ phase = Best
    /\ pc = "done" => Swept /\ ftPhase = best /\ best = Best

Sound == EngineInv /\ KnownInv /\ BlindInv /\ SweepInv

IndInv == Shape /\ (astray \/ Sound)

-----------------------------------------------------------------------------
(* Arithmetic round the circle *)

\* A set of numbers has a least one.
LEMMA Least ==
    ASSUME NEW S \in SUBSET Nat, S # {}
    PROVE  \E m \in S : \A k \in S : m =< k
<1>1. PICK m \in S : \A k \in S : ~ (<<k, m>> \in OpToRel(<, Nat))
  BY NatLessThanWellFounded, WFMin
<1>2. \A k \in S : ~(k < m)
  BY <1>1 DEF OpToRel
<1> QED BY <1>2

LEMMA Circle ==
    /\ Phases \in Nat /\ Phases > 0 /\ DEFAULT_PHASE \in All
    /\ \A x \in Int : x % Phases \in All
    /\ \A x \in All : x % Phases = x
    /\ \A x \in Phases .. (2 * Phases - 1) : x % Phases = x - Phases
BY PhaseAssumption DEF All, DEFAULT_PHASE

\* Half a turn of the circle more or less.
LEMMA Turn == \A x \in 0 .. (2 * Phases - 1) : (x + Phases) % Phases = x % Phases
<1> SUFFICES ASSUME NEW x \in 0 .. (2 * Phases - 1) PROVE (x + Phases) % Phases = x % Phases
  OBVIOUS
<1> DEFINE n == Phases
<1>1. n \in Nat \ {0}
  BY Circle
<1>2. CASE x < n
  BY <1>1, <1>2, Circle DEF All
<1>3. CASE x >= n
  <2>1. x % n = x - n
    BY <1>1, <1>3, Circle
  <2>2. x + n = (x - n) + 2 * n /\ x - n \in 0 .. (n - 1)
    BY <1>1, <1>3
  <2>3. \A y \in 0 .. (n - 1) : (y + 2 * n) % n = y
    BY <1>1
  <2> QED BY <2>1, <2>2, <2>3
<1> QED BY <1>1, <1>2, <1>3

-----------------------------------------------------------------------------
(* The window *)

\* A run of phases that passed.
Passing(start, len) ==
    start \in All /\ len \in 1 .. Phases /\ \A p \in Run(start, len) : Ok(p)

LEMMA RunElements ==
    ASSUME NEW start \in All, NEW len \in 1 .. Phases
    PROVE  /\ Run(start, len) \subseteq All
           /\ \A p \in Run(start, len) : \E i \in 0 .. (len - 1) : p = (start + i) % Phases
           /\ \A i \in 0 .. (len - 1) : (start + i) % Phases \in Run(start, len)
<1>1. \A i \in 0 .. (len - 1) : (start + i) % Phases \in All
  BY Circle DEF All
<1> QED BY <1>1 DEF Run

\* What _longest_run returns when a phase passed and one did not: a run that
\* passed, and none that passed is longer.
LEMMA LongestRunIs ==
    ASSUME NEW good \in All, Ok(good), NEW other \in All, ~Ok(other)
    PROVE  /\ LongestRun[1] \in All /\ LongestRun[2] \in 1 .. Phases
           /\ Passing(LongestRun[1], LongestRun[2])
           /\ \A start \in All, len \in 1 .. Phases :
                Passing(start, len) => len =< LongestRun[2]
<1> DEFINE runs == {r \in All \X (1 .. Phases) :
                      Run(r[1], r[2]) # {} /\ \A p \in Run(r[1], r[2]) : Ok(p)}
           longest == {r \in runs : \A s \in runs : s[2] =< r[2]}
           bad == CHOOSE p \in All : ~Ok(p) /\ \A q \in All : ~Ok(q) => p =< q
           After(r) == (r[1] - bad + Phases) % Phases
           first == CHOOSE r \in longest : \A s \in longest : After(r) =< After(s)
<1>1. \A start \in All, len \in 1 .. Phases : Passing(start, len) => <<start, len>> \in runs
  <2> SUFFICES ASSUME NEW start \in All, NEW len \in 1 .. Phases, Passing(start, len)
               PROVE  <<start, len>> \in runs
    OBVIOUS
  <2>1. (start + 0) % Phases \in Run(start, len)
    BY RunElements
  <2> QED BY <2>1 DEF Passing
<1>2. <<good, 1>> \in runs
  <2>1. Run(good, 1) = {good}
    <3>1. \A i \in 0 .. (1 - 1) : (good + i) % Phases = good
      BY Circle DEF All
    <3>2. 0 \in 0 .. (1 - 1)
      OBVIOUS
    <3> QED BY <3>1, <3>2 DEF Run
  <2> QED BY <2>1, Circle
<1>3. \E r \in runs : \A s \in runs : s[2] =< r[2]
  <2> DEFINE S == {Phases - r[2] : r \in runs}
  <2>1. S \in SUBSET Nat /\ S # {}
    <3>1. S # {}
      BY <1>2
    <3>2. \A r \in runs : r[2] \in 1 .. Phases
      OBVIOUS
    <3> HIDE DEF runs
    <3> QED BY <3>1, <3>2, Circle
  <2>2. PICK m \in S : \A k \in S : m =< k
    BY <2>1, Least
  <2>3. PICK r \in runs : m = Phases - r[2]
    BY <2>2
  <2>4. \A s \in runs : Phases - s[2] \in S
    OBVIOUS
  <2>5. ASSUME NEW s \in runs PROVE s[2] =< r[2]
    <3>1. Phases - r[2] =< Phases - s[2]
      BY <2>2, <2>3, <2>4
    <3>2. s[2] \in 1 .. Phases /\ r[2] \in 1 .. Phases
      OBVIOUS
    <3> HIDE DEF runs
    <3> QED BY <3>1, <3>2, Circle
  <2> QED BY <2>5
<1>4. bad \in All
  <2> DEFINE S == {p \in All : ~Ok(p)}
  <2>1. S \in SUBSET Nat /\ S # {}
    BY DEF All
  <2>2. PICK m \in S : \A k \in S : m =< k
    BY <2>1, Least
  <2> QED BY <2>2
<1> HIDE DEF bad
<1>5. \A r \in runs : After(r) \in Nat
  BY <1>4, Circle DEF All
<1> HIDE DEF After
<1>6. \E r \in longest : \A s \in longest : After(r) =< After(s)
  <2> DEFINE S == {After(r) : r \in longest}
  <2>1. S \in SUBSET Nat /\ S # {}
    BY <1>3, <1>5
  <2>2. PICK m \in S : \A k \in S : m =< k
    BY <2>1, Least
  <2>3. PICK r \in longest : m = After(r)
    BY <2>2
  <2>4. \A s \in longest : After(s) \in S
    OBVIOUS
  <2> QED BY <2>2, <2>3, <2>4
<1>7. first \in longest
  BY <1>6
<1>8. LongestRun = first
  BY DEF LongestRun, bad, After
<1> HIDE DEF first
<1>9. first \in All \X (1 .. Phases) /\ (\A p \in Run(first[1], first[2]) : Ok(p))
      /\ \A s \in runs : s[2] =< first[2]
  BY <1>7
<1> HIDE DEF runs
<1>10. first[1] \in All /\ first[2] \in 1 .. Phases
  BY <1>9
<1>11. \A start \in All, len \in 1 .. Phases : Passing(start, len) => len =< first[2]
  <2> SUFFICES ASSUME NEW start \in All, NEW len \in 1 .. Phases, Passing(start, len)
               PROVE  len =< first[2]
    OBVIOUS
  <2> DEFINE s == <<start, len>>
  <2>1. s \in runs /\ s[2] = len
    BY <1>1
  <2> HIDE DEF s
  <2> QED BY <1>9, <2>1
<1> QED BY <1>8, <1>9, <1>10, <1>11 DEF Passing

LEMMA BestIsPhase ==
    ASSUME \E p \in All : Ok(p)
    PROVE  Best \in All
<1>1. CASE \A p \in All : Ok(p)
  BY <1>1, Circle DEF Best
<1>2. CASE \E p \in All : ~Ok(p)
  <2>1. LongestRun[1] \in All /\ LongestRun[2] \in 1 .. Phases
    BY <1>2, LongestRunIs
  <2>2. LongestRun[1] + (LongestRun[2] - 1) \div 2 \in Int
    BY <2>1, Circle DEF All
  <2> QED BY <1>2, <2>2, Circle DEF Best
<1> QED BY <1>1, <1>2

LEMMA BestKept == ASSUME UNCHANGED results PROVE Best' = Best
BY DEF Best, LongestRun, Ok, Run, All

-----------------------------------------------------------------------------
(* The steps *)

LEMMA Numbers ==
    /\ Phases \in Nat /\ Phases > 0 /\ Rounds \in Nat /\ Rounds > 0 /\ MaxCycles \in Nat
    /\ RoundTicks \in Nat /\ WdTicks \in Nat /\ WaitTicks \in Nat
    /\ WaitTicks > WdTicks
    /\ DEFAULT_PHASE = 0 /\ 0 \in All
    /\ \A q \in Qualities : q \in [All -> {"good", "deaf", "garbled", "mute", "marginal"}]
BY PhaseAssumption DEF DEFAULT_PHASE, All

\* Time passes: an unconfirmed phase is taken back when the watchdog is due.
LEMMA Passes ==
    ASSUME Types, NEW d \in Nat, Elapse(d)
    PROVE  /\ ftPhase' \in All /\ age' \in None .. WdTicks
           /\ age = None \/ age + d =< WdTicks => ftPhase' = ftPhase
           /\ age = None => age' = None
           /\ age # None /\ age + d =< WdTicks => age' = age + d
           /\ age # None /\ age + d > WdTicks => ftPhase' = prev /\ age' = None
BY Numbers DEF Types, TypeOK, Elapse, Reverts, None

\* One more phase of the sweep.
LEMMA OneMore ==
    ASSUME Types, Recorded, UNCHANGED quality, phase = Len(results), NEW ok \in BOOLEAN,
           results' = Append(results, ok),
           ok => Works(phase), ~ok => quality[phase] # "good"
    PROVE  Recorded' /\ results' \in Seq(BOOLEAN) /\ Len(results') = Len(results) + 1
           /\ Len(results') =< Phases
<1>1. results' \in Seq(BOOLEAN) /\ Len(results') = Len(results) + 1 /\ Len(results') =< Phases
  BY Numbers DEF Types, TypeOK, All
<1>2. \A p \in 0 .. (Len(results) - 1) : results'[p + 1] = results[p + 1]
  BY DEF Types
<1>3. results'[phase + 1] = ok
  BY DEF Types
<1>4. ASSUME NEW p \in 0 .. (Len(results') - 1)
      PROVE  (quality[p] = "good" => results'[p + 1]) /\ (results'[p + 1] => Works(p))
  <2>1. CASE p = phase
    BY <1>3, <2>1
  <2>2. CASE p # phase
    <3>1. p \in 0 .. (Len(results) - 1)
      BY <1>1, <2>2 DEF Types
    <3> QED BY <1>2, <3>1 DEF Recorded, Ok
  <2> QED BY <2>1, <2>2
<1> QED BY <1>1, <1>4 DEF Recorded, Ok, Works

\* The shape of the state needs nothing of the wires.
LEMMA Noted ==
    ASSUME Shape, pc \in Busy, NEW ok \in BOOLEAN, Return(ok)
    PROVE  /\ results' \in Seq(BOOLEAN) /\ Len(results') =< Phases
           /\ best' \in None .. (Phases - 1)
           /\ pc' \in {"sweep", "done", "idle"} /\ (pc' = "sweep" => job = "sweep")
<1> USE Numbers DEF Return
<1>1. phase \in None .. (Phases - 1) /\ phase < Phases
  BY DEF Shape, Types, TypeOK, All, None
<1>2. job = "sweep" => phase = Len(results)
  BY DEF Shape, Order
<1>3. results \in Seq(BOOLEAN) /\ Len(results) =< Phases /\ best \in None .. (Phases - 1)
  BY DEF Shape, Types, TypeOK
<1>4. results' \in Seq(BOOLEAN) /\ Len(results') =< Phases
  <2>1. CASE job = "sweep"
    BY <1>1, <1>2, <1>3, <2>1
  <2>2. CASE job # "sweep"
    BY <1>3, <2>2
  <2> QED BY <2>1, <2>2
<1>5. best' \in None .. (Phases - 1)
  BY <1>1, <1>3
<1> QED BY <1>4, <1>5

LEMMA ShapeStep ==
    ASSUME Shape, [Next]_vars
    PROVE  Shape'
<1> USE Numbers DEF Shape, Busy
<1>1. CASE SetReg
  BY <1>1 DEF SetReg, Types, TypeOK, Order
<1>2. CASE Mistaken
  BY <1>2 DEF Mistaken, Types, TypeOK, Order, None
<1>3. ASSUME NEW d \in 0 .. RoundTicks, NEW ok \in BOOLEAN, Probe(d, ok)
      PROVE  Shape'
  <2> USE <1>3 DEF Probe
  <2>1. ftPhase' \in All /\ age' \in None .. WdTicks
    BY Passes
  <2>2. round' \in 1 .. (Rounds + 3)
    <3>1. round \in 1 .. (Rounds + 3)
      BY DEF Types, TypeOK
    <3>2. round' = 1 \/ (round < Rounds /\ round' = round + 1)
      OBVIOUS
    <3> QED BY <3>1, <3>2
  <2>3. astray' \in BOOLEAN
    BY DEF Types, TypeOK, Late
  <2>4. pc' \in {"recover", "probe", "info"}
    OBVIOUS
  <2>5. UNCHANGED <<quality, prev, job, phase, blind, known, results, best, saved, cycles>>
    OBVIOUS
  <2> QED BY <2>1, <2>2, <2>3, <2>4, <2>5 DEF Types, TypeOK, Order
<1>4. ASSUME NEW ok \in BOOLEAN, Info(ok)
      PROVE  Shape'
  <2> USE <1>4 DEF Info
  <2>1. ok => Return(TRUE)
    OBVIOUS
  <2>2. /\ results' \in Seq(BOOLEAN) /\ Len(results') =< Phases
        /\ best' \in None .. (Phases - 1)
    BY <2>1, Noted DEF Types, TypeOK
  <2>3. known' \in None .. (Phases - 1)
    BY DEF Types, TypeOK, All, None
  <2>4. age' \in None .. WdTicks
    BY DEF Types, TypeOK, None
  <2>5. pc' \in {"recover", "sweep", "done", "idle"} /\ (pc' = "sweep" => job = "sweep")
        /\ (pc' = "recover" => results' = results)
    BY <2>1, Noted
  <2>6. UNCHANGED <<quality, ftPhase, prev, job, phase, round, blind, saved, cycles, astray>>
    OBVIOUS
  <2> QED BY <2>2, <2>3, <2>4, <2>5, <2>6 DEF Types, TypeOK, Order
<1>5. ASSUME NEW ok \in BOOLEAN, Resync(ok)
      PROVE  Shape'
  <2> USE <1>5 DEF Resync, NextAttempt
  <2>1. ok => Return(FALSE)
    OBVIOUS
  <2>2. /\ results' \in Seq(BOOLEAN) /\ Len(results') =< Phases
        /\ best' \in None .. (Phases - 1)
    BY <2>1, Noted DEF Types, TypeOK
  <2>3. ftPhase' \in All /\ age' \in None .. WdTicks
    BY Passes DEF Types, TypeOK, None
  <2>4. round' \in 1 .. (Rounds + 3)
    <3>1. round' = round \/ round' = 1 \/ (round < 3 /\ round' = round + 1)
      OBVIOUS
    <3>2. round \in 1 .. (Rounds + 3) /\ Rounds \in Nat
      BY DEF Types, TypeOK
    <3> QED BY <3>1, <3>2
  <2>5. pc' \in {"resync", "lost", "blind", "sweep", "done", "idle"} /\ (pc' = "sweep" => job = "sweep")
        /\ (pc' \in {"resync", "blind"} => results' = results)
    BY <2>1, Noted
  <2>6. UNCHANGED <<quality, prev, job, phase, blind, known, saved, cycles, astray>>
    OBVIOUS
  <2> QED BY <2>2, <2>3, <2>4, <2>5, <2>6 DEF Types, TypeOK, Order
<1>6. CASE Recover
  <2>1. ftPhase' \in All /\ age' \in None .. WdTicks
    BY <1>6, Passes DEF Recover
  <2> QED BY <1>6, <2>1 DEF Recover, Types, TypeOK, Order
<1>7. CASE Blind
  BY <1>7 DEF Blind, Types, TypeOK, Order, Fallback, All, None
<1>8. CASE NoAnswer
  <2>1. ftPhase' \in All /\ age' \in None .. WdTicks
    BY <1>8, Passes DEF NoAnswer, Types, TypeOK, None
  <2> QED BY <1>8, <2>1 DEF NoAnswer, Types, TypeOK, Order
<1>9. ASSUME NEW apply \in BOOLEAN, Open(apply)
      PROVE  Shape'
  <2> USE <1>9 DEF Open, Call
  <2>1. age' = None /\ None \in None .. WdTicks
    BY DEF None
  <2>2. known' \in None .. (Phases - 1) /\ best' \in None .. (Phases - 1)
    BY DEF None
  <2>3. phase' \in All /\ round' \in 1 .. (Rounds + 3)
    BY DEF Types, TypeOK, All, None
  <2>4. results' \in Seq(BOOLEAN) /\ Len(results') =< Phases /\ results' = <<>>
    OBVIOUS
  <2>5. pc' = "idle" \/ (pc' = "set" /\ job' = "apply")
    OBVIOUS
  <2> QED BY <2>1, <2>2, <2>3, <2>4, <2>5 DEF Types, TypeOK, Order
<1>10. ASSUME NEW p \in All, SetOne(p)
       PROVE  Shape'
  BY <1>10 DEF SetOne, Call, Types, TypeOK, Order, None
<1>11. CASE Tune
  BY <1>11 DEF Tune, Call, Types, TypeOK, Order, None
<1>12. CASE Sweep
  BY <1>12, BestIsPhase DEF Sweep, Call, Types, TypeOK, Order, All
<1>13. CASE Save
  BY <1>13 DEF Save, Types, TypeOK, Order, None
<1>14. CASE Close
  <2>1. None \in None .. (Phases - 1) /\ 1 \in 1 .. (Rounds + 3)
    BY DEF None
  <2>2. results' \in Seq(BOOLEAN) /\ Len(results') = 0
    BY <1>14 DEF Close
  <2> QED BY <1>14, <2>1, <2>2 DEF Close, Types, TypeOK, Order
<1>15. CASE PowerCycle
  BY <1>15 DEF PowerCycle, Types, TypeOK, Order, None
<1>16. CASE UNCHANGED vars
  BY <1>16 DEF vars, Types, TypeOK, Order
<1> QED BY <1>1, <1>2, <1>3, <1>4, <1>5, <1>6, <1>7, <1>8, <1>9, <1>10, <1>11, <1>12, <1>13,
           <1>14, <1>15, <1>16 DEF Next

LEMMA SetRegStep ==
    ASSUME DefaultWorks, Shape, Sound, SetReg
    PROVE  Sound'
<1> USE Numbers DEF Shape, Sound, SetReg, Arrives
<1>2. EngineInv'
  BY DEF Types, TypeOK
<1>3. KnownInv'
  BY DEF EngineInv, KnownInv, Works, Sharp
<1>4. BlindInv'
  BY DEF BlindInv
<1>5. SweepInv'
  BY BestKept DEF SweepInv, Swept, Recorded, Works, Ok, Busy
<1> QED BY <1>2, <1>3, <1>4, <1>5

LEMMA ProbeStep ==
    ASSUME DefaultWorks, Shape, Sound, NEW d \in 0 .. RoundTicks, NEW ok \in BOOLEAN, Probe(d, ok),
           ~astray'
    PROVE  Sound'
<1> USE Numbers DEF Shape, Sound, Probe, Outcomes, Answers
<1>a. ftPhase \in All /\ age \in 0 .. WdTicks /\ d \in Nat /\ Types
  BY DEF Types, TypeOK, EngineInv, None
<1>b. ok \/ quality[ftPhase] = "good" => age + d =< WdTicks
  <2>1. ok \/ quality[ftPhase] = "good" => ~Reverts(d)
    BY DEF Late
  <2> QED BY <1>a, <2>1 DEF Reverts, None
<1>c. /\ ftPhase' \in All /\ age' \in None .. WdTicks
      /\ ok => ftPhase' = ftPhase /\ age' = age + d
      /\ age' = None => ftPhase' = prev
      /\ age' # None => ftPhase' = phase
  BY <1>a, <1>b, Passes DEF EngineInv, None
<1>d. ~Reverts(d) => ok \in Answers(ftPhase)
  OBVIOUS
<1>e. (ok => Works(phase)) /\ (~ok => quality[phase] # "good")
  <2>1. ftPhase = phase
    BY DEF EngineInv
  <2>2. ok \/ quality[ftPhase] = "good" => ~Reverts(d)
    BY <1>a, <1>b DEF Reverts
  <2> QED BY <1>d, <2>1, <2>2 DEF Works
<1>2. EngineInv'
  <2>1. ok => age' # None
    BY <1>a, <1>c DEF None
  <2> QED BY <1>c, <1>e, <2>1 DEF EngineInv, Works
<1>3. KnownInv'
  BY <1>c DEF KnownInv, Works, Sharp
<1>4. BlindInv'
  BY DEF BlindInv
<1>5. SweepInv'
  BY <1>e, BestKept DEF SweepInv, Swept, Recorded, Works, Ok, Busy
<1> QED BY <1>2, <1>3, <1>4, <1>5

LEMMA InfoStep ==
    ASSUME DefaultWorks, Shape, Sound, NEW ok \in BOOLEAN, Info(ok)
    PROVE  Sound'
<1> USE Numbers DEF Shape, Sound, Info, Return, Answers, Arrives
<1>a. Works(phase) /\ ftPhase = phase /\ phase \in All /\ age \in None .. WdTicks
  BY DEF Types, TypeOK, EngineInv
<1>b. ~ok => quality[phase] = "marginal"
  BY <1>a DEF Works
<1>c. ok /\ job = "sweep" => /\ Recorded' /\ results' \in Seq(BOOLEAN)
                             /\ Len(results') = Len(results) + 1 /\ Len(results') =< Phases
  BY <1>a, OneMore DEF Order, SweepInv, Busy
<1>d. ~(ok /\ job = "sweep") => results' = results
  OBVIOUS
<1>2. EngineInv'
  BY <1>a DEF EngineInv, Works
<1>3. KnownInv'
  <2>1. ~ok => ~Sharp
    BY <1>a, <1>b DEF Sharp
  <2>2. Sharp' <=> Sharp
    BY DEF Sharp
  <2>3. ok => known' = phase /\ ftPhase' = phase /\ pc' \notin {"probe", "info", "recover"}
    BY <1>a
  <2>4. ~ok => known' = known /\ pc' # "closed"
    OBVIOUS
  <2> QED BY <1>a, <2>1, <2>2, <2>3, <2>4 DEF KnownInv, Works
<1>4. BlindInv'
  BY DEF BlindInv
<1>5. SweepInv'
  <2>1. Recorded'
    <3>1. CASE ok /\ job = "sweep"
      BY <1>c, <3>1
    <3>2. CASE ~(ok /\ job = "sweep")
      BY <1>d, <3>2 DEF SweepInv, Recorded, Ok, Works
    <3> QED BY <3>1, <3>2
  <2>2. job = "settle" => Swept' /\ Best' = Best
    BY BestKept DEF SweepInv, Swept, Busy, Ok
  <2> QED BY <1>a, <1>b, <2>1, <2>2 DEF SweepInv, Busy, Types
<1> QED BY <1>2, <1>3, <1>4, <1>5

LEMMA ResyncStep ==
    ASSUME DefaultWorks, Shape, Sound, NEW ok \in BOOLEAN, Resync(ok)
    PROVE  Sound'
<1> USE Numbers DEF Shape, Sound, Resync, Return, Answers, Arrives, NextAttempt
<1>a. Works(ftPhase) /\ ftPhase \in All /\ age = None
  BY DEF Types, TypeOK, EngineInv
<1>b. Arrives
  BY <1>a DEF Works
<1>c. ~ok => quality[ftPhase] = "marginal"
  BY <1>a DEF Works
<1>d. ok /\ job = "sweep" => /\ Recorded' /\ results' \in Seq(BOOLEAN)
                             /\ Len(results') = Len(results) + 1 /\ Len(results') =< Phases
  BY OneMore DEF Order, SweepInv, Busy
<1>e. ~(ok /\ job = "sweep") => results' = results
  OBVIOUS
<1>2. EngineInv'
  BY DEF EngineInv, Works
<1>3. KnownInv'
  BY DEF KnownInv, Works, Sharp
<1>4. BlindInv'
  <2>1. ~ok => ~Sharp
    BY <1>a, <1>c DEF Sharp
  <2>2. (Sharp' <=> Sharp) /\ Fallback' = Fallback
    BY DEF Sharp, Fallback
  <2>3. ftPhase' = ftPhase /\ quality' = quality /\ blind' = blind
    BY <1>b
  <2>4. pc' = "resync" => ~ok /\ round < 3 /\ round' = round + 1
    OBVIOUS
  <2>5. pc' \in {"blind", "lost"} => ~ok /\ pc' = NextAttempt
    OBVIOUS
  <2>6. pc' \notin {"set", "probe", "info", "recover"}
    OBVIOUS
  <2>7. round \in Nat
    BY DEF Types, TypeOK
  <2> QED BY <1>c, <2>1, <2>2, <2>3, <2>4, <2>5, <2>6, <2>7 DEF BlindInv
<1>5. SweepInv'
  <2>1. Recorded'
    <3>1. CASE ok /\ job = "sweep"
      BY <1>d, <3>1
    <3>2. CASE ~(ok /\ job = "sweep")
      BY <1>e, <3>2 DEF SweepInv, Recorded, Ok, Works
    <3> QED BY <3>1, <3>2
  <2>2. job = "settle" => Swept' /\ Best' = Best
    BY BestKept DEF SweepInv, Swept, Busy, Ok
  <2> QED BY <2>1, <2>2 DEF SweepInv, Busy, Types
<1> QED BY <1>2, <1>3, <1>4, <1>5

LEMMA RecoverStep ==
    ASSUME DefaultWorks, Shape, Sound, Recover
    PROVE  Sound'
<1> USE Numbers DEF Shape, Sound, Recover
<1>a. ftPhase \in All /\ age \in None .. WdTicks /\ Types
  BY DEF Types, TypeOK
<1>b. ftPhase' = (IF age = None THEN ftPhase ELSE prev) /\ age' = None
  BY <1>a, Passes DEF None
<1>2. EngineInv'
  BY <1>a, <1>b DEF EngineInv, Works
<1>3. KnownInv'
  BY <1>a, <1>b DEF KnownInv, Works, Sharp
<1>4. BlindInv'
  BY DEF EngineInv, Types, TypeOK
<1>5. SweepInv'
  BY <1>a, <1>b, BestKept DEF SweepInv, Swept, Recorded, Works, Ok, Busy
<1> QED BY <1>2, <1>3, <1>4, <1>5

LEMMA BlindStep ==
    ASSUME DefaultWorks, Shape, Sound, Blind
    PROVE  Sound'
<1> USE Numbers DEF Shape, Sound, Blind, Arrives
<1>2. EngineInv'
  BY DEF Types, TypeOK, KnownInv
<1>3. KnownInv'
  BY DEF KnownInv, Works, Sharp, Fallback
<1>4. BlindInv'
  BY DEF Types, TypeOK, None
<1>5. SweepInv'
  BY BestKept DEF SweepInv, Swept, Recorded, Works, Ok, Busy
<1> QED BY <1>2, <1>3, <1>4, <1>5

LEMMA NoAnswerStep ==
    ASSUME DefaultWorks, Shape, Sound, NoAnswer
    PROVE  Sound'
<1> USE Numbers DEF Shape, Sound, NoAnswer
<1>a. age = None /\ ftPhase' = ftPhase /\ age' = None
  BY DEF EngineInv, Elapse, Reverts
<1>2. EngineInv'
  BY <1>a DEF EngineInv, Works
<1>3. KnownInv'
  BY DEF KnownInv
<1>4. BlindInv'
  BY <1>a DEF BlindInv
<1>5. SweepInv'
  BY DEF Order, SweepInv, Recorded, Works, Ok, Busy
<1> QED BY <1>2, <1>3, <1>4, <1>5

LEMMA OpenStep ==
    ASSUME DefaultWorks, Shape, Sound, NEW apply \in BOOLEAN, Open(apply)
    PROVE  Sound'
<1> USE Numbers DEF Shape, Sound, Open, Call
<1>2. EngineInv'
  BY DEF EngineInv, Works
<1>3. KnownInv'
  BY DEF KnownInv
<1>4. BlindInv'
  BY DEF BlindInv
<1>5. SweepInv'
  BY DEF Order, SweepInv, Recorded, Busy
<1> QED BY <1>2, <1>3, <1>4, <1>5

LEMMA SetOneStep ==
    ASSUME DefaultWorks, Shape, Sound, NEW p \in All, SetOne(p)
    PROVE  Sound'
<1> USE Numbers DEF Shape, Sound, SetOne, Call
<1>2. EngineInv'
  BY DEF EngineInv, Works
<1>3. KnownInv'
  BY DEF KnownInv, Works, Sharp
<1>4. BlindInv'
  BY DEF BlindInv
<1>5. SweepInv'
  BY DEF SweepInv, Recorded
<1> QED BY <1>2, <1>3, <1>4, <1>5

LEMMA TuneStep ==
    ASSUME DefaultWorks, Shape, Sound, Tune
    PROVE  Sound'
<1> USE Numbers DEF Shape, Sound, Tune, Call
<1>2. EngineInv'
  BY DEF EngineInv, Works
<1>3. KnownInv'
  BY DEF KnownInv, Works, Sharp
<1>4. BlindInv'
  BY DEF BlindInv
<1>5. SweepInv'
  BY DEF SweepInv, Recorded
<1> QED BY <1>2, <1>3, <1>4, <1>5

LEMMA SweepStep ==
    ASSUME DefaultWorks, Shape, Sound, Sweep
    PROVE  Sound'
<1> USE Numbers DEF Shape, Sound, Sweep, Call
<1>2. EngineInv'
  BY DEF EngineInv, Works
<1>3. KnownInv'
  BY DEF KnownInv, Works, Sharp
<1>4. BlindInv'
  BY DEF BlindInv
<1>5. SweepInv'
  BY BestKept DEF Types, TypeOK, Ok
<1> QED BY <1>2, <1>3, <1>4, <1>5

LEMMA SaveStep ==
    ASSUME DefaultWorks, Shape, Sound, Save
    PROVE  Sound'
<1> USE Numbers DEF Shape, Sound, Save
<1>2. EngineInv'
  BY DEF EngineInv, Works
<1>3. KnownInv'
  BY DEF KnownInv, Works, Sharp
<1>4. BlindInv'
  BY DEF BlindInv
<1>5. SweepInv'
  BY DEF SweepInv, Recorded, Works, Ok, Busy
<1> QED BY <1>2, <1>3, <1>4, <1>5

LEMMA CloseStep ==
    ASSUME DefaultWorks, Shape, Sound, Close
    PROVE  Sound'
<1> USE Numbers DEF Shape, Sound, Close
<1>2. EngineInv'
  BY DEF EngineInv, Works
<1>3. KnownInv'
  BY DEF KnownInv
<1>4. BlindInv'
  BY DEF BlindInv
<1>5. SweepInv'
  BY DEF Order, SweepInv, Recorded, Busy
<1> QED BY <1>2, <1>3, <1>4, <1>5

LEMMA PowerCycleStep ==
    ASSUME DefaultWorks, Shape, PowerCycle
    PROVE  Sound'
<1> USE Numbers DEF Shape, Sound, PowerCycle
<1>2. EngineInv'
  BY DEF Types, None
<1>3. KnownInv'
  BY DEF KnownInv
<1>4. BlindInv'
  BY DEF BlindInv
<1>5. SweepInv'
  BY DEF Order, SweepInv, Recorded, Busy
<1> QED BY <1>2, <1>3, <1>4, <1>5

-----------------------------------------------------------------------------
(* The margin of a phase and the runs round it *)

Good(p) == quality[p] = "good"
Above(p, i) == (p + i + Phases) % Phases
Below(p, i) == (p - i + Phases) % Phases
Spread(p, m) == \A i \in 0 .. (m - 1) : Good(Above(p, i)) /\ Good(Below(p, i))

\* A step from a phase that was taken round the circle.
LEMMA Onward ==
    ASSUME NEW x \in 0 .. (2 * Phases - 1), NEW y \in 0 .. (Phases - 1)
    PROVE  /\ ((x % Phases) + y) % Phases = (x + y) % Phases
           /\ Above(x % Phases, y) = (x + y) % Phases
           /\ y =< x => Below(x % Phases, y) = (x - y) % Phases
<1>1. x % Phases = x \/ (x >= Phases /\ x % Phases = x - Phases)
  BY Circle DEF All
<1>2. x % Phases \in 0 .. (Phases - 1)
  BY Circle DEF All
<1>3. ((x % Phases) + y) % Phases = (x + y) % Phases
  <2>1. CASE x % Phases = x
    BY <2>1
  <2>2. CASE x >= Phases /\ x % Phases = x - Phases
    <3>1. (x - Phases) + y \in 0 .. (2 * Phases - 1)
      BY <2>2, Circle
    <3>2. ((x - Phases) + y) + Phases = x + y
      BY Circle
    <3> QED BY <2>2, <3>1, <3>2, Turn
  <2> QED BY <1>1, <2>1, <2>2
<1>4. Above(x % Phases, y) = ((x % Phases) + y) % Phases
  <2>1. (x % Phases) + y \in 0 .. (2 * Phases - 1)
    BY <1>2, Circle
  <2> QED BY <2>1, Turn DEF Above
<1>5. y =< x => Below(x % Phases, y) = (x - y) % Phases
  <2> SUFFICES ASSUME y =< x PROVE Below(x % Phases, y) = (x - y) % Phases
    OBVIOUS
  <2>1. CASE x % Phases = x
    <3>1. x - y \in 0 .. (2 * Phases - 1)
      BY Circle
    <3> QED BY <2>1, <3>1, Turn DEF Below
  <2>2. CASE x >= Phases /\ x % Phases = x - Phases
    <3>1. (x - Phases) - y + Phases = x - y
      BY Circle
    <3> QED BY <2>2, <3>1 DEF Below
  <2> QED BY <1>1, <2>1, <2>2
<1> QED BY <1>3, <1>4, <1>5

LEMMA MarginIs ==
    ASSUME NEW p \in All
    PROVE  /\ Margin(p) \in 0 .. Phases
           /\ Spread(p, Margin(p))
           /\ Margin(p) < Phases => ~Good(Above(p, Margin(p))) \/ ~Good(Below(p, Margin(p)))
<1> DEFINE Here(m) ==
      /\ \A i \in 0 .. (m - 1) : \A s \in {1, -1} : quality[(p + s * i + Phases) % Phases] = "good"
      /\ m < Phases => \E s \in {1, -1} : quality[(p + s * m + Phases) % Phases] # "good"
<1>1. \A i \in Int : p + 1 * i + Phases = p + i + Phases /\ p + (-1) * i + Phases = p - i + Phases
  BY Circle DEF All
<1>2. ASSUME NEW m \in 0 .. Phases
      PROVE  Here(m) <=> /\ Spread(p, m)
                         /\ m < Phases => ~Good(Above(p, m)) \/ ~Good(Below(p, m))
  <2>1. \A i \in Int : (\A s \in {1, -1} : quality[(p + s * i + Phases) % Phases] = "good")
                         <=> Good(Above(p, i)) /\ Good(Below(p, i))
    BY <1>1 DEF Good, Above, Below
  <2>2. \A i \in Int : (\E s \in {1, -1} : quality[(p + s * i + Phases) % Phases] # "good")
                         <=> ~Good(Above(p, i)) \/ ~Good(Below(p, i))
    BY <1>1 DEF Good, Above, Below
  <2>3. 0 .. (m - 1) \subseteq Int /\ m \in Int
    OBVIOUS
  <2> QED BY <2>1, <2>2, <2>3 DEF Spread
<1>3. \E m \in 0 .. Phases : Here(m)
  <2> DEFINE S == {i \in 0 .. (Phases - 1) : ~Good(Above(p, i)) \/ ~Good(Below(p, i))}
  <2>1. CASE S = {}
    <3>1. Spread(p, Phases)
      BY <2>1 DEF Spread
    <3>2. Phases \in 0 .. Phases /\ ~(Phases < Phases)
      BY Circle
    <3> QED BY <1>2, <3>1, <3>2
  <2>2. CASE S # {}
    <3>1. S \in SUBSET Nat
      BY Circle
    <3>2. PICK m \in S : \A k \in S : m =< k
      BY <2>2, <3>1, Least
    <3>3. m \in 0 .. Phases /\ \A i \in 0 .. (m - 1) : i \in 0 .. (Phases - 1) /\ ~(m =< i)
      BY Circle
    <3>4. Spread(p, m)
      BY <3>2, <3>3 DEF Spread
    <3> HIDE DEF Here
    <3> QED BY <1>2, <3>2, <3>3, <3>4
  <2> QED BY <2>1, <2>2
<1>4. Margin(p) = CHOOSE m \in 0 .. Phases : Here(m)
  BY DEF Margin
<1> HIDE DEF Here
<1>5. Margin(p) \in 0 .. Phases /\ Here(Margin(p))
  BY <1>3, <1>4
<1> QED BY <1>2, <1>5

\* What is good on both sides of a phase is a run.
LEMMA SpreadIsRun ==
    ASSUME NEW p \in All, NEW m \in 1 .. Phases, 2 * m - 1 =< Phases, Spread(p, m)
    PROVE  /\ Below(p, m - 1) \in All /\ 2 * m - 1 \in 1 .. Phases
           /\ \A q \in Run(Below(p, m - 1), 2 * m - 1) : Good(q)
<1> DEFINE x == p - (m - 1) + Phases
           len == 2 * m - 1
<1>1. x \in 0 .. (2 * Phases - 1) /\ Below(p, m - 1) = x % Phases
  BY Circle DEF All, Below
<1>2. Below(p, m - 1) \in All /\ len \in 1 .. Phases
  BY <1>1, Circle
<1>3. ASSUME NEW j \in 0 .. (len - 1)
      PROVE  Good((Below(p, m - 1) + j) % Phases)
  <2>1. j \in 0 .. (Phases - 1)
    BY Circle
  <2>2. (Below(p, m - 1) + j) % Phases = (x + j) % Phases
    BY <1>1, <2>1, Onward
  <2>3. CASE j =< m - 1
    <3> DEFINE i == (m - 1) - j
    <3>1. i \in 0 .. (m - 1) /\ x + j = p - i + Phases
      BY <2>3, Circle DEF All
    <3> HIDE DEF x, i
    <3> QED BY <2>2, <3>1 DEF Spread, Below
  <2>4. CASE j > m - 1
    <3> DEFINE i == j - (m - 1)
    <3>1. i \in 0 .. (m - 1) /\ x + j = p + i + Phases
      BY <2>4, Circle DEF All
    <3> HIDE DEF x, i
    <3> QED BY <2>2, <3>1 DEF Spread, Above
  <2> QED BY <2>3, <2>4
<1>4. \A q \in Run(Below(p, m - 1), len) :
        \E j \in 0 .. (len - 1) : q = (Below(p, m - 1) + j) % Phases
  BY <1>2, RunElements
<1> QED BY <1>2, <1>3, <1>4

\* More than half the circle on both sides is the whole circle.
LEMMA SpreadIsAll ==
    ASSUME NEW p \in All, NEW m \in 1 .. Phases, 2 * m - 1 > Phases, Spread(p, m)
    PROVE  \A q \in All : Good(q)
<1> SUFFICES ASSUME NEW q \in All PROVE Good(q)
  OBVIOUS
<1> DEFINE d == IF q >= p THEN q - p ELSE q - p + Phases
<1>1. d \in 0 .. (Phases - 1) /\ (d < m \/ Phases - d < m)
  BY Circle DEF All
<1>2. p + d = q \/ p + d = q + Phases
  BY Circle DEF All
<1>3. q % Phases = q /\ (q + Phases) % Phases = q /\ ((q + Phases) + Phases) % Phases = q
  <2>1. q \in 0 .. (2 * Phases - 1) /\ q + Phases \in 0 .. (2 * Phases - 1)
    BY Circle DEF All
  <2> QED BY <2>1, Turn, Circle
<1> HIDE DEF d
<1>4. CASE d < m
  <2>1. Above(p, d) = q
    BY <1>1, <1>2, <1>3, Circle DEF Above, All
  <2>2. d \in 0 .. (m - 1)
    BY <1>1, <1>4
  <2> QED BY <2>1, <2>2 DEF Spread
<1>5. CASE Phases - d < m
  <2>1. p - (Phases - d) + Phases = p + d
    BY <1>1, Circle DEF All
  <2>2. Below(p, Phases - d) = q
    BY <1>2, <1>3, <2>1 DEF Below
  <2>3. Phases - d \in 0 .. (m - 1)
    BY <1>1, <1>5, Circle
  <2> QED BY <2>2, <2>3 DEF Spread
<1> QED BY <1>1, <1>4, <1>5

\* The middle of a run has good phases on both sides, as far as the run goes.
LEMMA RunIsSpread ==
    ASSUME NEW start \in All, NEW len \in 1 .. Phases, \A q \in Run(start, len) : Good(q),
           NEW h \in Nat, 2 * h =< len - 1
    PROVE  Spread((start + h) % Phases, h + 1)
<1> DEFINE x == start + h
<1>1. x \in 0 .. (2 * Phases - 1)
  BY Circle DEF All
<1>2. ASSUME NEW i \in 0 .. ((h + 1) - 1)
      PROVE  Good(Above(x % Phases, i)) /\ Good(Below(x % Phases, i))
  <2>1. i \in 0 .. (Phases - 1) /\ i =< x
    BY Circle DEF All
  <2>2. Above(x % Phases, i) = (x + i) % Phases /\ Below(x % Phases, i) = (x - i) % Phases
    BY <1>1, <2>1, Onward
  <2>3. h + i \in 0 .. (len - 1) /\ h - i \in 0 .. (len - 1)
    OBVIOUS
  <2>4. x + i = start + (h + i) /\ x - i = start + (h - i)
    BY Circle DEF All
  <2> HIDE DEF x
  <2> QED BY <2>2, <2>3, <2>4, RunElements
<1> QED BY <1>2 DEF Spread

\* The middle of the longest run is as far from a phase that does not work as
\* any phase is.
LEMMA BestIsFurthest ==
    ASSUME Sharp, Swept, Recorded, \E p \in All : ~Good(p)
    PROVE  \A p \in All : Margin(p) =< Margin(Best)
<1>1. \A p \in All : Ok(p) <=> Good(p)
  BY Circle DEF Sharp, Swept, Recorded, Works, Good, All
<1>2. PICK good \in All, other \in All : Ok(good) /\ ~Ok(other)
  BY <1>1 DEF Swept
<1> DEFINE start == LongestRun[1]
           len == LongestRun[2]
           h == (len - 1) \div 2
<1>3. /\ start \in All /\ len \in 1 .. Phases
      /\ Passing(start, len)
      /\ \A s \in All, l \in 1 .. Phases : Passing(s, l) => l =< len
  BY <1>2, LongestRunIs
<1>4. Best = (start + h) % Phases
  BY <1>2 DEF Best
<1> HIDE DEF start, len
<1>5. h \in Nat /\ 2 * h =< len - 1 /\ len - 1 =< 2 * h + 1
  BY <1>3, Circle
<1> HIDE DEF h
<1>6. \A q \in Run(start, len) : Good(q)
  BY <1>1, <1>3, RunElements DEF Passing
<1>7. Best \in All /\ Spread(Best, h + 1)
  <2>1. start + h \in Int
    BY <1>3, <1>5 DEF All
  <2> QED BY <1>3, <1>4, <1>5, <1>6, <2>1, RunIsSpread, Circle
<1>8. Margin(Best) >= h + 1
  <2> SUFFICES ASSUME Margin(Best) < h + 1 PROVE FALSE
    BY <1>5, <1>7, MarginIs
  <2>1. Margin(Best) \in 0 .. ((h + 1) - 1) /\ Margin(Best) < Phases
    BY <1>3, <1>5, <1>7, MarginIs, Circle
  <2> QED BY <1>7, <2>1, MarginIs DEF Spread
<1>9. ASSUME NEW p \in All PROVE Margin(p) =< h + 1
  <2> DEFINE m == Margin(p)
  <2>1. m \in 0 .. Phases /\ Spread(p, m)
    BY MarginIs
  <2> HIDE DEF m
  <2> SUFFICES ASSUME m \in 1 .. Phases PROVE m =< h + 1
    BY <1>5, <2>1 DEF m
  <2>2. 2 * m - 1 =< Phases
    <3>1. ~(2 * m - 1 > Phases)
      BY <1>1, <1>2, <2>1, SpreadIsAll
    <3> QED BY <3>1, Circle
  <2>3. /\ Below(p, m - 1) \in All /\ 2 * m - 1 \in 1 .. Phases
        /\ \A q \in Run(Below(p, m - 1), 2 * m - 1) : Good(q)
    BY <2>1, <2>2, SpreadIsRun
  <2>4. Passing(Below(p, m - 1), 2 * m - 1)
    BY <1>1, <2>3, RunElements DEF Passing
  <2>5. 2 * m - 1 =< len
    BY <1>3, <2>3, <2>4
  <2> QED BY <1>3, <1>5, <2>5, Circle
<1>10. \A p \in All : Margin(p) \in Int
  BY MarginIs
<1> QED BY <1>5, <1>7, <1>8, <1>9, <1>10

-----------------------------------------------------------------------------
(* The theorems *)

LEMMA InitInv == ASSUME DefaultWorks, Init PROVE IndInv
<1> USE Numbers DEF Init, None
<1>1. Types
  <2>1. age \in None .. WdTicks /\ known \in None .. (Phases - 1) /\ best \in None .. (Phases - 1)
    OBVIOUS
  <2>2. results \in Seq(BOOLEAN) /\ Len(results) = 0 /\ round \in 1 .. (Rounds + 3)
    OBVIOUS
  <2> QED BY <2>1, <2>2 DEF Types, TypeOK
<1>2. EngineInv
  OBVIOUS
<1>3. KnownInv /\ BlindInv
  BY DEF KnownInv, BlindInv
<1>4. SweepInv
  BY DEF SweepInv, Recorded, Busy
<1>5. Order
  BY DEF Order, Busy
<1> QED BY <1>1, <1>2, <1>3, <1>4, <1>5 DEF IndInv, Shape, Sound

LEMMA NextInv ==
    ASSUME DefaultWorks, IndInv, [Next]_vars
    PROVE  IndInv'
<1>a. Shape'
  BY ShapeStep DEF IndInv
<1>b. SUFFICES ASSUME ~astray' PROVE Sound'
  BY <1>a DEF IndInv
<1>12. CASE PowerCycle
  BY <1>12, PowerCycleStep DEF IndInv
<1>c. CASE ~PowerCycle
  <2>1. CASE astray
    BY <1>b, <1>c, <2>1
       DEF Next, SetReg, Mistaken, Probe, Info, Resync, Recover, Blind, NoAnswer, Open, SetOne,
           Tune, Sweep, Save, Close, vars
  <2>2. CASE ~astray
    <3> Shape /\ Sound
      BY <2>2 DEF IndInv
    <3>1. CASE SetReg
      BY <3>1, SetRegStep
    <3>2. CASE \E d \in 0 .. RoundTicks, ok \in BOOLEAN : Probe(d, ok)
      BY <1>b, <3>2, ProbeStep
    <3>3. CASE \E ok \in BOOLEAN : Info(ok) \/ Resync(ok)
      BY <3>3, InfoStep, ResyncStep
    <3>4. CASE Recover
      BY <3>4, RecoverStep
    <3>5. CASE Blind
      BY <3>5, BlindStep
    <3>6. CASE \E apply \in BOOLEAN : Open(apply)
      BY <3>6, OpenStep
    <3>7. CASE \E p \in All : SetOne(p)
      BY <3>7, SetOneStep
    <3>8. CASE Tune
      BY <3>8, TuneStep
    <3>9. CASE Sweep
      BY <3>9, SweepStep
    <3>10. CASE Save
      BY <3>10, SaveStep
    <3>11. CASE Close
      BY <3>11, CloseStep
    <3>12. CASE NoAnswer
      BY <3>12, NoAnswerStep
    <3>13. CASE UNCHANGED vars
      BY <3>13, BestKept
         DEF vars, Sound, EngineInv, KnownInv, BlindInv, SweepInv, Swept,
             Recorded, Works, Sharp, Fallback, Ok
    <3>14. CASE Mistaken
      BY <1>b, <3>14 DEF Mistaken
    <3> QED BY <1>c, <3>1, <3>2, <3>3, <3>4, <3>5, <3>6, <3>7, <3>8, <3>9, <3>10, <3>11, <3>12,
               <3>13, <3>14 DEF Next
  <2> QED BY <2>1, <2>2
<1> QED BY <1>12, <1>c

\* set_phase, _recover, tune and the engine's watchdog keep the inductive invariant,
\* unless a probe outlasts the watchdog or a wrong byte reads as INFO.
THEOREM PhaseInvariant ==
    ASSUME DefaultWorks
    PROVE  Spec => []IndInv
<1>1. Init => IndInv
  BY InitInv
<1>2. IndInv /\ [Next]_vars => IndInv'
  BY NextInv
<1> QED BY <1>1, <1>2, PTL DEF Spec

\* "a phase that breaks the link costs a short wait, never the connection": trying a
\* phase leaves the engine at a confirmed phase that works, which is the one the host
\* believes in when no phase is marginal (set_phase, _recover).
THEOREM LinkSurvives ==
    ASSUME DefaultWorks
    PROVE  Spec => []LinkKept
<1>1. IndInv => LinkKept
  BY DEF IndInv, Shape, Types, Sound, EngineInv, KnownInv, BlindInv, LinkKept, Works
<1> QED BY <1>1, PhaseInvariant, PTL

\* The sweep of tune passes the phases that work, and the phase it settles on, the
\* middle of _longest_run, is as far from one that does not as any phase is.
THEOREM TuneFindsTheMiddle ==
    ASSUME DefaultWorks
    PROVE  Spec => []TuneTrue
<1>1. IndInv => TuneTrue
  <2> SUFFICES ASSUME Shape, Sound PROVE TuneTrue
    BY DEF IndInv, TuneTrue
  <2>1. Recorded
    BY DEF Sound, SweepInv
  <2>2. pc = "done" => age = None /\ ftPhase = best /\ best = Best /\ Swept
    BY DEF Sound, SweepInv, EngineInv
  <2>3. pc = "done" /\ Sharp /\ (\E p \in All : quality[p] # "good") =>
          \A p \in All : Margin(p) =< Margin(best)
    BY <2>1, <2>2, BestIsFurthest DEF Good
  <2> QED BY <2>1, <2>2, <2>3 DEF TuneTrue, Recorded, Works
<1> QED BY <1>1, PhaseInvariant, PTL
=============================================================================
