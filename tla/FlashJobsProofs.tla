--------------------------- MODULE FlashJobsProofs ---------------------------
(***************************************************************************)
(* Proofs about FlashJobs, for every chip, image, set of weak blocks and   *)
(* number of jobs: IndInv holds initially and is kept by every action (one *)
(* lemma per action); the safety properties follow from it.                *)
(***************************************************************************)
EXTENDS FlashJobs, FiniteSetTheorems, FunctionTheorems, WellFoundedInduction, TLAPS

------------------------------------------------------------------------------
(* The inductive invariant *)

InBlock == pc \in {"erase", "program", "verify"}
Working == pc = "loop" \/ InBlock

\* A job that is at a block has one to work on.
AtBlock ==
  InBlock => kind = "write" /\ fb < FileBlocks /\ phys < Blocks /\ phys \notin bad

\* What is known of the outcome.
OutcomeInv ==
  /\ pc \in {"scan", "begin"} \/ Working => outcome = "none"
  /\ kind = "write" /\ outcome = "ok" => fb = FileBlocks

\* WP# is only high between begin_write and end_write, unless one of them failed:
\* in the job that ended with this, or before the one that is still going to begin.
WpInv ==
  /\ pc \in {"scan", "begin"} => before = [cells |-> cells, wp |-> wp]
  /\ pc = "idle" /\ outcome # "wp error" /\ wp => before = [cells |-> cells, wp |-> TRUE]

\* The job has not moved before it begins, and then knows of every marked block
\* that it could come to.
MarksKnown ==
  /\ start =< phys
  /\ pc \in {"scan", "begin"} => fb = 0 /\ phys = start
  /\ mode # "force" /\ (pc = "begin" \/ Working) => Marked \subseteq bad
  /\ mode = "force" => pc # "scan" /\ bad = {}

\* What a write has placed so far.
PlacedInv ==
  kind = "write" =>
    /\ \A b \in Block : b < start \/ b > phys => cells[b] = before.cells[b]
    /\ skipped \subseteq 1 .. fb
    /\ \A f \in (1 .. fb) \ skipped :
         /\ placed[f] \in start .. (phys - 1)
         /\ doVerify => cells[placed[f]] = f
         /\ mode # "skip" => placed[f] = start + f - 1
    /\ \A f, g \in (1 .. fb) \ skipped : f < g => placed[f] < placed[g]
    /\ mode # "skip" => phys = start + fb

\* As long as no block failed, a write that skips bad blocks leaves the markers
\* alone and fills every other block it passes.
FilledInv ==
  kind = "write" /\ mode = "skip" /\ newBad = {} =>
    /\ skipped = {}
    /\ pc = "begin" \/ Working \/ outcome = "ok" =>
         /\ bad = Marked
         /\ \A f \in 1 .. fb : placed[f] \notin mark
         /\ \A b \in start .. (phys - 1) : b \in mark \/ \E f \in 1 .. fb : placed[f] = b

IndInv == TypeOK /\ AtBlock /\ OutcomeInv /\ WpInv /\ MarksKnown /\ PlacedInv /\ FilledInv
------------------------------------------------------------------------------
(* A nonempty set of natural numbers has a least element, a bounded one a  *)
(* greatest: the erase job goes on behind the last block of its batch.     *)

Below == {p \in Nat \X Nat : p[1] < p[2]}

LEMMA HasLeast ==
  ASSUME NEW T, T \subseteq Nat, T # {}
  PROVE  \E x \in T : \A y \in T : x =< y
<1>1. OpToRel(<, Nat) = Below
  BY DEF OpToRel, Below
<1>2. PICK x \in T : \A y \in T : ~ (<<y, x>> \in Below)
  BY WFMin, NatLessThanWellFounded, <1>1
<1>3. ASSUME NEW y \in T PROVE x =< y
  <2>1. /\ x \in Nat /\ y \in Nat
        /\ <<y, x>> \in Nat \X Nat /\ <<y, x>>[1] = y /\ <<y, x>>[2] = x
    OBVIOUS
  <2>2. ~ (<<y, x>>[1] < <<y, x>>[2])
    BY <2>1, <1>2 DEF Below
  <2> QED BY <2>1, <2>2
<1> QED BY <1>3

LEMMA HasGreatest ==
  ASSUME NEW n \in Nat, NEW T, T \subseteq 0 .. n, T # {}
  PROVE  \E x \in T : \A y \in T : y =< x
<1> DEFINE U == {n - y : y \in T}
<1>1. U \subseteq Nat /\ U # {}
  <2>1. \A y \in T : n - y \in Nat
    OBVIOUS
  <2> QED BY <2>1
<1>2. PICK u \in U : \A v \in U : u =< v
  BY <1>1, HasLeast
<1>3. PICK x \in T : u = n - x
  OBVIOUS
<1>4. ASSUME NEW y \in T PROVE y =< x
  <2>1. n - y \in U
    OBVIOUS
  <2>2. n - x =< n - y
    BY <2>1, <1>2, <1>3
  <2> QED BY <2>2
<1> QED BY <1>4

(* What the types and the sizes give, in the form the provers use. *)
LEMMA Numbers ==
  ASSUME TypeOK
  PROVE  /\ Blocks \in Nat /\ FileBlocks \in Nat /\ EraseGroup \in Nat \ {0}
         /\ Block = 0 .. (Blocks - 1) /\ Block \subseteq Nat
         /\ start \in Nat /\ start < Blocks
         /\ fb \in Nat /\ fb =< FileBlocks
         /\ phys \in Nat /\ phys =< Blocks
<1>1. Blocks \in Nat /\ FileBlocks \in Nat /\ EraseGroup \in Nat \ {0}
  BY SizesAssumption
<1>2. start \in Block /\ fb \in 0 .. FileBlocks /\ phys \in 0 .. Blocks
  BY DEF TypeOK
<1> QED BY <1>1, <1>2 DEF Block

(* The batch of the erase job is not empty, and phys moves behind it. *)
LEMMA GroupFacts ==
  ASSUME TypeOK, Left # {}
  PROVE  LET next == 1 + CHOOSE b \in Group : \A c \in Group : c =< b
         IN next \in 0 .. Blocks /\ phys < next
<1>1. /\ Blocks \in Nat /\ EraseGroup \in Nat \ {0} /\ phys \in Nat
      /\ Block = 0 .. (Blocks - 1) /\ Block \subseteq Nat
  BY Numbers
<1>2. Left \subseteq Block /\ Group \subseteq Left
  BY DEF Left, Group
<1>3. PICK b \in Left : \A c \in Left : b =< c
  BY <1>1, <1>2, HasLeast
<1>4. {c \in Left : c < b} = {}
  <2>1. \A c \in Left : ~ (c < b)
    BY <1>1, <1>2, <1>3
  <2> QED BY <2>1
<1>5. b \in Group
  BY <1>1, <1>4, FS_EmptySet DEF Group
<1>6. Group \subseteq 0 .. (Blocks - 1) /\ Blocks - 1 \in Nat
  BY <1>1, <1>2, <1>5
<1>7. \E x \in Group : \A y \in Group : y =< x
  BY <1>5, <1>6, HasGreatest
<1>8. (CHOOSE x \in Group : \A y \in Group : y =< x) \in Group
  BY <1>7
<1>9. \A x \in Group : x \in 0 .. (Blocks - 1) /\ phys =< x
  BY <1>6 DEF Group, Left
<1> QED BY <1>1, <1>8, <1>9

------------------------------------------------------------------------------
LEMMA InitInd == Init => IndInv
<1> SUFFICES ASSUME Init PROVE IndInv
  OBVIOUS
<1>1. TypeOK
  <2>1. Blocks \in Nat /\ FileBlocks \in 1 .. Blocks /\ MaxJobs \in Nat
    BY SizesAssumption
  <2>2. start \in Block /\ fb \in 0 .. FileBlocks /\ phys \in 0 .. Blocks /\ jobs \in 0 .. MaxJobs
    BY <2>1 DEF Init, Block
  <2>3. cells \in [Block -> Contents]
    BY DEF Init, Contents
  <2>4. placed \in [1 .. FileBlocks -> Block \cup {NoBlock}]
    BY DEF Init
  <2>5. before \in [cells : [Block -> Contents], wp : BOOLEAN]
    BY <2>3 DEF Init
  <2> QED BY <2>2, <2>3, <2>4, <2>5 DEF Init, TypeOK, Modes
<1>2. AtBlock /\ OutcomeInv /\ WpInv /\ MarksKnown
  BY <1>1 DEF Init, TypeOK, AtBlock, OutcomeInv, WpInv, MarksKnown, InBlock, Working
<1>3. PlacedInv /\ FilledInv
  BY SizesAssumption DEF Init, PlacedInv, FilledInv, Working, InBlock
<1> QED BY <1>1, <1>2, <1>3 DEF IndInv

(* A job begins: nothing is placed, nothing known, the chip as it is. *)
LEMMA StartJobFacts ==
  ASSUME NEW k \in {"write", "erase"}, TypeOK, StartJob(k)
  PROVE  /\ jobs' \in 0 .. MaxJobs /\ kind' = k /\ mode' \in Modes
         /\ pc' \in {"scan", "begin"} /\ pc' = (IF mode' = "force" THEN "begin" ELSE "scan")
         /\ fb' = 0 /\ bad' = {} /\ newBad' = {} /\ skipped' = {}
         /\ placed' \in [1 .. FileBlocks -> Block \cup {NoBlock}]
         /\ outcome' = "none"
         /\ before' = [cells |-> cells, wp |-> wp]
         /\ before' \in [cells : [Block -> Contents], wp : BOOLEAN]
         /\ UNCHANGED <<cells, mark, wp, weak, factory>>
<1>1. jobs' \in 0 .. MaxJobs
  <2>1. jobs \in 0 .. MaxJobs /\ jobs < MaxJobs /\ jobs' = jobs + 1
    BY DEF StartJob, TypeOK
  <2> QED BY <2>1, SizesAssumption
<1>2. placed' \in [1 .. FileBlocks -> Block \cup {NoBlock}]
  BY DEF StartJob
<1>3. before' \in [cells : [Block -> Contents], wp : BOOLEAN]
  BY DEF StartJob, TypeOK
<1> QED BY <1>1, <1>2, <1>3 DEF StartJob, chipVars, constVars, Modes

LEMMA StartWriteInd == IndInv /\ StartWrite => IndInv'
<1> SUFFICES ASSUME IndInv, StartWrite PROVE IndInv'
  OBVIOUS
<1>1. /\ StartJob("write") /\ phys' = start' /\ doErase' \in BOOLEAN /\ doVerify' \in BOOLEAN
      /\ start' \in 0 .. (Blocks - FileBlocks)
  BY DEF StartWrite
<1>2. start' \in Block /\ phys' \in 0 .. Blocks /\ start' \in Nat
  BY <1>1, SizesAssumption DEF Block
<1>3. TypeOK'
  <2>1. fb' \in 0 .. FileBlocks
    BY <1>1, StartJobFacts, Numbers DEF IndInv
  <2> QED
    BY <1>1, <1>2, <2>1, StartJobFacts DEF IndInv, TypeOK
<1>4. AtBlock' /\ OutcomeInv' /\ WpInv' /\ MarksKnown'
  <2>1. /\ pc' \in {"scan", "begin"} /\ pc' = (IF mode' = "force" THEN "begin" ELSE "scan")
        /\ outcome' = "none" /\ fb' = 0 /\ bad' = {}
        /\ cells' = cells /\ wp' = wp /\ before' = [cells |-> cells, wp |-> wp]
    BY <1>1, StartJobFacts DEF IndInv
  <2>2. AtBlock' /\ OutcomeInv'
    BY <2>1 DEF AtBlock, OutcomeInv, InBlock, Working
  <2>3. WpInv'
    BY <2>1 DEF WpInv
  <2>4. MarksKnown'
    BY <1>1, <1>2, <2>1 DEF MarksKnown, InBlock, Working
  <2> QED BY <2>2, <2>3, <2>4
<1>5. PlacedInv'
  <2>1. fb' = 0 /\ skipped' = {} /\ phys' = start' /\ cells' = cells
    BY <1>1, StartJobFacts DEF IndInv
  <2>2. before'.cells = cells
    BY <1>1, StartJobFacts DEF IndInv
  <2>3. start' + 0 = start'
    <3>1. \A n \in Nat : n + 0 = n
      OBVIOUS
    <3> QED BY <1>2, <3>1
  <2>4. \A f \in 1 .. 0 : FALSE
    OBVIOUS
  <2> QED BY <2>1, <2>2, <2>3, <2>4 DEF PlacedInv
<1>6. FilledInv'
  BY <1>1, <1>2, StartJobFacts DEF IndInv, FilledInv, InBlock, Working
<1> QED BY <1>3, <1>4, <1>5, <1>6 DEF IndInv

LEMMA StartEraseInd == IndInv /\ StartErase => IndInv'
<1> SUFFICES ASSUME IndInv, StartErase PROVE IndInv'
  OBVIOUS
<1>1. StartJob("erase") /\ phys' = start' /\ start' \in Block /\ UNCHANGED <<doErase, doVerify>>
  BY DEF StartErase
<1>2. phys' \in 0 .. Blocks /\ start' \in Nat
  BY <1>1, Numbers DEF IndInv
<1>3. TypeOK'
  <2>1. fb' \in 0 .. FileBlocks
    BY <1>1, StartJobFacts, Numbers DEF IndInv
  <2> QED
    BY <1>1, <1>2, <2>1, StartJobFacts DEF IndInv, TypeOK
<1>4. AtBlock' /\ OutcomeInv' /\ WpInv' /\ MarksKnown'
  <2>1. /\ pc' \in {"scan", "begin"} /\ pc' = (IF mode' = "force" THEN "begin" ELSE "scan")
        /\ outcome' = "none" /\ fb' = 0 /\ bad' = {}
        /\ cells' = cells /\ wp' = wp /\ before' = [cells |-> cells, wp |-> wp]
    BY <1>1, StartJobFacts DEF IndInv
  <2>2. AtBlock' /\ OutcomeInv'
    BY <2>1 DEF AtBlock, OutcomeInv, InBlock, Working
  <2>3. WpInv'
    BY <2>1 DEF WpInv
  <2>4. MarksKnown'
    BY <1>1, <1>2, <2>1 DEF MarksKnown, InBlock, Working
  <2> QED BY <2>2, <2>3, <2>4
<1>5. PlacedInv' /\ FilledInv'
  <2>1. kind' = "erase"
    BY <1>1, StartJobFacts DEF IndInv
  <2> QED BY <2>1 DEF PlacedInv, FilledInv
<1> QED BY <1>3, <1>4, <1>5 DEF IndInv

(* The markers are read: the job knows every one from its start on. *)
LEMMA ScanInd == IndInv /\ Scan => IndInv'
<1> SUFFICES ASSUME IndInv, Scan PROVE IndInv'
  OBVIOUS
<1>1. /\ UNCHANGED <<cells, mark, wp, jobs, kind, mode, doErase, doVerify, start, fb, phys,
                     newBad, skipped, placed, before, weak, factory>>
      /\ pc = "scan"
      /\ \/ bad' = Marked /\ pc' = "begin" /\ outcome' = outcome
         \/ bad' \in {bad, Marked} /\ pc' = "idle" /\ outcome' \in {"error", "cancelled"}
  BY DEF Scan, Leave, chipVars, optVars, constVars
<1>2. Marked \subseteq Block /\ Marked' = Marked
  BY <1>1 DEF IndInv, TypeOK, Marked
<1>3. TypeOK'
  BY <1>1, <1>2 DEF IndInv, TypeOK
<1>4. AtBlock' /\ OutcomeInv' /\ WpInv' /\ MarksKnown'
  BY <1>1, <1>2 DEF IndInv, AtBlock, OutcomeInv, WpInv, MarksKnown, InBlock, Working
<1>5. PlacedInv'
  BY <1>1 DEF IndInv, PlacedInv
<1>6. FilledInv'
  <2>1. CASE bad' = Marked /\ pc' = "begin"
    <3>1. fb = 0 /\ phys = start /\ start \in Nat
      BY <1>1, Numbers DEF IndInv, MarksKnown
    <3>2. 1 .. fb = {} /\ start .. (phys - 1) = {}
      BY <3>1
    <3> QED BY <1>1, <1>2, <2>1, <3>2 DEF IndInv, FilledInv
  <2>2. CASE pc' = "idle" /\ outcome' # "ok"
    BY <1>1, <2>2 DEF IndInv, FilledInv, InBlock, Working
  <2> QED BY <1>1, <2>1, <2>2
<1> QED BY <1>3, <1>4, <1>5, <1>6 DEF IndInv

(* begin_write. *)
LEMMA BeginInd == IndInv /\ Begin => IndInv'
<1> SUFFICES ASSUME IndInv, Begin PROVE IndInv'
  OBVIOUS
<1>1. TypeOK'
  BY DEF IndInv, TypeOK, Begin, Leave, optVars, posVars, constVars
<1>2. AtBlock' /\ OutcomeInv' /\ WpInv' /\ MarksKnown'
  BY DEF IndInv, AtBlock, OutcomeInv, WpInv, MarksKnown, InBlock, Working, Marked,
         Begin, Leave, optVars, posVars, constVars
<1>3. PlacedInv'
  BY DEF IndInv, PlacedInv, Begin, Leave, optVars, posVars, constVars
<1>4. FilledInv'
  BY DEF IndInv, FilledInv, InBlock, Working, Marked, Begin, Leave, optVars, posVars, constVars
<1> QED BY <1>1, <1>2, <1>3, <1>4 DEF IndInv

(* end_write. *)
LEMMA EndInd == IndInv /\ End => IndInv'
<1> SUFFICES ASSUME IndInv, End PROVE IndInv'
  OBVIOUS
<1>1. TypeOK'
  BY DEF IndInv, TypeOK, End, optVars, posVars, constVars
<1>2. AtBlock' /\ OutcomeInv' /\ WpInv' /\ MarksKnown'
  BY DEF IndInv, AtBlock, OutcomeInv, WpInv, MarksKnown, InBlock, Working, Marked,
         End, optVars, posVars, constVars
<1>3. PlacedInv'
  BY DEF IndInv, PlacedInv, End, optVars, posVars, constVars
<1>4. FilledInv'
  BY DEF IndInv, FilledInv, InBlock, Working, Marked, End, optVars, posVars, constVars
<1> QED BY <1>1, <1>2, <1>3, <1>4 DEF IndInv

(* The job is over, for a reason other than success: nothing else changes. *)
LEMMA FinishInd ==
  ASSUME IndInv, Working, NEW how \in {"failed", "cancelled", "error"}, Finish(how),
         UNCHANGED <<cells, mark, wp, jobs, optVars, posVars, before, constVars>>
  PROVE  IndInv'
<1>1. TypeOK'
  BY DEF IndInv, TypeOK, Finish, optVars, posVars, constVars
<1>2. AtBlock' /\ OutcomeInv' /\ WpInv' /\ MarksKnown'
  BY DEF IndInv, AtBlock, OutcomeInv, WpInv, MarksKnown, InBlock, Working, Marked,
         Finish, optVars, posVars, constVars
<1>3. PlacedInv'
  BY DEF IndInv, PlacedInv, optVars, posVars, constVars
<1>4. FilledInv'
  BY DEF IndInv, FilledInv, InBlock, Working, Marked, Finish, optVars, posVars, constVars
<1> QED BY <1>1, <1>2, <1>3, <1>4 DEF IndInv

LEMMA CancelInd == IndInv /\ Cancel => IndInv'
<1> SUFFICES ASSUME IndInv, Cancel PROVE IndInv'
  OBVIOUS
<1> QED
  BY FinishInd DEF Cancel, Working, chipVars

(* The loop of a write between two blocks. *)
LEMMA WriteLoopInd == IndInv /\ WriteLoop => IndInv'
<1> SUFFICES ASSUME IndInv, WriteLoop PROVE IndInv'
  OBVIOUS
<1>1. /\ pc = "loop" /\ kind = "write"
      /\ UNCHANGED <<cells, mark, wp, jobs, optVars, bad, newBad, placed, before, constVars>>
  BY DEF WriteLoop, chipVars
<1>2. CASE fb = FileBlocks /\ Finish("ok") /\ UNCHANGED <<fb, phys, skipped>>
  <2>1. TypeOK'
    BY <1>1, <1>2 DEF IndInv, TypeOK, Finish, optVars, constVars
  <2>2. AtBlock' /\ OutcomeInv' /\ WpInv' /\ MarksKnown'
    BY <1>1, <1>2 DEF IndInv, AtBlock, OutcomeInv, WpInv, MarksKnown, InBlock, Working, Marked,
                      Finish, optVars, constVars
  <2>3. PlacedInv'
    BY <1>1, <1>2 DEF IndInv, PlacedInv, optVars, constVars
  <2>4. FilledInv'
    BY <1>1, <1>2 DEF IndInv, FilledInv, InBlock, Working, Marked, Finish, optVars, constVars
  <2> QED BY <2>1, <2>2, <2>3, <2>4 DEF IndInv
<1>3. CASE Finish("error") /\ UNCHANGED <<fb, phys, skipped>>
  BY <1>1, <1>3, FinishInd DEF Working, posVars
<1>4. CASE fb < FileBlocks /\ ~ChipFull /\ Pass /\ UNCHANGED <<pc, outcome>>
  <2>1. /\ phys \in bad /\ phys' = phys + 1 /\ phys < Blocks
        /\ \/ mode = "keep" /\ fb' = fb + 1 /\ skipped' = skipped \cup {fb + 1}
           \/ mode # "keep" /\ fb' = fb /\ skipped' = skipped
    BY <1>4, Numbers DEF IndInv, Pass, ChipFull
  <2>2. TypeOK'
    <3>1. phys' \in 0 .. Blocks
      BY <2>1, Numbers DEF IndInv
    <3>2. fb' \in 0 .. FileBlocks /\ fb + 1 \in 1 .. FileBlocks
      BY <1>4, <2>1, Numbers DEF IndInv
    <3>3. skipped' \subseteq 1 .. FileBlocks
      BY <2>1, <3>2 DEF IndInv, TypeOK
    <3> QED
      BY <1>1, <1>4, <3>1, <3>2, <3>3 DEF IndInv, TypeOK, optVars, constVars
  <2>3. AtBlock' /\ OutcomeInv' /\ WpInv' /\ MarksKnown'
    BY <1>1, <1>4, <2>1, Numbers
       DEF IndInv, AtBlock, OutcomeInv, WpInv, MarksKnown, InBlock, Working, Marked, optVars
  <2>4. PlacedInv'
    <3>1. /\ UNCHANGED <<cells, placed, before, kind, mode, start, doVerify>>
          /\ start \in Nat /\ phys \in Nat /\ fb \in Nat /\ Block \subseteq Nat
          /\ kind = "write"
      BY <1>1, Numbers DEF IndInv, optVars
    <3>2. PlacedInv
      BY DEF IndInv
    <3>3. \A b \in Block : b < start' \/ b > phys' => cells'[b] = before'.cells[b]
      BY <2>1, <3>1, <3>2 DEF PlacedInv
    <3>4. skipped' \subseteq 1 .. fb' /\ (1 .. fb') \ skipped' = (1 .. fb) \ skipped
      BY <2>1, <3>1, <3>2 DEF PlacedInv
    <3>5. \A f \in (1 .. fb) \ skipped : placed[f] \in start .. phys
      BY <3>1, <3>2 DEF PlacedInv
    <3>6. \A f \in (1 .. fb') \ skipped' : placed'[f] \in start' .. (phys' - 1)
      BY <2>1, <3>1, <3>4, <3>5
    <3>7. mode' # "skip" => phys' = start' + fb'
      <4>1. mode # "keep" => mode = "skip"
        BY <2>1 DEF IndInv, TypeOK, Modes, MarksKnown
      <4> QED BY <2>1, <3>1, <3>2, <4>1 DEF PlacedInv
    <3> QED
      BY <3>1, <3>2, <3>3, <3>4, <3>6, <3>7 DEF PlacedInv
  <2>5. FilledInv'
    BY <1>1, <1>4, <2>1, Numbers DEF IndInv, FilledInv, InBlock, Working, Marked, optVars
  <2> QED BY <2>2, <2>3, <2>4, <2>5 DEF IndInv
<1>5. CASE /\ fb < FileBlocks /\ ~ChipFull /\ phys \notin bad
           /\ pc' \in {"erase", "program"}
           /\ UNCHANGED <<outcome, fb, phys, skipped>>
  <2>1. TypeOK'
    BY <1>1, <1>5 DEF IndInv, TypeOK, optVars, constVars
  <2>2. AtBlock' /\ OutcomeInv' /\ WpInv' /\ MarksKnown'
    BY <1>1, <1>5, Numbers DEF IndInv, AtBlock, OutcomeInv, WpInv, MarksKnown, InBlock, Working,
                      Marked, ChipFull, optVars, constVars
  <2>3. PlacedInv'
    BY <1>1, <1>5 DEF IndInv, PlacedInv, optVars, constVars
  <2>4. FilledInv'
    BY <1>1, <1>5 DEF IndInv, FilledInv, InBlock, Working, Marked, optVars, constVars
  <2> QED BY <2>1, <2>2, <2>3, <2>4 DEF IndInv
<1> QED
  BY <1>2, <1>3, <1>4, <1>5 DEF WriteLoop

(* A step at a block changes no other one. *)
OnlyHere ==
  /\ cells' \in [Block -> Contents]
  /\ \A b \in Block : b # phys => cells'[b] = cells[b]

LEMMA BlockFacts ==
  ASSUME IndInv, InBlock
  PROVE  /\ kind = "write" /\ phys \in Block /\ phys \notin bad /\ start =< phys
         /\ fb < FileBlocks /\ fb + 1 \in 1 .. FileBlocks /\ fb + 1 \in Contents
         /\ outcome = "none" /\ TypeOK /\ PlacedInv
         /\ Blocks \in Nat /\ FileBlocks \in Nat /\ Block \subseteq Nat
         /\ start \in Nat /\ phys \in Nat /\ fb \in Nat
<1>1. /\ Blocks \in Nat /\ FileBlocks \in Nat /\ Block \subseteq Nat /\ Block = 0 .. (Blocks - 1)
      /\ start \in Nat /\ phys \in Nat /\ fb \in Nat
  BY Numbers DEF IndInv
<1>2. kind = "write" /\ phys < Blocks /\ phys \notin bad /\ start =< phys /\ fb < FileBlocks
  BY DEF IndInv, AtBlock, MarksKnown
<1>3. phys \in Block /\ fb + 1 \in 1 .. FileBlocks
  BY <1>1, <1>2
<1> QED
  BY <1>1, <1>2, <1>3 DEF IndInv, OutcomeInv, Working, Contents

LEMMA CellHere ==
  ASSUME IndInv, InBlock, NEW c \in Contents, cells' = [cells EXCEPT ![phys] = c]
  PROVE  OnlyHere /\ cells'[phys] = c
BY BlockFacts DEF OnlyHere, TypeOK

LEMMA CellsSame == ASSUME IndInv, UNCHANGED cells PROVE OnlyHere
BY DEF OnlyHere, IndInv, TypeOK

(* What is placed stays: it is below phys. *)
LEMMA PlacedKept ==
  ASSUME IndInv, InBlock, OnlyHere, UNCHANGED <<kind, mode, doVerify, start, before, skipped>>,
         phys' \in Nat, phys =< phys'
  PROVE  /\ \A b \in Block : b < start' \/ b > phys' => cells'[b] = before'.cells[b]
         /\ \A f \in (1 .. fb) \ skipped :
              /\ placed[f] \in start' .. (phys' - 1) /\ placed[f] < phys
              /\ doVerify' => cells'[placed[f]] = f
              /\ mode' # "skip" => placed[f] = start' + f - 1
         /\ \A f, g \in (1 .. fb) \ skipped : f < g => placed[f] < placed[g]
<1>1. /\ kind = "write" /\ phys \in Nat /\ start \in Nat /\ Block \subseteq Nat
      /\ phys \in Block /\ Block = 0 .. (Blocks - 1) /\ Blocks \in Nat
      /\ start =< phys /\ PlacedInv
  BY BlockFacts DEF Block
<1>2. \A b \in Block : b < start' \/ b > phys' => cells'[b] = before'.cells[b]
  <2> SUFFICES ASSUME NEW b \in Block, b < start \/ b > phys' PROVE cells'[b] = before.cells[b]
    OBVIOUS
  <2>1. (b < start \/ b > phys) /\ b # phys
    BY <1>1
  <2> QED BY <1>1, <2>1 DEF PlacedInv, OnlyHere
<1>3. ASSUME NEW f \in (1 .. fb) \ skipped
      PROVE  /\ placed[f] \in start' .. (phys' - 1) /\ placed[f] < phys
             /\ doVerify' => cells'[placed[f]] = f
             /\ mode' # "skip" => placed[f] = start' + f - 1
  <2>1. /\ placed[f] \in start .. (phys - 1)
        /\ doVerify => cells[placed[f]] = f
        /\ mode # "skip" => placed[f] = start + f - 1
    BY <1>1, <1>3 DEF PlacedInv
  <2>2. placed[f] \in Block /\ placed[f] # phys /\ placed[f] < phys
    BY <1>1, <2>1
  <2>3. placed[f] \in start' .. (phys' - 1)
    BY <1>1, <2>1
  <2> QED BY <2>1, <2>2, <2>3 DEF OnlyHere
<1> QED BY <1>1, <1>2, <1>3 DEF PlacedInv

(* The work at a block goes on.  A marker goes with the erasing of the block, *)
(* but of a block the job knew to be good there is none.                      *)
LEMMA GoOnInd ==
  ASSUME IndInv, InBlock, OnlyHere, pc' \in {"program", "verify"}, mark' \in {mark, mark \ {phys}},
         UNCHANGED <<wp, fb, phys, bad, newBad, placed, outcome, jobSame>>
  PROVE  IndInv'
<1> USE DEF jobSame, optVars, constVars
<1>1. TypeOK'
  BY DEF IndInv, TypeOK, OnlyHere
<1>2. AtBlock' /\ OutcomeInv' /\ WpInv'
  BY DEF IndInv, AtBlock, OutcomeInv, WpInv, InBlock, Working
<1>3. MarksKnown'
  <2>1. Marked' \subseteq Marked
    BY DEF Marked
  <2> QED BY <2>1 DEF IndInv, MarksKnown, InBlock, Working
<1>4. PlacedInv'
  BY PlacedKept, BlockFacts DEF PlacedInv
<1>5. FilledInv'
  <2> SUFFICES ASSUME mode = "skip", newBad = {} PROVE FilledInv'
    BY DEF FilledInv
  <2>1. bad = Marked /\ phys \notin bad /\ phys \in Block /\ start =< phys
    BY BlockFacts DEF IndInv, FilledInv, Working
  <2>2. mark' = mark /\ Marked' = Marked
    BY <2>1 DEF Marked
  <2> QED BY <2>2, BlockFacts DEF IndInv, FilledInv, Working
<1> QED BY <1>1, <1>2, <1>3, <1>4, <1>5 DEF IndInv

(* The job stops at a block. *)
LEMMA StopInd ==
  ASSUME IndInv, InBlock, OnlyHere, NEW how \in {"failed", "cancelled", "error"}, Finish(how),
         UNCHANGED <<mark, wp, fb, phys, bad, newBad, placed, jobSame>>
  PROVE  IndInv'
<1> USE DEF jobSame, optVars, constVars, Finish
<1>1. TypeOK'
  BY DEF IndInv, TypeOK, OnlyHere
<1>2. AtBlock' /\ OutcomeInv' /\ WpInv' /\ MarksKnown'
  BY DEF IndInv, AtBlock, OutcomeInv, WpInv, MarksKnown, Marked, InBlock, Working
<1>3. PlacedInv'
  BY PlacedKept, BlockFacts DEF PlacedInv
<1>4. FilledInv'
  BY DEF IndInv, FilledInv, Marked, InBlock, Working
<1> QED BY <1>1, <1>2, <1>3, <1>4 DEF IndInv

(* A block failed: the file block goes to the next one, or the job stops. *)
LEMMA BlockFailedInd ==
  ASSUME IndInv, InBlock, OnlyHere, BlockFailed, UNCHANGED <<mark, wp, jobSame>>
  PROVE  IndInv'
<1>1. CASE mode # "skip"
  BY <1>1, StopInd DEF BlockFailed
<1>2. CASE mode = "skip"
  <2> USE DEF jobSame, optVars, constVars
  <2>1. /\ newBad' = newBad \cup {phys} /\ bad' = bad \cup {phys}
        /\ phys' = phys + 1 /\ pc' = "loop" /\ UNCHANGED <<outcome, fb, placed>>
    BY <1>2 DEF BlockFailed
  <2>2. phys' \in 0 .. Blocks /\ phys' \in Nat /\ start' =< phys' /\ phys =< phys'
    BY <2>1, BlockFacts DEF Block
  <2>3. TypeOK'
    BY <2>1, <2>2, BlockFacts DEF TypeOK, OnlyHere
  <2>4. AtBlock' /\ OutcomeInv' /\ WpInv' /\ MarksKnown'
    BY <1>2, <2>1, <2>2
       DEF IndInv, AtBlock, OutcomeInv, WpInv, MarksKnown, Marked, InBlock, Working
  <2>5. PlacedInv'
    BY <1>2, <2>1, <2>2, PlacedKept, BlockFacts DEF PlacedInv
  <2>6. FilledInv'
    BY <2>1 DEF FilledInv
  <2> QED BY <2>3, <2>4, <2>5, <2>6 DEF IndInv
<1> QED BY <1>1, <1>2

(* A block is done: it holds the next file block. *)
LEMMA BlockDoneInd ==
  ASSUME IndInv, InBlock, OnlyHere, BlockDone, UNCHANGED <<mark, wp, jobSame>>,
         doVerify => cells'[phys] = fb + 1
  PROVE  IndInv'
<1> USE DEF jobSame, optVars, constVars
<1>1. /\ placed' = [placed EXCEPT ![fb + 1] = phys] /\ fb' = fb + 1 /\ phys' = phys + 1
      /\ pc' = "loop" /\ UNCHANGED <<bad, newBad, outcome>>
  BY DEF BlockDone
<1>2. phys' \in 0 .. Blocks /\ phys' \in Nat /\ start' =< phys' /\ phys =< phys'
  BY <1>1, BlockFacts DEF Block
<1>3. fb' \in 0 .. FileBlocks
  BY <1>1, BlockFacts
<1>4. /\ placed' \in [1 .. FileBlocks -> Block \cup {NoBlock}]
      /\ placed'[fb + 1] = phys
      /\ \A f \in 1 .. fb : placed'[f] = placed[f]
  BY <1>1, BlockFacts DEF TypeOK
<1>5. TypeOK'
  BY <1>1, <1>2, <1>3, <1>4, BlockFacts DEF TypeOK, OnlyHere
<1>6. AtBlock' /\ OutcomeInv' /\ WpInv' /\ MarksKnown'
  BY <1>1, <1>2, BlockFacts
     DEF IndInv, AtBlock, OutcomeInv, WpInv, MarksKnown, Marked, InBlock, Working
<1>7. 1 .. fb' = (1 .. fb) \cup {fb + 1}
  BY <1>1, BlockFacts
<1>8. PlacedInv'
  <2>1. skipped' \subseteq 1 .. fb'
    BY <1>1, BlockFacts DEF PlacedInv
  <2>2. (1 .. fb') \ skipped' = ((1 .. fb) \ skipped) \cup {fb + 1}
    BY <1>7, BlockFacts DEF PlacedInv
  <2>3. phys' = phys + 1 /\ phys \in start' .. (phys' - 1)
    BY <1>1, BlockFacts
  <2>4. mode # "skip" => phys = start + fb /\ phys' = start' + fb'
    BY <1>1, BlockFacts DEF PlacedInv
  <2>5. \A f \in (1 .. fb') \ skipped' :
          /\ placed'[f] \in start' .. (phys' - 1)
          /\ doVerify' => cells'[placed'[f]] = f
          /\ mode' # "skip" => placed'[f] = start' + f - 1
    <3>1. CASE mode = "skip"
      BY <3>1, <1>2, <1>4, <2>2, <2>3, PlacedKept
    <3>2. CASE mode # "skip"
      <4>1. phys = start + (fb + 1) - 1
        BY <2>4, <3>2, BlockFacts
      <4> QED BY <4>1, <1>2, <1>4, <2>2, <2>3, PlacedKept
    <3> QED BY <3>1, <3>2
  <2>6. \A f, g \in (1 .. fb') \ skipped' : f < g => placed'[f] < placed'[g]
    <3> SUFFICES ASSUME NEW f \in (1 .. fb') \ skipped', NEW g \in (1 .. fb') \ skipped', f < g
                 PROVE  placed'[f] < placed'[g]
      OBVIOUS
    <3>1. f \in (1 .. fb) \ skipped
      BY <2>2, BlockFacts
    <3>2. CASE g = fb + 1
      BY <1>2, <1>4, <3>1, <3>2, PlacedKept
    <3>3. CASE g \in (1 .. fb) \ skipped
      BY <1>2, <1>4, <3>1, <3>3, PlacedKept
    <3> QED BY <2>2, <3>2, <3>3
  <2>7. \A b \in Block : b < start' \/ b > phys' => cells'[b] = before'.cells[b]
    BY <1>2, PlacedKept
  <2> QED BY <2>1, <2>4, <2>5, <2>6, <2>7 DEF PlacedInv
<1>9. FilledInv'
  <2> SUFFICES ASSUME mode = "skip", newBad = {} PROVE FilledInv'
    BY <1>1 DEF FilledInv
  <2>1. /\ bad = Marked /\ skipped = {}
        /\ \A f \in 1 .. fb : placed[f] \notin mark
        /\ \A b \in start .. (phys - 1) : b \in mark \/ \E f \in 1 .. fb : placed[f] = b
    BY BlockFacts DEF IndInv, FilledInv, Working
  <2>2. bad' = Marked' /\ skipped' = {}
    BY <1>1, <2>1 DEF Marked
  <2>3. phys \notin mark
    BY <2>1, BlockFacts DEF Marked
  <2>4. \A f \in 1 .. fb' : placed'[f] \notin mark'
    BY <1>4, <1>7, <2>1, <2>3
  <2>5. start' .. (phys' - 1) = (start .. (phys - 1)) \cup {phys}
    BY <1>1, BlockFacts
  <2>6. \A b \in start' .. (phys' - 1) : b \in mark' \/ \E f \in 1 .. fb' : placed'[f] = b
    BY <1>4, <1>7, <2>1, <2>5
  <2> QED BY <2>2, <2>4, <2>6 DEF FilledInv
<1> QED BY <1>5, <1>6, <1>8, <1>9 DEF IndInv

LEMMA LinkBreaksInd ==
  ASSUME IndInv, InBlock, LinkBreaks(phys)
  PROVE  IndInv'
<1>1. OnlyHere
  BY CellHere, CellsSame DEF LinkBreaks, Contents
<1> QED BY <1>1, StopInd DEF LinkBreaks, posVars, jobSame

LEMMA EraseBlockInd == IndInv /\ EraseBlock => IndInv'
<1> SUFFICES ASSUME IndInv, EraseBlock PROVE IndInv'
  OBVIOUS
<1>1. InBlock /\ Blank \in Contents /\ Junk \in Contents
  BY DEF EraseBlock, InBlock, Contents
<1>2. CASE /\ cells' = [cells EXCEPT ![phys] = Blank] /\ mark' = mark \ {phys} /\ pc' = "program"
           /\ UNCHANGED <<wp, fb, phys, bad, newBad, placed, outcome, jobSame>>
  BY <1>1, <1>2, CellHere, GoOnInd
<1>3. CASE /\ cells' \in {cells, [cells EXCEPT ![phys] = Junk]} /\ BlockFailed
           /\ UNCHANGED <<mark, wp, jobSame>>
  <2>1. OnlyHere
    BY <1>1, <1>3, CellHere, CellsSame
  <2> QED BY <1>1, <1>3, <2>1, BlockFailedInd
<1>4. CASE LinkBreaks(phys)
  BY <1>1, <1>4, LinkBreaksInd
<1> QED BY <1>2, <1>3, <1>4 DEF EraseBlock

LEMMA ProgramBlockInd == IndInv /\ ProgramBlock => IndInv'
<1> SUFFICES ASSUME IndInv, ProgramBlock PROVE IndInv'
  OBVIOUS
<1>1. InBlock /\ Programmed \in Contents /\ Junk \in Contents
  <2>1. InBlock
    BY DEF ProgramBlock, InBlock
  <2> QED BY <2>1, BlockFacts DEF Programmed, Contents
<1>2. ASSUME NEW c \in {Programmed, Junk}, cells' = [cells EXCEPT ![phys] = c]
      PROVE  OnlyHere
  BY <1>1, <1>2, CellHere
<1>3. CASE /\ OnlyHere /\ pc' = "verify"
           /\ UNCHANGED <<fb, phys, bad, newBad, placed, outcome, mark, wp, jobSame>>
  BY <1>1, <1>3, GoOnInd
<1>4. CASE OnlyHere /\ ~doVerify /\ BlockDone /\ UNCHANGED <<mark, wp, jobSame>>
  BY <1>1, <1>4, BlockDoneInd
<1>5. CASE OnlyHere /\ BlockFailed /\ UNCHANGED <<mark, wp, jobSame>>
  BY <1>1, <1>5, BlockFailedInd
<1>6. CASE /\ OnlyHere /\ Finish("cancelled")
           /\ UNCHANGED <<mark, wp, fb, phys, bad, newBad, placed, jobSame>>
  BY <1>1, <1>6, StopInd
<1>7. CASE LinkBreaks(phys)
  BY <1>1, <1>7, LinkBreaksInd
<1> QED BY <1>2, <1>3, <1>4, <1>5, <1>6, <1>7 DEF ProgramBlock

(* Only a block that reads back as the file block is done. *)
LEMMA VerifyBlockInd == IndInv /\ VerifyBlock => IndInv'
<1> SUFFICES ASSUME IndInv, VerifyBlock PROVE IndInv'
  OBVIOUS
<1>1. InBlock
  BY DEF VerifyBlock, InBlock
<1>2. OnlyHere /\ UNCHANGED <<cells, mark, wp, jobSame>>
  BY CellsSame DEF VerifyBlock, chipVars
<1>3. CASE cells[phys] = fb + 1 /\ BlockDone
  BY <1>1, <1>2, <1>3, BlockDoneInd
<1>4. CASE BlockFailed
  BY <1>1, <1>2, <1>4, BlockFailedInd
<1>5. CASE Finish("error") /\ UNCHANGED <<fb, phys, bad, newBad, placed>>
  BY <1>1, <1>2, <1>5, StopInd
<1> QED BY <1>3, <1>4, <1>5 DEF VerifyBlock

(* A batch of the erase job. *)
LEMMA EraseLoopInd == IndInv /\ EraseLoop => IndInv'
<1> SUFFICES ASSUME IndInv, EraseLoop PROVE IndInv'
  OBVIOUS
<1>1. /\ pc = "loop" /\ kind = "erase" /\ TypeOK
      /\ UNCHANGED <<wp, jobs, kind, mode, doErase, doVerify, start, fb, bad, skipped, placed, before,
                     weak, factory>>
  BY DEF IndInv, EraseLoop, optVars, constVars
<1>2. /\ cells' \in [Block -> Contents]
      /\ mark' \subseteq mark
      /\ newBad' \subseteq Block
  BY <1>1 DEF EraseLoop, TypeOK, Contents
<1>3. phys' \in 0 .. Blocks /\ start' =< phys'
  <2>1. /\ phys \in 0 .. Blocks /\ start =< phys /\ start \in Nat /\ Blocks \in Nat
    BY <1>1, Numbers DEF IndInv, TypeOK, MarksKnown
  <2>2. CASE UNCHANGED phys
    BY <1>1, <2>1, <2>2
  <2>3. CASE Left # {} /\ phys' = 1 + CHOOSE b \in Group : \A c \in Group : c =< b
    BY <1>1, <2>1, <2>3, GroupFacts
  <2> QED BY <2>2, <2>3 DEF EraseLoop
<1>4. \/ pc' = "loop" /\ outcome' = outcome
      \/ pc' = "end" /\ outcome' \in {"ok", "failed", "error"}
  BY <1>1 DEF EraseLoop, Finish
<1>5. TypeOK'
  BY <1>1, <1>2, <1>3, <1>4 DEF TypeOK
<1>6. AtBlock' /\ OutcomeInv' /\ WpInv'
  BY <1>1, <1>4 DEF IndInv, AtBlock, OutcomeInv, WpInv, InBlock, Working
<1>7. MarksKnown'
  <2>1. Marked' \subseteq Marked
    BY <1>1, <1>2 DEF Marked
  <2> QED BY <1>1, <1>3, <1>4, <2>1 DEF IndInv, MarksKnown, InBlock, Working
<1>8. PlacedInv' /\ FilledInv'
  BY <1>1 DEF PlacedInv, FilledInv
<1> QED BY <1>5, <1>6, <1>7, <1>8 DEF IndInv

------------------------------------------------------------------------------
(* The invariant and what follows from it *)

LEMMA NextInd == IndInv /\ [Next]_vars => IndInv'
<1> SUFFICES ASSUME IndInv, [Next]_vars PROVE IndInv'
  OBVIOUS
<1>1. CASE StartWrite
  BY <1>1, StartWriteInd
<1>2. CASE StartErase
  BY <1>2, StartEraseInd
<1>3. CASE Scan
  BY <1>3, ScanInd
<1>4. CASE Begin
  BY <1>4, BeginInd
<1>5. CASE Cancel
  BY <1>5, CancelInd
<1>6. CASE WriteLoop
  BY <1>6, WriteLoopInd
<1>7. CASE EraseBlock
  BY <1>7, EraseBlockInd
<1>8. CASE ProgramBlock
  BY <1>8, ProgramBlockInd
<1>9. CASE VerifyBlock
  BY <1>9, VerifyBlockInd
<1>10. CASE EraseLoop
  BY <1>10, EraseLoopInd
<1>11. CASE End
  BY <1>11, EndInd
<1>12. CASE UNCHANGED vars
  <2> USE <1>12 DEF vars, chipVars, optVars, posVars, constVars
  <2>1. TypeOK'
    BY DEF IndInv, TypeOK
  <2>2. AtBlock' /\ OutcomeInv' /\ WpInv' /\ MarksKnown'
    BY DEF IndInv, AtBlock, OutcomeInv, WpInv, MarksKnown, Marked, InBlock, Working
  <2>3. PlacedInv'
    BY DEF IndInv, PlacedInv
  <2>4. FilledInv'
    BY DEF IndInv, FilledInv, Marked, InBlock, Working
  <2> QED BY <2>1, <2>2, <2>3, <2>4 DEF IndInv
<1> QED
  BY <1>1, <1>2, <1>3, <1>4, <1>5, <1>6, <1>7, <1>8, <1>9, <1>10, <1>11, <1>12 DEF Next, Work

\* Every state of a chip and its jobs satisfies the inductive invariant, and with
\* it the type invariant.
THEOREM JobsInvariant == Spec => []IndInv
<1>1. Init => IndInv
  BY InitInd
<1>2. IndInv /\ [Next]_vars => IndInv'
  BY NextInd
<1> QED BY <1>1, <1>2, PTL DEF Spec

\* What jobs._write and jobs.erase touch: a write leaves every block alone that is
\* in front of its start or behind the one it has reached.
THEOREM TouchesOnlyItsBlocks == Spec => []NothingElseTouched
<1>1. IndInv => NothingElseTouched
  BY DEF IndInv, PlacedInv, NothingElseTouched
<1> QED BY <1>1, JobsInvariant, PTL

\* The finally clauses of jobs.py: however a job ends, WP# is low again, unless it
\* was the switching of WP# that failed.
THEOREM ProtectsAfterJob == Spec => []ProtectedAfterJob
<1>1. IndInv => ProtectedAfterJob
  BY DEF IndInv, WpInv, ProtectedAfterJob
<1> QED BY <1>1, JobsInvariant, PTL

(* The numbers in front of f, as the blocks that hold them. *)
LEMMA RankOf ==
  ASSUME NEW n \in Nat, NEW h, NEW S,
         \A i \in 1 .. n : h[i] \in S,
         \A i, j \in 1 .. n : i # j => h[i] # h[j],
         \A x \in S : \E i \in 1 .. n : h[i] = x
  PROVE  Cardinality(S) = n
<1> DEFINE m == [i \in 1 .. n |-> h[i]]
<1>1. m \in Bijection(1 .. n, S)
  BY DEF Bijection, Injection, Surjection, IsInjective
<1> QED BY <1>1, FS_CountingElements DEF ExistsBijection

(* A write that skipped bad blocks and met no failing one is found again: the *)
(* blocks without a marker hold the file blocks in order.                     *)
LEMMA FoundAgain ==
  ASSUME IndInv, kind = "write", outcome = "ok", doVerify, mode = "skip", newBad = {}
  PROVE  VerifyPasses
<1>1. /\ FileBlocks \in Nat /\ Blocks \in Nat /\ start \in Nat /\ phys \in Nat /\ phys =< Blocks
      /\ Block = 0 .. (Blocks - 1) /\ fb = FileBlocks
  BY Numbers DEF IndInv, OutcomeInv
<1>2. /\ skipped = {}
      /\ \A f \in 1 .. fb : placed[f] \notin mark
      /\ \A b \in start .. (phys - 1) : b \in mark \/ \E f \in 1 .. fb : placed[f] = b
  BY DEF IndInv, FilledInv
<1>3. /\ \A f \in 1 .. FileBlocks : placed[f] \in start .. (phys - 1) /\ cells[placed[f]] = f
      /\ \A f, g \in 1 .. FileBlocks : f < g => placed[f] < placed[g]
  BY <1>1, <1>2 DEF IndInv, PlacedInv
<1>4. \A f \in 1 .. FileBlocks : placed[f] \in GoodBlocks
  BY <1>1, <1>2, <1>3 DEF GoodBlocks
<1>5. ASSUME NEW f \in 1 .. FileBlocks
      PROVE  Cardinality({c \in GoodBlocks : c < placed[f]}) = f - 1
  <2> DEFINE S == {c \in GoodBlocks : c < placed[f]}
  <2>1. f - 1 \in Nat /\ \A g \in 1 .. (f - 1) : g \in 1 .. FileBlocks /\ g < f
    BY <1>1
  <2>2. \A g \in 1 .. (f - 1) : placed[g] \in S
    BY <1>3, <1>4, <2>1
  <2>3. \A g, i \in 1 .. (f - 1) : g # i => placed[g] # placed[i]
    <3> SUFFICES ASSUME NEW g \in 1 .. (f - 1), NEW i \in 1 .. (f - 1), g # i
                 PROVE  placed[g] # placed[i]
      OBVIOUS
    <3>1. g < i \/ i < g
      BY <2>1
    <3>2. placed[g] \in Int /\ placed[i] \in Int
      BY <1>1, <1>3, <2>1
    <3> QED BY <1>3, <2>1, <3>1, <3>2
  <2>4. ASSUME NEW x \in S PROVE \E g \in 1 .. (f - 1) : placed[g] = x
    <3>1. x \in start .. (phys - 1) /\ x \notin mark /\ x < placed[f] /\ x \in Int
      BY <1>1, <1>3 DEF GoodBlocks
    <3>2. PICK g \in 1 .. FileBlocks : placed[g] = x
      BY <1>1, <1>2, <3>1
    <3>3. ~ (f =< g)
      <4>1. placed[f] \in Int
        BY <1>1, <1>3
      <4>2. CASE f = g
        BY <3>1, <3>2, <4>1, <4>2
      <4>3. CASE f < g
        BY <1>3, <3>1, <3>2, <4>1, <4>3
      <4> QED BY <4>2, <4>3, <1>1
    <3> QED BY <3>2, <3>3, <1>1
  <2> HIDE DEF S
  <2>5. Cardinality(S) = f - 1
    BY <2>1, <2>2, <2>3, <2>4, RankOf
  <2> QED BY <2>5 DEF S
<1> QED
  BY <1>3, <1>4, <1>5 DEF VerifyPasses

\* jobs._write with verify: if the job says it is done, every file block that it
\* does not report as skipped is on the chip, in order, and a later read or verify
\* in the same mode finds the image where no block failed on the way.
THEOREM SuccessIsReal == Spec => []SuccessIsTrue
<1>1. ASSUME IndInv PROVE SuccessIsTrue
  <2> SUFFICES ASSUME Ended("write", "ok"), doVerify
               PROVE  ImageThere /\ (mode = "skip" /\ newBad = {} => VerifyPasses)
    BY DEF SuccessIsTrue
  <2>1. kind = "write" /\ outcome = "ok" /\ fb = FileBlocks
    BY <1>1 DEF Ended, IndInv, OutcomeInv
  <2>2. ImageThere
    <3>1. /\ Block = 0 .. (Blocks - 1) /\ Blocks \in Nat /\ start \in Nat /\ phys \in Nat /\ phys =< Blocks
      BY <1>1, Numbers DEF IndInv
    <3>2. start .. (phys - 1) \subseteq Block
      BY <3>1
    <3> QED BY <1>1, <2>1, <3>2 DEF IndInv, PlacedInv, ImageThere
  <2>3. mode = "skip" /\ newBad = {} => VerifyPasses
    BY <1>1, <2>1, FoundAgain
  <2> QED BY <2>2, <2>3
<1> QED BY <1>1, JobsInvariant, PTL

------------------------------------------------------------------------------
(* A marked block is neither erased nor programmed, unless a job was told to. *)

LEMMA WorkSpares ==
  ASSUME IndInv, InBlock \/ (pc = "loop" /\ kind = "erase"), mode # "force",
         NEW b \in mark, b \in Block
  PROVE  (InBlock => b # phys) /\ (b \notin Group)
<1>1. Marked \subseteq bad /\ start =< phys /\ start \in Nat /\ phys \in Nat /\ b \in Nat
  BY Numbers DEF IndInv, MarksKnown, Working
<1>2. CASE start =< b
  <2>1. b \in bad
    BY <1>1, <1>2 DEF Marked
  <2> QED BY <2>1 DEF IndInv, AtBlock, Group, Left
<1>3. CASE b < start
  <2>1. b < phys
    BY <1>1, <1>3
  <2> QED BY <1>1, <2>1 DEF Group, Left
<1> QED BY <1>1, <1>2, <1>3

\* jobs.scan_bad_blocks in front of every write and erase: no step of a job, in
\* whatever order blocks fail and links break, changes a block that carries the
\* factory's marker, or its marker, unless the job runs with "force".
THEOREM MarksSpared == Spec => FactoryMarksKept
<1>1. ASSUME IndInv, [Next]_vars, mode' # "force", NEW b \in factory \cap mark
      PROVE  cells'[b] = cells[b] /\ b \in mark'
  <2>1. b \in Block /\ b \in mark
    BY <1>1 DEF IndInv, TypeOK
  <2>2. CASE UNCHANGED <<cells, mark>>
    BY <2>1, <2>2
  <2>3. CASE EraseBlock \/ ProgramBlock \/ VerifyBlock
    <3>1. InBlock
      BY <2>3 DEF EraseBlock, ProgramBlock, VerifyBlock, InBlock
    <3>2. mode' = mode
      BY <2>3 DEF EraseBlock, ProgramBlock, VerifyBlock, LinkBreaks, jobSame, optVars
    <3>3. b # phys
      BY <1>1, <2>1, <3>1, <3>2, WorkSpares
    <3>4. \/ cells' = cells
          \/ \E c : cells' = [cells EXCEPT ![phys] = c]
      BY <2>3 DEF EraseBlock, ProgramBlock, VerifyBlock, LinkBreaks, chipVars
    <3>5. mark' = mark \/ mark' = mark \ {phys}
      BY <2>3 DEF EraseBlock, ProgramBlock, VerifyBlock, LinkBreaks, chipVars
    <3> QED BY <1>1, <2>1, <3>3, <3>4, <3>5 DEF IndInv, TypeOK
  <2>4. CASE EraseLoop
    <3>1. pc = "loop" /\ kind = "erase" /\ mode' = mode
      BY <2>4 DEF EraseLoop, optVars
    <3>2. b \notin Group
      BY <1>1, <2>1, <3>1, WorkSpares
    <3> QED BY <2>1, <2>4, <3>2 DEF EraseLoop
  <2> QED
    BY <1>1, <2>2, <2>3, <2>4
       DEF Next, Work, StartWrite, StartErase, StartJob, Scan, Begin, End, Cancel, WriteLoop,
           chipVars, vars
<1>2. IndInv /\ [Next]_vars =>
        [mode' # "force" => \A b \in factory \cap mark : cells'[b] = cells[b] /\ b \in mark']_vars
  BY <1>1
<1> QED BY <1>2, JobsInvariant, PTL DEF Spec, FactoryMarksKept
==============================================================================
