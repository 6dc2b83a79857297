------------------------------ MODULE FlashJobs ------------------------------
(***************************************************************************)
(* The write and erase jobs of jobs.py on a flash chip with bad blocks     *)
(* (parallel NAND, SPI NAND): the bad-block modes, blocks that fail while  *)
(* they are written, cancellation, a link that breaks in the middle, and   *)
(* the write-protect pin around it all.                                    *)
(*                                                                         *)
(* A block holds one file block (its number), or is Blank, or holds what   *)
(* it held before (Old), or something that is none of these (Junk).        *)
(***************************************************************************)
EXTENDS Integers, FiniteSets

CONSTANTS
  Blocks,      \* drv.blocks: the chip has the blocks 0 .. Blocks - 1
  FileBlocks,  \* file_blocks: blocks of the image
  EraseGroup,  \* blocks erased by one batch of the erase job
  MaxJobs,     \* jobs, one after the other
  FaultAt      \* where the link may break: a subset of FaultPoints

FaultPoints == {"scan", "begin", "work", "end"}

ASSUME SizesAssumption ==
  /\ Blocks \in Nat
  /\ FileBlocks \in 1 .. Blocks
  /\ EraseGroup \in Nat \ {0}
  /\ MaxJobs \in Nat
  /\ FaultAt \subseteq FaultPoints

Block == 0 .. (Blocks - 1)
Blank == 0
Old == -1
Junk == -2
Contents == (1 .. FileBlocks) \cup {Blank, Old, Junk}
Modes == {"skip", "keep", "force"}
NoBlock == -1

VARIABLES
  \* the chip
  cells,     \* what each block holds
  mark,      \* blocks with a bad-block marker
  weak,      \* blocks that may fail
  wp,        \* WP# is high: the chip may be programmed
  \* the job
  pc,        \* "idle", "scan", "begin", "loop", "erase", "program", "verify", "end"
  jobs,      \* jobs started
  kind,      \* "write", "erase"
  mode,      \* bb
  doErase,   \* erase
  doVerify,  \* verify
  start,
  fb,        \* file blocks done
  phys,      \* physical block
  bad,       \* blocks the job takes for bad
  newBad,    \* rep.new_bad_blocks
  skipped,   \* rep.skipped_blocks of the "keep" mode, as file blocks
  outcome,   \* "none", "ok", "failed", "cancelled", "error", or "wp error": the
             \* run of begin_write or end_write failed
  \* history, for the properties
  factory,   \* blocks marked bad when the chip was put in
  before,    \* cells and wp when the job began
  placed     \* placed[f]: block the job put file block f into

chipVars == <<cells, mark, wp>>
optVars == <<kind, mode, doErase, doVerify, start>>
posVars == <<fb, phys, bad, newBad, skipped, placed>>
constVars == <<weak, factory>>
vars == <<chipVars, pc, jobs, optVars, posVars, outcome, before, constVars>>

Init ==
  /\ factory \in SUBSET Block
  /\ mark = factory
  /\ weak \in SUBSET Block
  /\ cells = [b \in Block |-> Old]
  /\ wp = FALSE
  /\ pc = "idle"
  /\ jobs = 0
  /\ kind = "write"
  /\ mode = "skip"
  /\ doErase = TRUE
  /\ doVerify = TRUE
  /\ start = 0
  /\ fb = 0
  /\ phys = 0
  /\ bad = {}
  /\ newBad = {}
  /\ skipped = {}
  /\ outcome = "none"
  /\ before = [cells |-> cells, wp |-> wp]
  /\ placed = [f \in 1 .. FileBlocks |-> NoBlock]

------------------------------------------------------------------------------
Finish(how) ==
  /\ pc' = "end"
  /\ outcome' = how

\* Before begin_write: an exception leaves the job at once.
Leave(how) ==
  /\ pc' = "idle"
  /\ outcome' = how

StartJob(k) ==
  /\ pc = "idle"
  /\ jobs < MaxJobs
  /\ jobs' = jobs + 1
  /\ kind' = k
  /\ mode' \in Modes
  /\ pc' = IF mode' = "force" THEN "begin" ELSE "scan"
  /\ fb' = 0
  /\ bad' = {}
  /\ newBad' = {}
  /\ skipped' = {}
  /\ placed' = [f \in 1 .. FileBlocks |-> NoBlock]
  /\ outcome' = "none"
  /\ before' = [cells |-> cells, wp |-> wp]
  /\ UNCHANGED <<chipVars, constVars>>

\* Slip: the start block is not added to the position.
StartWriteAtZero ==
  /\ StartJob("write")
  /\ start' \in 0 .. (Blocks - FileBlocks)
  /\ phys' = 0
  /\ doErase' \in BOOLEAN
  /\ doVerify' \in BOOLEAN

StartWrite ==
  /\ StartJob("write")
  /\ start' \in 0 .. (Blocks - FileBlocks)
  /\ phys' = start'
  /\ doErase' \in BOOLEAN
  /\ doVerify' \in BOOLEAN

StartErase ==
  /\ StartJob("erase")
  /\ start' \in Block
  /\ phys' = start'
  /\ UNCHANGED <<doErase, doVerify>>

\* Slip: the scan covers the image's length only.
MarkedShort == {b \in mark : start =< b /\ b < start + FileBlocks}

\* scan_bad_blocks from the start of the job to the end of the chip.
Marked == {b \in mark : start =< b}

Scan ==
  /\ pc = "scan"
  /\ \/ /\ bad' = Marked
        /\ IF kind = "write" /\ mode = "skip" /\ FileBlocks > Blocks - start - Cardinality(Marked)
           THEN Leave("error")
           ELSE pc' = "begin" /\ UNCHANGED outcome
     \/ /\ Leave("cancelled")
        /\ UNCHANGED bad
     \/ /\ "scan" \in FaultAt
        /\ Leave("error")
        /\ UNCHANGED bad
  /\ UNCHANGED <<chipVars, jobs, optVars, fb, phys, newBad, skipped, placed, before, constVars>>

\* begin_write stands before the try: if it raises, the job is left without
\* end_write, whether or not the engine has raised WP# by then.
Begin ==
  /\ pc = "begin"
  /\ \/ /\ wp' = TRUE
        /\ pc' = "loop"
        /\ UNCHANGED outcome
     \/ /\ "begin" \in FaultAt
        /\ wp' \in {wp, TRUE}
        /\ Leave("wp error")
  /\ UNCHANGED <<cells, mark, jobs, optVars, posVars, before, constVars>>

\* Slip: end_write only where the job succeeds.
EndIfOk ==
  /\ pc = "end"
  /\ pc' = "idle"
  /\ wp' = (wp /\ outcome # "ok")
  /\ UNCHANGED <<cells, mark, jobs, optVars, posVars, outcome, before, constVars>>

\* end_write, in the finally clause: an exception replaces the outcome.
End ==
  /\ pc = "end"
  /\ pc' = "idle"
  /\ \/ /\ wp' = FALSE
        /\ UNCHANGED outcome
     \/ /\ "end" \in FaultAt
        /\ wp' \in {wp, FALSE}
        /\ outcome' = "wp error"
  /\ UNCHANGED <<cells, mark, jobs, optVars, posVars, before, constVars>>

\* The link breaks while a batch is executed: any part of it may be done.
LinkBreaks(b) ==
  /\ "work" \in FaultAt
  /\ cells' \in {cells, [cells EXCEPT ![b] = Junk]}
  /\ Finish("error")
  /\ UNCHANGED <<mark, wp, jobs, optVars, posVars, before, constVars>>

------------------------------------------------------------------------------
(* write *)

\* Slip: the marked block is skipped, and so is the file block ("keep").
PassKeeping ==
  /\ phys \in bad
  /\ phys' = phys + 1
  /\ fb' = fb + 1
  /\ skipped' = skipped \cup {fb + 1}

\* A block known to be bad: "keep" gives up the file block that belongs there.
Pass ==
  /\ phys \in bad
  /\ phys' = phys + 1
  /\ IF mode = "keep"
     THEN fb' = fb + 1 /\ skipped' = skipped \cup {fb + 1}
     ELSE UNCHANGED <<fb, skipped>>

\* Slip: the end of the chip is found one block late.
ChipFullLate == phys > Blocks

ChipFull == phys >= Blocks

WriteLoop ==
  /\ pc = "loop"
  /\ kind = "write"
  /\ \/ /\ fb = FileBlocks
        /\ Finish("ok")
        /\ UNCHANGED <<fb, phys, skipped>>
     \/ /\ fb < FileBlocks
        /\ ChipFull
        /\ Finish("error")
        /\ UNCHANGED <<fb, phys, skipped>>
     \/ /\ fb < FileBlocks
        /\ ~ChipFull
        /\ Pass
        /\ UNCHANGED <<pc, outcome>>
     \/ /\ fb < FileBlocks
        /\ ~ChipFull
        /\ phys \notin bad
        /\ pc' = IF doErase THEN "erase" ELSE "program"
        /\ UNCHANGED <<outcome, fb, phys, skipped>>
  /\ UNCHANGED <<chipVars, jobs, optVars, bad, newBad, placed, before, constVars>>

\* Slip: the block after the failed one gets the next file block.
BlockFailedLosing ==
  IF mode = "skip"
  THEN /\ newBad' = newBad \cup {phys}
       /\ bad' = bad \cup {phys}
       /\ phys' = phys + 1
       /\ fb' = fb + 1
       /\ pc' = "loop"
       /\ UNCHANGED <<outcome, placed>>
  ELSE /\ Finish("failed")
       /\ UNCHANGED <<fb, phys, bad, newBad, placed>>

\* Slip: the failed block is tried again.
BlockFailedSame ==
  /\ pc' = "loop"
  /\ UNCHANGED <<outcome, fb, phys, bad, newBad, placed>>

\* _write_blocks returned False: "marking it bad and retrying on the next
\* block"; the other modes give up.
BlockFailed ==
  IF mode = "skip"
  THEN /\ newBad' = newBad \cup {phys}
       /\ bad' = bad \cup {phys}
       /\ phys' = phys + 1
       /\ pc' = "loop"
       /\ UNCHANGED <<outcome, fb, placed>>
  ELSE /\ Finish("failed")
       /\ UNCHANGED <<fb, phys, bad, newBad, placed>>

BlockDone ==
  /\ placed' = [placed EXCEPT ![fb + 1] = phys]
  /\ fb' = fb + 1
  /\ phys' = phys + 1
  /\ pc' = "loop"
  /\ UNCHANGED <<bad, newBad, outcome>>

jobSame == <<jobs, optVars, skipped, before, constVars>>

EraseBlock ==
  /\ pc = "erase"
  /\ kind = "write"
  /\ \/ /\ cells' = [cells EXCEPT ![phys] = Blank]
        /\ mark' = mark \ {phys}
        /\ pc' = "program"
        /\ UNCHANGED <<wp, fb, phys, bad, newBad, placed, outcome, jobSame>>
     \/ /\ phys \in weak
        /\ cells' \in {cells, [cells EXCEPT ![phys] = Junk]}
        /\ BlockFailed
        /\ UNCHANGED <<mark, wp, jobSame>>
     \/ LinkBreaks(phys)

\* Programming clears bits: only a blank block comes out as the file has it.
Programmed == IF cells[phys] = Blank THEN fb + 1 ELSE Junk

\* A weak block may report its failure or come out wrong without a word.
\* Every 16 pages the job looks whether it is cancelled.
ProgramBlock ==
  /\ pc = "program"
  /\ \/ /\ cells' = [cells EXCEPT ![phys] = Programmed]
        /\ IF doVerify
           THEN pc' = "verify" /\ UNCHANGED <<fb, phys, bad, newBad, placed, outcome>>
           ELSE BlockDone
        /\ UNCHANGED <<mark, wp, jobSame>>
     \/ /\ phys \in weak
        /\ cells' = [cells EXCEPT ![phys] = Junk]
        /\ \/ BlockFailed
           \/ /\ doVerify
              /\ pc' = "verify"
              /\ UNCHANGED <<fb, phys, bad, newBad, placed, outcome>>
           \/ /\ ~doVerify
              /\ BlockDone
        /\ UNCHANGED <<mark, wp, jobSame>>
     \/ /\ cells' \in {[cells EXCEPT ![phys] = c] : c \in {Programmed, Junk}}
        /\ Finish("cancelled")
        /\ UNCHANGED <<mark, wp, fb, phys, bad, newBad, placed, jobSame>>
     \/ LinkBreaks(phys)

VerifyBlock ==
  /\ pc = "verify"
  /\ \/ /\ IF cells[phys] = fb + 1 THEN BlockDone ELSE BlockFailed
        /\ UNCHANGED <<chipVars, jobSame>>
     \/ /\ "work" \in FaultAt
        /\ Finish("error")
        /\ UNCHANGED <<chipVars, fb, phys, bad, newBad, placed, jobSame>>

------------------------------------------------------------------------------
(* erase *)

\* The next batch: EraseGroup of the blocks that are not bad.
Left == {b \in Block : phys =< b /\ b \notin bad}
Group == {b \in Left : Cardinality({c \in Left : c < b}) < EraseGroup}

\* One batch.  Blocks that fail are reported, and the job goes on.
EraseLoop ==
  /\ pc = "loop"
  /\ kind = "erase"
  /\ \/ /\ Left = {}
        /\ Finish(IF newBad = {} THEN "ok" ELSE "failed")
        /\ UNCHANGED <<cells, mark, phys, newBad>>
     \/ /\ Left # {}
        /\ \E fails \in SUBSET (weak \cap Group) :
             /\ cells' = [b \in Block |-> IF b \in fails THEN Junk
                                          ELSE IF b \in Group THEN Blank ELSE cells[b]]
             /\ mark' = mark \ (Group \ fails)
             /\ newBad' = newBad \cup fails
        /\ phys' = 1 + CHOOSE b \in Group : \A c \in Group : c =< b
        /\ UNCHANGED <<pc, outcome>>
     \/ /\ Left # {}
        /\ "work" \in FaultAt
        /\ \E done \in SUBSET Group :
             /\ cells' = [b \in Block |-> IF b \in done THEN Blank ELSE cells[b]]
             /\ mark' = mark \ done
        /\ Finish("error")
        /\ UNCHANGED <<phys, newBad>>
  /\ UNCHANGED <<wp, jobs, optVars, fb, bad, skipped, placed, before, constVars>>

------------------------------------------------------------------------------
\* ctx.check(), before each block and each batch.
Cancel ==
  /\ pc = "loop"
  /\ IF kind = "write" THEN fb < FileBlocks ELSE Left # {}
  /\ Finish("cancelled")
  /\ UNCHANGED <<chipVars, jobs, optVars, posVars, before, constVars>>

Work == WriteLoop \/ EraseBlock \/ ProgramBlock \/ VerifyBlock \/ EraseLoop

Next == StartWrite \/ StartErase \/ Scan \/ Begin \/ Cancel \/ Work \/ End

Spec == Init /\ [][Next]_vars

\* The thread that runs a job goes on with it.
FairSpec == Spec /\ WF_vars(Scan \/ Begin \/ Work \/ End)

------------------------------------------------------------------------------
TypeOK ==
  /\ cells \in [Block -> Contents]
  /\ mark \subseteq Block
  /\ weak \subseteq Block
  /\ wp \in BOOLEAN
  /\ pc \in {"idle", "scan", "begin", "loop", "erase", "program", "verify", "end"}
  /\ jobs \in 0 .. MaxJobs
  /\ kind \in {"write", "erase"}
  /\ mode \in Modes
  /\ doErase \in BOOLEAN
  /\ doVerify \in BOOLEAN
  /\ start \in Block
  /\ fb \in 0 .. FileBlocks
  /\ phys \in 0 .. Blocks
  /\ bad \subseteq Block
  /\ newBad \subseteq Block
  /\ skipped \subseteq 1 .. FileBlocks
  /\ outcome \in {"none", "ok", "failed", "cancelled", "error", "wp error"}
  /\ factory \subseteq Block
  /\ before \in [cells : [Block -> Contents], wp : BOOLEAN]
  /\ placed \in [1 .. FileBlocks -> Block \cup {NoBlock}]

Ended(k, how) == pc = "idle" /\ jobs > 0 /\ kind = k /\ outcome = how

\* What read and verify find in "skip" mode: they scan the markers again and
\* take the blocks without one in order.
GoodBlocks == {b \in Block : start =< b /\ b \notin mark}
VerifyPasses ==
  \A f \in 1 .. FileBlocks :
    \E b \in GoodBlocks : cells[b] = f /\ Cardinality({c \in GoodBlocks : c < b}) = f - 1

\* Every file block not reported as skipped is on the chip, each in a block of
\* its own, in order, and in place unless bad blocks shift the image.
ImageThere ==
  /\ \A f \in 1 .. FileBlocks : f \notin skipped =>
       placed[f] \in Block /\ cells[placed[f]] = f
  /\ \A f, g \in 1 .. FileBlocks \ skipped : f < g => placed[f] < placed[g]
  /\ mode # "skip" => \A f \in 1 .. FileBlocks \ skipped : placed[f] = start + f - 1

\* A write that reports success after verifying has the image on the chip; and
\* if no block failed, a later read or verify in the same mode finds it.
SuccessIsTrue ==
  Ended("write", "ok") /\ doVerify =>
    ImageThere /\ (mode = "skip" /\ newBad = {} => VerifyPasses)

\* Blocks that came marked bad are neither erased nor programmed, and keep
\* their markers, unless a job was told to ("force").
FactoryMarksKept ==
  [][mode' # "force" => \A b \in factory \cap mark : cells'[b] = cells[b] /\ b \in mark']_vars

\* A write touches only blocks from its start up to the one it has reached.
NothingElseTouched ==
  /\ TypeOK
  /\ kind = "write" => \A b \in Block : b < start \/ b > phys => cells[b] = before.cells[b]

\* However a job ends, by cancelling, a failing block or a broken link, WP# is
\* low again, unless it was the switching of WP# that failed.  The only job that
\* leaves it high found it high, after such a failure, and went before it touched
\* the chip.
ProtectedAfterJob ==
  pc = "idle" /\ outcome # "wp error" /\ wp => before = [cells |-> cells, wp |-> TRUE]

\* Every job ends, even if every block fails.
JobsEnd == pc # "idle" ~> pc = "idle"
==============================================================================
