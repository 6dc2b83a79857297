------------------------------- MODULE Image --------------------------------
(***************************************************************************)
(* A page on its way through the flash: merge computes its ECC, cells      *)
(* flip, ecc_check reads it back.                                          *)
(***************************************************************************)
EXTENDS Ecc

CONSTANTS
  Layouts,    \* ECC layouts
  PageContents, \* for a layout, the pages that are written: [main, spare]
  FlipCells(_), \* for a layout, the positions of the raw page that may flip
  MaxFlips    \* flips of a page

VARIABLES
  lay,        \* the layout
  written,    \* main and spare area given to merge
  flips       \* cells that flipped

imageVars == <<lay, written, flips>>

Merged == Merge(lay, written.main, written.spare)
Page == SymDiff(Merged, flips)

Flip(z) ==
  /\ Cardinality(flips) < MaxFlips
  /\ flips' = flips \cup {z}
  /\ UNCHANGED <<lay, written>>

ImageInit ==
  /\ lay \in Layouts
  /\ written \in PageContents[lay.scheme]
  /\ flips = {}
ImageNext == \E z \in FlipCells(lay) \ flips : Flip(z)

Correctable == IF lay.scheme = "hamming" THEN 1 ELSE T
InStep(z, i) ==
  \/ DataAt(lay, i) =< z[1] /\ z[1] < DataAt(lay, i) + lay.step
  \/ EccAt(lay, i) =< z[1] /\ z[1] < EccAt(lay, i) + lay.ecc
StepFlips(i) == {z \in flips : InStep(z, i)}

\* Every double flip is reported as uncorrectable and the step left as it was read.
SeenIn(report) ==
  \A i \in 1 .. Steps(lay) :
    Cardinality(StepFlips(i)) = 2 =>
      report.steps[i] = -1 /\ StepData(lay, report.raw, i) = StepData(lay, Page, i)

RestoredIn(report) ==
  /\ \A i \in 1 .. Steps(lay) :
       LET n == Cardinality(StepFlips(i)) IN
       n =< Correctable =>
         /\ StepData(lay, report.raw, i) = StepData(lay, Merged, i)
         /\ report.steps[i] \in {n} \cup (IF n = 0 THEN {BlankStep} ELSE {})
  /\ {z \in report.raw : z[1] >= lay.page} = {z \in Page : z[1] >= lay.page}
  /\ lay.step = 256 => SeenIn(report)

\* What the result -1 of hamming_correct is for: double flips are seen.
DoubleDetected == lay.scheme = "hamming" => SeenIn(Check(lay, Page))

\* Up to Correctable flips in a step, in its data or its ECC, are undone and
\* counted; the other steps and the rest of the spare area stay as they are, and a
\* step is never given up while it could be corrected.  With 256 bytes to a step, a
\* double flip is always seen.
EccRestores == RestoredIn(Check(lay, Page))
==============================================================================
