------------------------------- MODULE SpiNor -------------------------------
(***************************************************************************)
(* The SPI NOR driver (flash.py, SpiNor), the chip behind it (emulator.py, *)
(* SpiNorModel) and the jobs of jobs.py that run on it: partial pages and  *)
(* erase units, merged erases, the protection bits, the quad-enable bit    *)
(* that is set for one operation and restored after it, and the 4-byte     *)
(* addresses of large chips, a mode the chip and the driver both remember. *)
(*                                                                         *)
(* An action is one Device.run: a batch, which may fail in the middle.     *)
(***************************************************************************)
EXTENDS Integers, FiniteSets, Sequences

CONSTANTS
  Units,      \* drv.blocks: erase units of the chip
  PPU,        \* pages_per_block
  Sizes,      \* erase_types: sizes of the chip's erase commands, in units
  Group,      \* units that write hands to erase_blocks at once
  FilePages,  \* pages of the image, the last one perhaps partly filled
  BlankPages, \* pages of the image that are all FF
  ProgBatch,  \* pages programmed by one batch
  Big,        \* the chip has more than 16 MiB
  QeReg,      \* status register with the quad-enable bit: QE_BITS[qer][0]
  MaxJobs,    \* jobs and detections, one after the other
  FaultAt     \* a subset of FaultPoints

\* "link": a batch breaks off; "slow": a poll times out; "wp": the protection
\* bits cannot be cleared; "doctor": the doctor runs between the jobs.
FaultPoints == {"link", "slow", "wp", "doctor"}

ASSUME SpiNorAssumption ==
  /\ Units \in Nat \ {0}
  /\ PPU \in Nat \ {0}
  /\ Sizes \subseteq Nat \ {0}
  /\ 1 \in Sizes
  /\ Group \in Nat \ {0}
  /\ FilePages \in 1 .. Units * PPU
  /\ BlankPages \subseteq 1 .. FilePages
  /\ ProgBatch \in Nat \ {0}
  /\ Big \in BOOLEAN
  /\ QeReg \in {1, 2}
  /\ MaxJobs \in Nat
  /\ FaultAt \subseteq FaultPoints

Unit == 0 .. (Units - 1)
Page == 0 .. (Units * PPU - 1)
PagesOf(us) == {p \in Page : p \div PPU \in us}

\* What a page holds.  Mixed: the head of image page i before the tail of c.
Blank == <<"blank">>
Junk == <<"junk">>
Old(p) == <<"old", p>>
Img(i) == <<"img", i>>
Mixed(i, c) == <<"mix", i, c>>
TailOf(c) == IF c[1] = "mix" THEN c[3] ELSE c
Whole == {Blank, Junk} \cup {Old(p) : p \in Page} \cup {Img(i) : i \in 1 .. FilePages}
Contents == Whole \cup {Mixed(FilePages, c) : c \in Whole}

VARIABLES
  \* the chip
  cells,     \* what each page holds
  prot,      \* block-protection bits of SR1
  qe,        \* the quad-enable bit
  mode4,     \* the chip takes 4-byte addresses
  \* the driver
  four,      \* drv.four: the driver sends 4-byte addresses
  restore,   \* drv._qe_restore is set: QE is to be cleared
  bus,       \* drv.bus: "plain", "quad"; "plain" between the operations, as each
             \* that looks at it chooses it anew
  \* the job
  op,        \* driver operation at work, "loop" between them, "idle" between jobs
  stage,     \* where in it: "enter4", "qe", "body", "qeoff"
  jobs,
  kind,      \* "read", "write", "verify", "erase"
  opts,      \* options of the job
  fb,        \* file blocks done; erase: units done
  fill,      \* tail of the last page, read before the write
  kept,      \* pages of the last unit behind the image, as read before the erase
  left,      \* pages of the chunk still to be programmed
  got,       \* what the read job returned
  outcome,   \* "none", "ok", "failed", "cancelled", "error"
  \* history, for the properties
  before,    \* cells when the job, or the detection after it, began
  qe0,       \* QE when the job began
  qeMoved,   \* QE was changed for good: unprotect cleared it or a _set_qe failed
  astray     \* during the job the driver sent four bytes to a chip that takes three

chipVars == <<cells, prot, qe, mode4>>
driverVars == <<four, restore, bus>>
jobVars == <<jobs, kind, opts>>
posVars == <<fb, fill, kept, left, got>>
histVars == <<before, qe0, qeMoved, astray>>
vars == <<chipVars, driverVars, op, stage, jobVars, posVars, outcome, histVars>>

Options == [start : Unit, doErase : BOOLEAN, doVerify : BOOLEAN, tail : BOOLEAN,
            quad : {"off", "auto", "on"}, quadWrite : BOOLEAN]

Init ==
  /\ cells = [p \in Page |-> Old(p)]
  /\ prot \in BOOLEAN
  /\ qe \in BOOLEAN
  /\ mode4 = FALSE
  /\ four = FALSE
  /\ restore = FALSE
  /\ bus = "plain"
  /\ op = "idle"
  /\ stage = "body"
  /\ jobs = 0
  /\ kind = "read"
  /\ opts \in {o \in Options : o.start = 0 /\ o.doErase /\ o.doVerify /\ o.tail
                               /\ o.quad = "off" /\ ~o.quadWrite}
  /\ fb = 0
  /\ fill = Blank
  /\ kept = [p \in Page |-> Blank]
  /\ left = {}
  /\ got = [p \in {} |-> Blank]
  /\ outcome = "none"
  /\ before = cells
  /\ qe0 = qe
  /\ qeMoved = FALSE
  /\ astray = FALSE

------------------------------------------------------------------------------
(* The chip *)

\* Programming clears bits.
And(old, new) == IF old = Blank \/ old = new THEN new ELSE Junk

\* Four address bytes to a chip that takes three, or the reverse.
Astray == mode4 # four

\* A read returns FF while QE is clear and four lines are used.
Sees(p) ==
  IF bus = "quad" /\ ~qe THEN Blank ELSE IF Astray THEN Junk ELSE cells[p]

\* The chip rounds the address down to the size of the erase.
EraseRange(u, n) == {v \in Unit : v \div n = u \div n}

EraseUnits(us) == [p \in Page |-> IF p \in PagesOf(us) THEN Blank ELSE cells[p]]

------------------------------------------------------------------------------
(* The image and the chunk of it that is being written *)

FileUnits == (FilePages + PPU - 1) \div PPU
First == opts.start * PPU

\* The last page of the image is filled from the chip, or padded with FF.
ImagePage(i) ==
  IF i = FilePages /\ opts.tail THEN Mixed(i, fill)
  ELSE IF i \in BlankPages THEN Blank ELSE Img(i)

Covered == {p \in Page : First =< p /\ p < First + FilePages}

phys == opts.start + fb
ChunkUnits ==
  {u \in Unit : phys =< u /\ u < phys + Group /\ u < opts.start + FileUnits}

\* Slip: the tail of one unit is kept, not of the whole group.
TailPagesOne == PagesOf({phys}) \ Covered

\* _merge_partial: pages behind the image in the units that will be erased.
TailPages == PagesOf(ChunkUnits) \ Covered

Chunk == IF opts.doErase THEN PagesOf(ChunkUnits) ELSE PagesOf(ChunkUnits) \cap Covered
Want(p) == IF p \in Covered THEN ImagePage(p - First + 1) ELSE kept[p]

\* erase_blocks takes the units one after the other.  A unit still to be erased
\* is erased by the largest command that fits, which may cover others behind it.
EraseNext(acc, u, fits) ==
  LET n == CHOOSE s \in fits : \A t \in fits : t =< s
  IN IF u \notin acc.todo THEN acc
     ELSE [todo |-> acc.todo \ (u .. (u + n - 1)), cmds |-> Append(acc.cmds, <<u, n>>)]

\* Slip: a larger erase is used wherever it fits, aligned or not.
EraseCmdsUnaligned(us) ==
  LET Fits(todo, u) == {s \in Sizes : u .. (u + s - 1) \subseteq todo}
      at[k \in 0 .. Units] ==
        IF k = 0 THEN [todo |-> us, cmds |-> <<>>]
        ELSE EraseNext(at[k - 1], k - 1, Fits(at[k - 1].todo, k - 1))
  IN at[Units].cmds

\* A command fits if it is aligned and erases nothing else.
EraseCmds(us) ==
  LET Fits(todo, u) == {s \in Sizes : u % s = 0 /\ u .. (u + s - 1) \subseteq todo}
      at[k \in 0 .. Units] ==
        IF k = 0 THEN [todo |-> us, cmds |-> <<>>]
        ELSE EraseNext(at[k - 1], k - 1, Fits(at[k - 1].todo, k - 1))
  IN at[Units].cmds

\* Units erased when the chip has executed the first k commands.
Erased(us, k) ==
  LET cmds == EraseCmds(us) IN UNION {EraseRange(cmds[i][1], cmds[i][2]) : i \in 1 .. k}

------------------------------------------------------------------------------
(* From one driver operation to the next *)

Goto(o) ==
  /\ op' = o
  /\ stage' = IF o \in {"idle", "loop", "begin", "chip", "end"} THEN "body" ELSE "enter4"

\* The exception or the return that ends the operation at work: the jobs that
\* write pass through end_write, in a finally clause that begins after
\* begin_write.
Leave(how) ==
  /\ outcome' = how
  /\ Goto(IF op \in {"loop", "merge", "erase", "chip", "program", "verify"}
               /\ kind \in {"write", "erase"}
          THEN "end" ELSE "idle")

\* The operation is done and was not disturbed.
Done(o) == Goto(o) /\ UNCHANGED outcome

reads == {"fill", "merge", "verify", "read", "compare"}

------------------------------------------------------------------------------
StartJob ==
  /\ op = "idle"
  /\ jobs < MaxJobs
  /\ jobs' = jobs + 1
  /\ kind' \in {"read", "write", "verify", "erase"}
  /\ opts' \in {o \in Options :
                  /\ kind' # "write" => o.doErase /\ o.doVerify /\ ~o.quadWrite
                  /\ kind' \in {"read", "erase"} => o.tail}
  /\ outcome' = "none"
  /\ fb' = 0
  /\ fill' = Blank
  /\ kept' = [p \in Page |-> Blank]
  /\ left' = {}
  /\ got' = [p \in {} |-> Blank]
  /\ before' = cells
  /\ qe0' = qe
  /\ qeMoved' = FALSE
  /\ astray' = (four /\ ~mode4)
  /\ Goto(CASE kind' = "read" -> "read"
            [] kind' = "write" -> IF opts'.tail /\ opts'.doErase
                                     /\ opts'.start * PPU + FilePages - 1 \in Page
                                  THEN "fill" ELSE "begin"
            [] kind' = "verify" -> "loop"
            [] kind' = "erase" -> "begin")
  /\ UNCHANGED <<chipVars, driverVars>>

\* detect_spi resets the chip (66h 99h; a chip need not know them) and makes a
\* new driver.
Detect ==
  /\ op = "idle"
  /\ jobs < MaxJobs
  /\ jobs' = jobs + 1
  /\ mode4' \in {mode4, FALSE}
  /\ four' = FALSE
  /\ restore' = FALSE
  /\ bus' = "plain"
  /\ astray' = FALSE
  /\ outcome' = "none"
  /\ before' = cells
  /\ UNCHANGED <<cells, prot, qe, op, stage, kind, opts, posVars, qe0, qeMoved>>

\* The doctor identifies the chips the same way, and drops the drivers it made.
Doctor ==
  /\ op = "idle"
  /\ "doctor" \in FaultAt
  /\ mode4
  /\ mode4' = FALSE
  /\ astray' = four
  /\ outcome' = "none"
  /\ UNCHANGED <<cells, prot, qe, driverVars, op, stage, jobVars, posVars, before, qe0, qeMoved>>

\* unprotect: WRSR clears SR1, and with it a QE bit that is kept there.
Begin ==
  /\ op = "begin"
  /\ \/ /\ kind = "write"
        /\ opts.start + FileUnits > Units
        /\ Leave("error")
        /\ UNCHANGED <<prot, qe, qeMoved>>
     \/ /\ kind = "write" => opts.start + FileUnits =< Units
        /\ prot' = FALSE
        /\ qe' = (qe /\ ~(prot /\ QeReg = 1))
        /\ qeMoved' = (qeMoved \/ qe # qe')
        /\ Done("loop")
     \/ /\ prot
        /\ FaultAt \cap {"link", "wp"} # {}
        /\ Leave("error")
        /\ UNCHANGED <<prot, qe, qeMoved>>
  /\ UNCHANGED <<cells, mode4, driverVars, jobVars, posVars, before, qe0, astray>>

\* Slip: the driver notes the mode before the chip has it.
EnterEarly ==
  /\ stage = "enter4"
  /\ four' = TRUE
  /\ mode4' \in {mode4, Big}
  /\ stage' = "qe"
  /\ UNCHANGED <<cells, prot, qe, restore, bus, op, jobVars, posVars, outcome, histVars>>

\* enter_4byte
Enter4 ==
  /\ stage = "enter4"
  /\ \/ /\ mode4' = (mode4 \/ (Big /\ ~four))
        /\ four' = (four \/ Big)
        /\ stage' = "qe"
        /\ UNCHANGED <<op, outcome>>
     \/ /\ Big /\ ~four
        /\ "link" \in FaultAt
        /\ mode4' \in {mode4, TRUE}
        /\ Leave("error")
        /\ UNCHANGED four
  /\ UNCHANGED <<cells, prot, qe, restore, bus, jobVars, posVars, histVars>>

Quads == op \in reads \/ (op = "program" /\ opts.quadWrite)

\* _quad_begin, _ensure_qe, _set_qe(True)
QuadBegin ==
  /\ stage = "qe"
  /\ \/ /\ ~Quads \/ opts.quad = "off" \/ (opts.quad = "auto" /\ op \in reads /\ ~qe)
        /\ ~(op = "program" /\ opts.quadWrite)
        /\ bus' = "plain"
        /\ stage' = "body"
        /\ UNCHANGED <<qe, restore, qeMoved, op, outcome>>
     \/ /\ op = "program" /\ opts.quadWrite /\ opts.quad = "off"
        /\ Leave("error")
        /\ UNCHANGED <<qe, restore, bus, qeMoved>>
     \/ /\ Quads
        /\ opts.quad # "off"
        /\ qe
        /\ bus' = "quad"
        /\ stage' = "body"
        /\ UNCHANGED <<qe, restore, qeMoved, op, outcome>>
     \/ /\ Quads
        /\ ~qe
        /\ opts.quad = "on" \/ (opts.quad = "auto" /\ op = "program")
        /\ qe' = TRUE
        /\ restore' = TRUE
        /\ bus' = "quad"
        /\ stage' = "body"
        /\ UNCHANGED <<qeMoved, op, outcome>>
     \/ /\ Quads
        /\ ~qe
        /\ opts.quad = "on" \/ (opts.quad = "auto" /\ op = "program")
        /\ "link" \in FaultAt
        /\ qe' \in BOOLEAN
        /\ qeMoved' = TRUE
        /\ Leave("error")
        /\ UNCHANGED <<restore, bus>>
  /\ UNCHANGED <<cells, prot, mode4, four, jobVars, posVars, before, qe0, astray>>

------------------------------------------------------------------------------
(* The operations themselves.  Each ends with _quad_end. *)

Body(how) == stage = "body" /\ stage' = "qeoff" /\ outcome' = how /\ UNCHANGED op

bodySame == <<prot, qe, mode4, driverVars, jobVars, fb, fill, before, qe0, qeMoved, astray>>

\* The partial last page; the pages behind the image; the result of a read.
ReadBody ==
  /\ op \in {"fill", "merge", "read"}
  /\ \/ Body("none")
     \/ Body("error") /\ "link" \in FaultAt
     \/ Body("cancelled") /\ op = "read"
  /\ fill' = IF op = "fill" THEN TailOf(Sees(First + FilePages - 1)) ELSE fill
  /\ kept' = IF op = "merge" THEN [p \in Page |-> IF p \in TailPages THEN Sees(p) ELSE Blank]
             ELSE kept
  /\ got' = IF op = "read" THEN [p \in {q \in Page : First =< q} |-> Sees(p)] ELSE got
  /\ UNCHANGED <<cells, prot, qe, mode4, driverVars, jobVars, fb, left, before, qe0, qeMoved, astray>>

\* Slip: the last page, which is padded, is left out.
ComparedWhole ==
  IF op = "verify" THEN Chunk ELSE PagesOf({phys}) \cap (Covered \ {First + FilePages - 1})

\* The verify job goes unit by unit, and pads the last page with FF.
Compared == IF op = "verify" THEN Chunk ELSE PagesOf({phys}) \cap Covered

CompareBody ==
  /\ op \in {"verify", "compare"}
  /\ \/ Body(IF \A p \in Compared : Sees(p) = Want(p) THEN "none" ELSE "failed")
     \/ Body("error") /\ "link" \in FaultAt
  /\ UNCHANGED <<cells, kept, left, got, bodySame>>

EraseSet ==
  IF kind = "write" THEN ChunkUnits ELSE {u \in Unit : phys =< u /\ u < phys + Group}

\* A command that does not end in time leaves the chip busy, and deaf to the next.
EraseBody ==
  /\ op = "erase"
  /\ \/ /\ outcome = "none"
        /\ Body("none")
        /\ cells' = IF Astray THEN EraseUnits({0})
                    ELSE IF prot THEN cells
                    ELSE EraseUnits(Erased(EraseSet, Len(EraseCmds(EraseSet))))
     \/ /\ Body("failed")
        /\ "slow" \in FaultAt
        /\ \E k \in 0 .. Len(EraseCmds(EraseSet)) : cells' = EraseUnits(Erased(EraseSet, k))
        /\ ~Astray
     \/ /\ Body("error")
        /\ "link" \in FaultAt
        /\ \E k \in 0 .. Len(EraseCmds(EraseSet)) : cells' = EraseUnits(Erased(EraseSet, k))
        /\ ~Astray
  /\ UNCHANGED <<kept, left, got, bodySame>>

EraseChipBody ==
  /\ op = "chip"
  /\ \/ /\ cells' = [p \in Page |-> Blank]
        /\ Leave("ok")
     \/ /\ FaultAt \cap {"slow", "link"} # {}
        /\ cells' \in {cells, [p \in Page |-> Blank]}
        /\ Leave("error")
  /\ UNCHANGED <<kept, left, got, bodySame>>

Batch == {p \in left : Cardinality({q \in left : q < p}) < ProgBatch}

Programmed(ps) ==
  IF prot \/ (opts.quadWrite /\ ~qe) THEN cells
  ELSE IF Astray THEN [p \in Page |-> IF p \in PagesOf({0}) THEN Junk ELSE cells[p]]
  ELSE [p \in Page |-> IF p \in ps THEN And(cells[p], Want(p)) ELSE cells[p]]

ProgramBody ==
  /\ op = "program"
  /\ \/ /\ Body("none")
        /\ cells' = Programmed(Batch)
        /\ left' = left \ Batch
     \/ /\ \/ Body("failed") /\ "slow" \in FaultAt
           \/ Body("error") /\ "link" \in FaultAt
        /\ \E ps \in SUBSET Batch : cells' = Programmed(ps)
        /\ UNCHANGED left
  /\ UNCHANGED <<kept, got, bodySame>>

------------------------------------------------------------------------------
ChunkDone == Done("loop") /\ fb' = fb + Cardinality(ChunkUnits) /\ UNCHANGED left

StartProgram ==
  /\ left' = {p \in Chunk : Want(p) # Blank}
  /\ IF left' # {} THEN Done("program") /\ UNCHANGED fb
     ELSE IF opts.doVerify THEN Done("verify") /\ UNCHANGED fb
     ELSE Done("loop") /\ fb' = fb + Cardinality(ChunkUnits)

\* What the job does after an operation that was not disturbed.
Continue ==
  CASE op = "fill" -> Done("begin") /\ UNCHANGED <<fb, left>>
    [] op = "merge" -> Done("erase") /\ UNCHANGED <<fb, left>>
    [] op = "erase" /\ kind = "write" -> StartProgram
    [] op = "erase" /\ kind = "erase" ->
         Done("loop") /\ fb' = fb + Cardinality(EraseSet) /\ UNCHANGED left
    [] op = "program" ->
         \/ Leave("cancelled") /\ UNCHANGED <<fb, left>>
         \/ left # {} /\ Done("program") /\ UNCHANGED <<fb, left>>
         \/ left = {} /\ opts.doVerify /\ Done("verify") /\ UNCHANGED <<fb, left>>
         \/ left = {} /\ ~opts.doVerify /\ ChunkDone
    [] op = "verify" -> ChunkDone
    [] op = "compare" -> Done("loop") /\ fb' = fb + 1 /\ UNCHANGED left
    [] op = "read" -> Leave("ok") /\ UNCHANGED <<fb, left>>

\* Slip: QE is restored only where the operation went well.
QuadEndIfOk ==
  /\ stage = "qeoff"
  /\ IF outcome = "none" THEN qe' = (qe /\ ~restore) ELSE UNCHANGED qe
  /\ restore' = FALSE
  /\ bus' = "plain"
  /\ IF outcome = "none" THEN Continue ELSE Leave(outcome) /\ UNCHANGED <<fb, left>>
  /\ UNCHANGED <<cells, prot, mode4, four, jobVars, fill, kept, got, histVars>>

\* _quad_end, in a finally clause: it forgets that QE is to be restored before
\* it restores it.  The generators of the tail and of the verify job are left with
\* pages unread: their finally runs when they are collected, and an exception in
\* it ends there, not the job.
QuadEnd ==
  /\ stage = "qeoff"
  /\ restore' = FALSE
  /\ bus' = "plain"
  /\ \/ /\ qe' = (qe /\ ~restore)
        /\ IF outcome = "none" THEN Continue
           ELSE IF outcome = "failed" /\ kind = "erase"
                THEN Done("loop") /\ fb' = fb + Cardinality(EraseSet) /\ UNCHANGED left
                ELSE Leave(outcome) /\ UNCHANGED <<fb, left>>
        /\ UNCHANGED qeMoved
     \/ /\ restore
        /\ "link" \in FaultAt
        /\ qe' \in BOOLEAN
        /\ qeMoved' = TRUE
        /\ IF op \in {"fill", "compare"} /\ outcome = "none" THEN Continue
           ELSE /\ Leave(IF op = "compare" THEN outcome ELSE "error")
                /\ UNCHANGED <<fb, left>>
  /\ UNCHANGED <<cells, prot, mode4, four, jobVars, fill, kept, got, before, qe0, astray>>

\* The head of the loops of write, verify and erase.
Loop ==
  /\ op = "loop"
  /\ \/ /\ IF kind = "erase" THEN EraseSet = {} ELSE fb = FileUnits
        /\ Leave(IF outcome = "none" THEN "ok" ELSE outcome)
        /\ UNCHANGED <<fb, kept, left>>
     \/ /\ kind = "write"
        /\ fb < FileUnits
        /\ kept' = [p \in Page |-> Blank]
        /\ IF opts.doErase
           THEN Done(IF TailPages = {} THEN "erase" ELSE "merge") /\ UNCHANGED <<fb, left>>
           ELSE StartProgram
     \/ /\ kind = "verify"
        /\ fb < FileUnits
        /\ IF phys \in Unit THEN Done("compare") ELSE Leave("failed")
        /\ UNCHANGED <<fb, kept, left>>
     \/ /\ kind = "erase"
        /\ EraseSet # {}
        /\ Done(IF opts.start = 0 /\ fb = 0 THEN "chip" ELSE "erase")
        /\ UNCHANGED <<fb, kept, left>>
     \/ /\ IF kind = "erase" THEN EraseSet # {} ELSE fb < FileUnits
        /\ Leave("cancelled")
        /\ UNCHANGED <<fb, kept, left>>
  /\ UNCHANGED <<chipVars, driverVars, jobVars, fill, got, histVars>>

\* end_write: exit_4byte, which a chip that is still busy does not hear.
End ==
  /\ op = "end"
  /\ Goto("idle")
  /\ \/ /\ mode4' \in IF four THEN {FALSE} \cup {mode4 /\ outcome \in {"failed", "error"}} ELSE {mode4}
        /\ four' = FALSE
        /\ UNCHANGED <<outcome, astray>>
     \/ /\ four
        /\ "link" \in FaultAt
        /\ mode4' \in {mode4, FALSE}
        /\ astray' = (astray \/ ~mode4')
        /\ outcome' = "error"
        /\ UNCHANGED four
  /\ UNCHANGED <<cells, prot, qe, restore, bus, jobVars, posVars, before, qe0, qeMoved>>

Next ==
  \/ StartJob \/ Detect \/ Doctor \/ Begin \/ Enter4 \/ QuadBegin \/ ReadBody \/ CompareBody
  \/ EraseBody \/ EraseChipBody \/ ProgramBody \/ QuadEnd \/ Loop \/ End

Spec == Init /\ [][Next]_vars

------------------------------------------------------------------------------
TypeOK ==
  /\ cells \in [Page -> Contents]
  /\ prot \in BOOLEAN /\ qe \in BOOLEAN /\ mode4 \in BOOLEAN
  /\ four \in BOOLEAN /\ restore \in BOOLEAN /\ bus \in {"plain", "quad"}
  /\ op \in reads \cup {"idle", "begin", "loop", "erase", "chip", "program", "end"}
  /\ stage \in {"enter4", "qe", "body", "qeoff"}
  /\ jobs \in 0 .. MaxJobs
  /\ kind \in {"read", "write", "verify", "erase"}
  /\ opts \in Options
  /\ fb \in 0 .. Units
  /\ fill \in Contents
  /\ kept \in [Page -> Contents]
  /\ left \subseteq Page
  /\ outcome \in {"none", "ok", "failed", "cancelled", "error"}
  /\ before \in [Page -> Contents]
  /\ qe0 \in BOOLEAN /\ qeMoved \in BOOLEAN /\ astray \in BOOLEAN

Ended(k, how) == op = "idle" /\ jobs > 0 /\ kind = k /\ outcome = how

\* Whenever pages are addressed, the driver sends as many address bytes as the
\* chip takes, and four lines are used only while the chip's QE bit is set.
\* The exceptions are a failed exit_4byte and the doctor's reset of the chip,
\* until a new detection (astray).
InStep ==
  /\ TypeOK
  /\ stage = "body" /\ op \in reads \cup {"erase", "program"} =>
       /\ mode4 = four \/ astray
       /\ bus = "quad" => qe

\* A write that reports success has the image on the chip, and everything else
\* as it was: the rest of the last page, the rest of the last erase unit and
\* the other units, however the erases were merged.
WriteIsExact ==
  Ended("write", "ok") /\ (opts.doErase \/ opts.doVerify) /\ ~astray =>
    \A p \in Page :
      cells[p] = IF p \notin Covered THEN before[p]
                 ELSE IF p = First + FilePages - 1 /\ opts.tail
                      THEN Mixed(FilePages, IF opts.doErase THEN TailOf(before[p]) ELSE Blank)
                 ELSE ImagePage(p - First + 1)

\* A read that reports success returns what the chip holds.  A verify passes only
\* what is on the chip, and finds fault only with what is not: whichever lines and
\* addresses it is read over, page by page, the last one filled up or not.  (It may
\* also be cancelled, or end in an error.)
ReadsTrue ==
  ~astray =>
    /\ Ended("read", "ok") => got = [p \in {q \in Page : First =< q} |-> cells[p]]
    /\ Ended("verify", "ok") => \A p \in Covered : cells[p] = ImagePage(p - First + 1)
    /\ Ended("verify", "failed") =>
         \/ opts.start + FileUnits > Units
         \/ \E p \in Covered : cells[p] # ImagePage(p - First + 1)

JobUnits ==
  CASE kind \in {"read", "verify"} -> {}
    [] kind = "write" -> {u \in Unit : opts.start =< u /\ u < opts.start + FileUnits}
    [] kind = "erase" -> {u \in Unit : opts.start =< u}

\* A job, however it ends, changes no page outside the units it was given.
OthersKept == \A p \in Page \ PagesOf(JobUnits) : cells[p] = before[p]

OthersKeptInStep == ~astray => OthersKept

\* The QE bit is after a job what it was before: it is set for one operation.
\* unprotect may clear it where SR1 holds it, and a _set_qe may fail.
QeRestored == op = "idle" /\ jobs > 0 /\ ~qeMoved => qe = qe0 /\ ~restore
==============================================================================
