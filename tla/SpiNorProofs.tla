---------------------------- MODULE SpiNorProofs ----------------------------
(***************************************************************************)
(* Proofs about SpiNor, for any chip and image, any erase commands, any    *)
(* faults and any sequence of jobs.                                        *)
(***************************************************************************)
EXTENDS SpiNor, FiniteSetTheorems, WellFoundedInduction, TLAPS

-----------------------------------------------------------------------------
(* The inductive invariant *)

Addressed == reads \cup {"erase", "program"}
Working == stage \in {"body", "qeoff"}
Writing == kind = "write" /\ op \in {"loop", "merge", "erase", "program", "verify"}

\* An operation that is over and went well.
Over(o) == op = o /\ stage = "qeoff" /\ outcome = "none"

\* Where a job is and what it may do there.
StageInv ==
  /\ kind = "read" => op \in {"read", "idle"}
  /\ kind = "verify" => op \in {"loop", "compare", "idle"}
  /\ kind = "erase" => op \in {"begin", "loop", "erase", "chip", "end", "idle"}
  /\ kind = "write" => op \in {"fill", "begin", "loop", "merge", "erase", "program",
                               "verify", "end", "idle"}
  /\ op \notin Addressed => stage = "body"
  /\ outcome = "ok" => op \in {"idle", "end"}
  /\ op \notin {"idle", "end"} /\ stage # "qeoff" /\ kind # "erase" => outcome = "none"

\* How far a job has come and what it works on.
PlaceInv ==
  /\ fill \in Whole
  /\ kind \in {"write", "verify"} => fb =< FileUnits
  /\ kind = "erase" => opts.start + fb =< Units
  /\ Writing => opts.start + FileUnits =< Units /\ ~prot /\ (op # "loop" => fb < FileUnits)
  /\ op \in {"fill", "begin"} => fb = 0
  /\ op = "fill" => opts.tail /\ opts.doErase /\ First + FilePages - 1 \in Page
  /\ op = "chip" => opts.start = 0
  /\ op = "compare" => phys \in Unit /\ fb < FileUnits
  /\ op = "program" => left \subseteq Chunk
  /\ op = "merge" => opts.doErase
  /\ op = "erase" /\ kind = "write" => opts.doErase
  /\ op = "verify" => opts.doVerify

\* Driver and chip use the same addresses once an operation has gone through
\* enter_4byte, unless a failed exit_4byte or the doctor came between them.
AddrInv ==
  /\ ~Big => ~four /\ ~mode4
  /\ four /\ ~mode4 => astray
  /\ astray => ~mode4 /\ (op # "idle" => four)
  /\ op \in Addressed /\ stage # "enter4" => four = Big

\* QE is set for the operation that uses four lines, and is then what it was.
QeInv ==
  /\ bus = "quad" \/ restore => op \in Addressed /\ Working /\ qe
  /\ ~qeMoved /\ restore => ~qe0
  /\ ~qeMoved /\ ~restore => qe = qe0
  /\ op = "program" /\ opts.quadWrite /\ Working => bus = "quad"

\* What a read job returned.
ReadBack == got = [p \in {q \in Page : First =< q} |-> cells[p]]

\* What a verify job has compared: the unit at work, those before it, all.
UnitMatches == \A p \in PagesOf({phys}) \cap Covered : cells[p] = ImagePage(p - First + 1)
MatchesBehind == \A p \in Covered : p \div PPU < phys => cells[p] = ImagePage(p - First + 1)
Matches == \A p \in Covered : cells[p] = ImagePage(p - First + 1)

ReadInv ==
  ~astray =>
    /\ Over("read") \/ Ended("read", "ok") => ReadBack
    /\ Over("compare") => UnitMatches
    /\ kind = "verify" /\ op # "idle" => MatchesBehind
    /\ Ended("verify", "ok") => Matches
    /\ op = "compare" /\ stage = "qeoff" /\ outcome = "failed" => ~Matches
    /\ Ended("verify", "failed") => opts.start + FileUnits > Units \/ ~Matches

\* The last page of the image and what every page should hold in the end.
Last == First + FilePages - 1
Final(p) ==
  IF p \notin Covered THEN before[p]
  ELSE IF p = Last /\ opts.tail
       THEN Mixed(FilePages, IF opts.doErase THEN TailOf(before[p]) ELSE Blank)
  ELSE ImagePage(p - First + 1)

\* What a write has read before it erases: the tail of the last page, the pages
\* of the last unit behind the image.
TailRead == fill = (IF opts.tail /\ opts.doErase THEN TailOf(before[Last]) ELSE Blank)
PagesRead == opts.doErase => \A p \in TailPages : kept[p] = before[p]

KeptInv ==
  kind = "write" /\ ~astray =>
    /\ Over("fill") \/ (op = "begin" /\ Last \in Page) \/ Writing => TailRead
    /\ Over("merge") \/ op \in {"erase", "program", "verify"} => PagesRead

\* The units behind the chunk at work, those ahead of it, and the pages between
\* them that a write without an erase leaves alone.
InChunk(p) == p \div PPU \in ChunkUnits
Behind ==
  opts.doErase \/ opts.doVerify => \A p \in Page : p \div PPU < phys => cells[p] = Final(p)
Ahead == \A p \in Page : phys =< p \div PPU /\ ~InChunk(p) => cells[p] = before[p]
Uncovered == ~opts.doErase => \A p \in Page \ Covered : cells[p] = before[p]

\* The chunk before the erase, after it, while it is programmed, after that.
Fresh == \A p \in Page : InChunk(p) => cells[p] = before[p]
Wiped == \A p \in Page : InChunk(p) => cells[p] = Blank
Partly ==
  opts.doErase => \A p \in Page : InChunk(p) => cells[p] = IF p \in left THEN Blank ELSE Want(p)
Written == \A p \in Chunk : cells[p] = Want(p)

\* The end of it.
Exact == opts.doErase \/ opts.doVerify => \A p \in Page : cells[p] = Final(p)

WriteInv ==
  kind = "write" /\ ~astray =>
    /\ op \in {"fill", "begin"} => cells = before
    /\ Writing => Behind /\ Ahead /\ Uncovered
    /\ op \in {"loop", "merge"} \/ (op = "erase" /\ stage # "qeoff") => Fresh
    /\ Over("erase") => Wiped
    /\ op = "program" /\ outcome = "none" => Partly
    /\ Over("verify") \/ (op = "verify" /\ opts.doErase) => Written
    /\ (op = "end" /\ outcome = "ok") \/ Ended("write", "ok") => Exact

IndInv ==
  /\ TypeOK /\ StageInv /\ PlaceInv /\ AddrInv /\ QeInv
  /\ OthersKeptInStep /\ ReadInv /\ KeptInv /\ WriteInv

-----------------------------------------------------------------------------
(* Arithmetic *)

\* A set of numbers has a least one.
LEMMA Least ==
    ASSUME NEW S \in SUBSET Nat, S # {}
    PROVE  \E m \in S : \A k \in S : m =< k
<1>1. PICK m \in S : \A k \in S : ~ (<<k, m>> \in OpToRel(<, Nat))
  BY NatLessThanWellFounded, WFMin
<1>2. \A k \in S : ~(k < m)
  BY <1>1 DEF OpToRel
<1> QED BY <1>2

LEMMA Division ==
    ASSUME NEW a \in Nat, NEW n \in Nat \ {0}
    PROVE  /\ a \div n \in Nat
           /\ n * (a \div n) =< a
           /\ a < n * (a \div n) + n
           /\ a = n * (a \div n) + (a % n) /\ a % n \in 0 .. (n - 1)
OBVIOUS

\* Where a quotient lies.
LEMMA Quotient ==
    ASSUME NEW a \in Nat, NEW n \in Nat \ {0}, NEW q \in Nat
    PROVE  /\ q * n =< a <=> q =< a \div n
           /\ a < q * n <=> a \div n < q
<1> DEFINE d == a \div n
<1>1. d \in Nat /\ n * d =< a /\ a < n * d + n
  BY Division
<1> HIDE DEF d
<1>2. CASE q =< d
  <2>1. PICK e \in Nat : d = q + e
    BY <1>1, <1>2
  <2>2. n * d = q * n + n * e /\ n * e \in Nat /\ q * n \in Nat
    BY <2>1
  <2> QED BY <1>1, <1>2, <2>2 DEF d
<1>3. CASE q > d
  <2>1. PICK e \in Nat : q = d + 1 + e
    <3>1. q - d - 1 \in Nat
      BY <1>1, <1>3
    <3> QED BY <3>1, <1>1
  <2>2. q * n = n * d + n + n * e /\ n * e \in Nat /\ n * d \in Nat
    BY <2>1, <1>1
  <2> QED BY <1>1, <1>3, <2>2 DEF d
<1> QED BY <1>1, <1>2, <1>3

-----------------------------------------------------------------------------
(* Erase commands *)

\* An aligned command erases its own units and no other.
LEMMA AlignedRange ==
    ASSUME NEW u \in Unit, NEW n \in Nat \ {0}, u % n = 0, u .. (u + n - 1) \subseteq Unit
    PROVE  EraseRange(u, n) = u .. (u + n - 1)
<1> DEFINE d == u \div n
<1>1. u = n * d /\ d \in Nat /\ u \in Nat
  BY Division DEF Unit
<1>2. (d + 1) * n = u + n /\ d * n = u
  BY <1>1
<1> HIDE DEF d
<1>3. ASSUME NEW v \in Unit PROVE v \div n = d <=> v \in u .. (u + n - 1)
  <2>1. v \in Nat
    BY SpiNorAssumption DEF Unit
  <2>2. v \div n \in Nat
    BY <2>1, Division
  <2>3. d * n =< v <=> d =< v \div n
    BY <2>1, <1>1, Quotient
  <2>4. d + 1 \in Nat
    BY <1>1
  <2>5. v < (d + 1) * n <=> v \div n < d + 1
    BY <2>1, <2>4, Quotient
  <2> HIDE DEF EraseRange
  <2> DEFINE w == v \div n
  <2>6. (u =< v <=> d =< w) /\ (v < u + n <=> w < d + 1)
    BY <2>3, <2>5, <1>2
  <2>7. w \in Nat
    BY <2>2
  <2> HIDE DEF w
  <2>8. w = d <=> v \in u .. (u + n - 1)
    BY <2>1, <2>6, <2>7, <1>1
  <2> QED BY <2>8 DEF w
<1> QED BY <1>3 DEF EraseRange, d

Commands == Seq(Unit \X (Nat \ {0}))
Ranges(cmds) == UNION {EraseRange(cmds[i][1], cmds[i][2]) : i \in 1 .. Len(cmds)}

\* What erase_blocks has settled when it comes to unit k.
Merged(us, acc, k) ==
    /\ acc \in [todo : SUBSET us, cmds : Commands]
    /\ \A u \in acc.todo : k =< u
    /\ us \ acc.todo \subseteq Ranges(acc.cmds)
    /\ Ranges(acc.cmds) \subseteq us

FitsAt(todo, u) == {s \in Sizes : u % s = 0 /\ u .. (u + s - 1) \subseteq todo}

LEMMA MergeStep ==
    ASSUME NEW us \in SUBSET Unit, NEW u \in Unit, NEW acc, Merged(us, acc, u)
    PROVE  Merged(us, EraseNext(acc, u, FitsAt(acc.todo, u)), u + 1)
<1> DEFINE fits == FitsAt(acc.todo, u)
           n == CHOOSE s \in fits : \A t \in fits : t =< s
           next == EraseNext(acc, u, fits)
<1>1. /\ acc.todo \subseteq us /\ acc.cmds \in Commands /\ acc \in [todo : SUBSET us, cmds : Commands]
      /\ \A v \in acc.todo : u =< v /\ v \in Nat
      /\ u \in Nat /\ us \subseteq Nat
  BY DEF Merged, Unit
<1>2. CASE u \notin acc.todo
  <2>1. next = acc
    BY <1>2 DEF EraseNext
  <2>2. \A v \in acc.todo : u + 1 =< v
    BY <1>1, <1>2
  <2> QED BY <2>1, <2>2 DEF Merged
<1>3. CASE u \in acc.todo
  <2>1. n \in Sizes /\ n \in Nat \ {0} /\ u % n = 0 /\ u .. (u + n - 1) \subseteq acc.todo
    <3>1. 1 \in fits
      BY <1>1, <1>3, SpiNorAssumption DEF FitsAt
    <3>2. \A s \in fits : s \in Nat /\ s =< Units
      <4> SUFFICES ASSUME NEW s \in fits PROVE s \in Nat /\ s =< Units
        OBVIOUS
      <4>1. s \in Nat \ {0} /\ u .. (u + s - 1) \subseteq us
        BY <1>1, SpiNorAssumption DEF FitsAt
      <4>2. u + s - 1 \in u .. (u + s - 1)
        BY <4>1, <1>1
      <4>3. u + s - 1 \in Unit
        BY <4>1, <4>2
      <4> QED BY <4>1, <4>3, <1>1, SpiNorAssumption DEF Unit
    <3> DEFINE S == {Units - s : s \in fits}
    <3>3. S \in SUBSET Nat /\ S # {}
      <4> HIDE DEF fits
      <4> QED BY <3>1, <3>2, SpiNorAssumption
    <3>4. PICK m \in S : \A k \in S : m =< k
      BY <3>3, Least
    <3>5. \E s \in fits : \A t \in fits : t =< s
      <4> HIDE DEF fits
      <4>1. PICK s \in fits : m = Units - s
        BY <3>4
      <4>2. \A t \in fits : Units - s =< Units - t
        BY <4>1, <3>4
      <4> QED BY <4>2, <3>2, SpiNorAssumption
    <3>6. n \in fits
      <4> HIDE DEF fits
      <4> QED BY <3>5
    <3> HIDE DEF n
    <3> QED BY <3>6, SpiNorAssumption DEF FitsAt
  <2> DEFINE r == u .. (u + n - 1)
  <2>2. next = [todo |-> acc.todo \ r, cmds |-> Append(acc.cmds, <<u, n>>)]
    BY <1>3 DEF EraseNext
  <2> HIDE DEF n, next, fits
  <2>3. EraseRange(u, n) = r /\ u \in r /\ r \subseteq us
    <3>1. r \subseteq Unit /\ r \subseteq us
      BY <2>1, <1>1
    <3>2. EraseRange(u, n) = r
      BY <2>1, <3>1, AlignedRange
    <3> QED BY <3>1, <3>2, <2>1, <1>1
  <2> HIDE DEF r
  <2> DEFINE cmds == Append(acc.cmds, <<u, n>>)
             L == Len(acc.cmds)
  <2>4. cmds \in Commands /\ Len(cmds) = L + 1 /\ L \in Nat
        /\ cmds[L + 1] = <<u, n>> /\ \A i \in 1 .. L : cmds[i] = acc.cmds[i]
    BY <1>1, <2>1 DEF Commands
  <2> HIDE DEF cmds, L
  <2>5. Ranges(cmds) = Ranges(acc.cmds) \cup r
    <3>1. 1 .. Len(cmds) = (1 .. L) \cup {L + 1}
      BY <2>4
    <3>2. cmds[L + 1][1] = u /\ cmds[L + 1][2] = n
      BY <2>4
    <3>3. \A x : x \in Ranges(cmds) <=> \E i \in 1 .. Len(cmds) : x \in EraseRange(cmds[i][1], cmds[i][2])
      BY DEF Ranges
    <3>4. \A x : x \in Ranges(acc.cmds) <=> \E i \in 1 .. L : x \in EraseRange(acc.cmds[i][1], acc.cmds[i][2])
      BY DEF Ranges, L
    <3> QED BY <3>1, <3>2, <3>3, <3>4, <2>3, <2>4
  <2>6. \A v \in acc.todo \ r : u + 1 =< v
    BY <1>1, <2>3
  <2>7. next \in [todo : SUBSET us, cmds : Commands] /\ next.todo = acc.todo \ r /\ next.cmds = cmds
    BY <2>2, <2>4, <1>1 DEF cmds
  <2>8. us \ acc.todo \subseteq Ranges(acc.cmds) /\ Ranges(acc.cmds) \subseteq us
    BY DEF Merged
  <2> HIDE DEF Merged
  <2>9. Merged(us, next, u + 1)
    BY <2>5, <2>6, <2>7, <2>8, <2>3 DEF Merged
  <2> QED BY <2>9 DEF next, fits
<1> QED BY <1>2, <1>3

LEMMA EraseCmdsAre ==
    ASSUME NEW us \in SUBSET Unit
    PROVE  EraseCmds(us) \in Commands /\ Ranges(EraseCmds(us)) = us
<1> DEFINE Fits(todo, u) == {s \in Sizes : u % s = 0 /\ u .. (u + s - 1) \subseteq todo}
           start == [todo |-> us, cmds |-> <<>>]
           N(acc, k) == EraseNext(acc, k - 1, Fits(acc.todo, k - 1))
           B(f, k) == IF k = 0 THEN start ELSE N(f[k - 1], k)
           G(f) == [k \in 0 .. Units |-> IF k = 0 THEN [todo |-> us, cmds |-> <<>>]
                     ELSE EraseNext(f[k - 1], k - 1, Fits(f[k - 1].todo, k - 1))]
           at == CHOOSE f : f = G(f)
<1>1. EraseCmds(us) = at[Units].cmds
  BY Zenon DEF EraseCmds
<1>2. Units \in Nat \ {0}
  BY SpiNorAssumption
<1>3. \A f : G(f) = [k \in 0 .. Units |-> B(f, k)]
  BY Zenon
<1>4. \A k, acc : N(acc, k) = EraseNext(acc, k - 1, FitsAt(acc.todo, k - 1))
  BY Zenon DEF FitsAt
<1> HIDE DEF G, N, start
<1>5. \A n \in Nat : \E f : \A k \in 0 .. n : f[k] = B(f, k)
  <2> DEFINE S == {n \in Nat : ~ \E f : \A k \in 0 .. n : f[k] = B(f, k)}
  <2>1. CASE S = {}
    BY <2>1
  <2>2. CASE S # {}
    <3>1. PICK n \in S : \A k \in S : n =< k
      BY <2>2, Least
    <3>2. n # 0
      <4>1. \A k \in 0 .. 0 : [j \in {0} |-> start][k] = B([j \in {0} |-> start], k)
        OBVIOUS
      <4>2. 0 \notin S
        BY <4>1
      <4> QED BY <4>2
    <3>3. n \in Nat /\ n - 1 \in Nat /\ n - 1 \notin S
      <4>1. n \in Nat
        OBVIOUS
      <4>2. n - 1 \in Nat /\ ~(n =< n - 1)
        BY <4>1, <3>2
      <4> HIDE DEF S
      <4> QED BY <4>1, <4>2, <3>1
    <3>4. PICK f : \A k \in 0 .. (n - 1) : f[k] = B(f, k)
      BY <3>3
    <3> DEFINE g == [k \in 0 .. n |-> IF k < n THEN f[k] ELSE B(f, n)]
    <3>5. \A k \in 0 .. (n - 1) : g[k] = f[k]
      BY <3>3
    <3>6. g[n] = B(f, n)
      BY <3>3
    <3> HIDE DEF g
    <3>7. \A k \in 0 .. n : g[k] = B(g, k)
      <4> SUFFICES ASSUME NEW k \in 0 .. n PROVE g[k] = B(g, k)
        OBVIOUS
      <4>1. CASE k = 0
        BY <4>1, <3>3, <3>4, <3>5
      <4>2. CASE k # 0
        <5>1. k - 1 \in 0 .. (n - 1)
          BY <4>2, <3>3
        <5>2. g[k - 1] = f[k - 1]
          BY <5>1, <3>5
        <5>3. CASE k = n
          BY <5>2, <5>3, <3>6, <4>2
        <5>4. CASE k # n
          BY <5>2, <5>4, <3>3, <3>4, <3>5, <4>2
        <5> QED BY <5>3, <5>4
      <4> QED BY <4>1, <4>2
    <3> QED BY <3>7, <3>1
  <2> QED BY <2>1, <2>2
<1>6. \E f : f = G(f)
  <2>1. PICK f : \A k \in 0 .. Units : f[k] = B(f, k)
    BY <1>2, <1>5
  <2> DEFINE g == [k \in 0 .. Units |-> f[k]]
  <2>2. \A k \in 0 .. Units : B(f, k) = B(g, k)
    <3> SUFFICES ASSUME NEW k \in 0 .. Units PROVE B(f, k) = B(g, k)
      OBVIOUS
    <3>1. CASE k = 0
      BY <3>1
    <3>2. CASE k # 0
      <4>1. k - 1 \in 0 .. Units
        BY <3>2, <1>2
      <4>2. f[k - 1] = g[k - 1]
        BY <4>1
      <4> QED BY <4>2
    <3> QED BY <3>1, <3>2
  <2>3. g = [k \in 0 .. Units |-> B(g, k)]
    BY <2>1, <2>2
  <2> QED BY <2>3, <1>3
<1>7. at = G(at)
  BY <1>6
<1> HIDE DEF at
<1>8. \A k \in 0 .. Units : at[k] = B(at, k)
  BY <1>7, <1>3
<1>9. \A k \in 0 .. Units : Merged(us, at[k], k)
  <2> DEFINE S == {k \in 0 .. Units : ~ Merged(us, at[k], k)}
  <2>1. CASE S = {}
    BY <2>1
  <2>2. CASE S # {}
    <3>1. PICK n \in S : \A k \in S : n =< k
      <4>1. S \in SUBSET Nat
        OBVIOUS
      <4> QED BY <4>1, <2>2, Least
    <3>2. n # 0
      <4>1. at[0] = start
        BY <1>8, <1>2
      <4>2. start \in [todo : SUBSET us, cmds : Commands] /\ start.todo = us
            /\ start.cmds = <<>>
        BY DEF start, Commands
      <4>3. Ranges(<<>>) = {}
        <5>1. 1 .. Len(<<>>) = {}
          OBVIOUS
        <5> QED BY <5>1 DEF Ranges
      <4>4. \A u \in us : 0 =< u
        BY DEF Unit
      <4>5. Merged(us, start, 0)
        BY <4>2, <4>3, <4>4 DEF Merged
      <4> QED BY <4>1, <4>5
    <3>3. n \in 0 .. Units /\ n - 1 \in Unit /\ n - 1 \in 0 .. Units
      BY <3>2, <1>2 DEF Unit
    <3>4. n - 1 \notin S
      BY <3>1, <3>3
    <3>5. Merged(us, at[n - 1], n - 1)
      BY <3>3, <3>4
    <3>6. at[n] = EraseNext(at[n - 1], n - 1, FitsAt(at[n - 1].todo, n - 1))
      BY <3>2, <3>3, <1>8, <1>4
    <3>7. Merged(us, at[n], n - 1 + 1)
      BY <3>3, <3>5, <3>6, MergeStep
    <3>8. n - 1 + 1 = n
      BY <3>3
    <3> QED BY <3>7, <3>8
  <2> QED BY <2>1, <2>2
<1>10. Merged(us, at[Units], Units)
  BY <1>9, <1>2
<1>11. at[Units].todo = {}
  <2>1. \A u \in at[Units].todo : u \in Unit /\ Units =< u
    BY <1>10 DEF Merged
  <2> QED BY <2>1, <1>2 DEF Unit
<1> QED BY <1>1, <1>10, <1>11 DEF Merged

-----------------------------------------------------------------------------
(* Units, pages and chunks *)

LEMMA ErasedIs ==
    ASSUME NEW us \in SUBSET Unit
    PROVE  /\ Len(EraseCmds(us)) \in Nat
           /\ \A k \in 0 .. Len(EraseCmds(us)) : Erased(us, k) \subseteq us
           /\ Erased(us, Len(EraseCmds(us))) = us
<1> DEFINE cmds == EraseCmds(us)
<1>1. cmds \in Commands /\ Ranges(cmds) = us
  BY EraseCmdsAre
<1>2. Len(cmds) \in Nat
  BY <1>1 DEF Commands
<1> HIDE DEF cmds
<1>3. \A k : Erased(us, k) = UNION {EraseRange(cmds[i][1], cmds[i][2]) : i \in 1 .. k}
  BY Zenon DEF Erased, cmds
<1>4. Erased(us, Len(cmds)) = us
  BY <1>1, <1>3 DEF Ranges
<1>5. ASSUME NEW k \in 0 .. Len(cmds) PROVE Erased(us, k) \subseteq us
  <2>1. 1 .. k \subseteq 1 .. Len(cmds)
    BY <1>2
  <2> QED BY <2>1, <1>1, <1>3 DEF Ranges
<1> QED BY <1>2, <1>4, <1>5 DEF cmds

LEMMA PageUnit ==
    /\ Page \subseteq Nat /\ Unit \subseteq Nat
    /\ \A p \in Page : p \div PPU \in Unit
    /\ PagesOf(Unit) = Page
<1>1. Units \in Nat /\ PPU \in Nat \ {0} /\ Units * PPU \in Nat
  BY SpiNorAssumption
<1>2. Page \subseteq Nat /\ Unit \subseteq Nat /\ \A p \in Page : p < Units * PPU
  BY <1>1 DEF Page, Unit
<1>3. ASSUME NEW p \in Page PROVE p \div PPU \in Unit
  <2>1. p \in Nat /\ p \div PPU \in Nat
    BY <1>1, <1>2, Division
  <2>2. p \div PPU < Units
    BY <1>1, <1>2, <2>1, Quotient
  <2> QED BY <2>1, <2>2, <1>1 DEF Unit
<1> QED BY <1>2, <1>3 DEF PagesOf

\* The image takes at least one unit and no more than the chip has.
LEMMA FileUnitsAre ==
    /\ FileUnits \in 1 .. Units
    /\ FilePages \in 1 .. (FileUnits * PPU)
<1> DEFINE a == FilePages + PPU - 1
           n == Units * PPU
           f == FileUnits
<1>1. Units \in Nat /\ PPU \in Nat \ {0} /\ n \in Nat /\ FilePages \in 1 .. n /\ (Units + 1) * PPU = n + PPU
  BY SpiNorAssumption
<1> HIDE DEF n
<1>2. a \in Nat /\ PPU =< a /\ a < n + PPU /\ FilePages \in Nat \ {0}
  BY <1>1
<1>3. f = a \div PPU
  BY DEF FileUnits
<1> HIDE DEF a, f
<1>4. f \in Nat
  BY <1>1, <1>2, <1>3, Division
<1>5. 1 * PPU =< a <=> 1 =< f
  BY <1>1, <1>2, <1>3, Quotient
<1>6. a < (Units + 1) * PPU <=> f < Units + 1
  <2>1. Units + 1 \in Nat
    BY <1>1
  <2> QED BY <2>1, <1>1, <1>2, <1>3, Quotient
<1>7. a < (f + 1) * PPU
  <2>1. f + 1 \in Nat
    BY <1>4
  <2>2. f < f + 1
    BY <1>4
  <2> QED BY <2>1, <2>2, <1>1, <1>2, <1>3, Quotient
<1>8. (f + 1) * PPU = f * PPU + PPU /\ f * PPU \in Nat
  BY <1>1, <1>4
<1>9. f \in 1 .. Units
  <2>1. 1 * PPU = PPU
    BY <1>1
  <2> QED BY <2>1, <1>1, <1>2, <1>4, <1>5, <1>6
<1> DEFINE m == f * PPU
<1>10. m \in Nat /\ a < m + PPU
  BY <1>7, <1>8
<1> HIDE DEF m
<1>11. FilePages \in 1 .. m
  BY <1>1, <1>2, <1>10 DEF a
<1> QED BY <1>9, <1>11 DEF f, m

\* The image lies in FileUnits units from the start.
LEMMA CoveredUnits ==
    ASSUME opts \in Options
    PROVE  /\ First \in Nat /\ opts.start \in Unit /\ opts.start \in Nat
           /\ \A p \in Covered : opts.start =< p \div PPU /\ p \div PPU < opts.start + FileUnits
           /\ Last \in Nat
           /\ opts.start + FileUnits =< Units => Last \in Page
           /\ Last \in Page => Last \in Covered
<1> DEFINE s == opts.start
           f == FileUnits
<1>1. s \in Unit /\ s \in Nat
  BY PageUnit DEF Options
<1>2. PPU \in Nat \ {0} /\ Units \in Nat /\ f \in 1 .. Units /\ FilePages \in 1 .. (f * PPU)
  BY SpiNorAssumption, FileUnitsAre
<1> HIDE DEF f
<1>3. First = s * PPU
  BY DEF First
<1> HIDE DEF s
<1>4. s * PPU \in Nat /\ f * PPU \in Nat /\ (s + f) * PPU = s * PPU + f * PPU
      /\ s + f \in Nat
  BY <1>1, <1>2
<1>5. FilePages \in Nat \ {0}
  BY <1>2, <1>4
<1> DEFINE m == (s + f) * PPU
<1>6. First \in Nat /\ First + FilePages =< m /\ m \in Nat
  BY <1>2, <1>3, <1>4
<1>7. ASSUME NEW p \in Covered PROVE s =< p \div PPU /\ p \div PPU < s + f
  <2>1. p \in Nat /\ First =< p /\ p < First + FilePages
    BY PageUnit DEF Covered
  <2>2. p < m
    <3> HIDE DEF m
    <3> QED BY <2>1, <1>5, <1>6
  <2>3. s =< p \div PPU
    BY <1>1, <1>2, <1>3, <2>1, Quotient
  <2>4. p \div PPU < s + f
    BY <1>2, <1>4, <2>1, <2>2, Quotient
  <2> QED BY <2>3, <2>4
<1>8. Last \in Nat /\ Last < m
  <2> HIDE DEF m
  <2> QED BY <1>5, <1>6 DEF Last
<1>9. ASSUME s + f =< Units PROVE Last \in Page
  <2>1. PICK e \in Nat : Units = s + f + e
    <3>1. Units - (s + f) \in Nat
      BY <1>2, <1>4, <1>9
    <3> QED BY <3>1, <1>2, <1>4
  <2>2. Units * PPU = m + e * PPU /\ e * PPU \in Nat
    BY <2>1, <1>1, <1>2
  <2> DEFINE n == Units * PPU
             d == e * PPU
  <2>3. n = m + d /\ d \in Nat
    BY <2>2
  <2> HIDE DEF n, d, m
  <2>4. Last \in 0 .. (n - 1)
    BY <2>3, <1>6, <1>8
  <2> QED BY <2>4 DEF Page, n
<1>10. ASSUME Last \in Page PROVE Last \in Covered
  BY <1>5, <1>6, <1>10 DEF Last, Covered
<1> QED BY <1>1, <1>6, <1>7, <1>8, <1>9, <1>10 DEF s, f

\* The chunk is a run of units, and the next one begins behind it.
LEMMA ChunkIs ==
    ASSUME opts \in Options, fb \in Nat, fb < FileUnits, opts.start + FileUnits =< Units
    PROVE  \E n \in Nat : /\ Cardinality(ChunkUnits) = n /\ 0 < n /\ fb + n =< FileUnits
                          /\ \A u \in Nat : u \in ChunkUnits <=> phys =< u /\ u < phys + n
<1>1. opts.start \in Nat /\ FileUnits \in Nat /\ Units \in Nat /\ Group \in Nat \ {0}
  BY CoveredUnits, FileUnitsAre, SpiNorAssumption
<1> DEFINE s == opts.start
           f == FileUnits
           n == IF Group =< f - fb THEN Group ELSE f - fb
<1>2. n \in Nat \ {0} /\ fb + n =< f /\ phys = s + fb /\ phys \in Nat
  BY <1>1 DEF phys
<1>3. ChunkUnits = phys .. (phys + n - 1)
  BY <1>1, <1>2 DEF ChunkUnits, Unit, phys
<1> HIDE DEF n
<1>4. Cardinality(ChunkUnits) = n
  <2>1. phys \in Int /\ phys + n - 1 \in Int /\ ~(phys > phys + n - 1) /\ (phys + n - 1) - phys + 1 = n
    BY <1>2
  <2> QED BY <2>1, <1>3, FS_Interval
<1>5. \A u \in Nat : u \in ChunkUnits <=> phys =< u /\ u < phys + n
  BY <1>2, <1>3
<1> QED BY <1>2, <1>4, <1>5

\* So are the units of an erase job.
LEMMA EraseSetIs ==
    ASSUME opts \in Options, fb \in Nat, opts.start + fb =< Units, kind = "erase"
    PROVE  /\ EraseSet \in SUBSET Unit
           /\ Cardinality(EraseSet) \in Nat
           /\ opts.start + fb + Cardinality(EraseSet) =< Units
           /\ \A u \in EraseSet : opts.start =< u
<1>1. opts.start \in Nat /\ Units \in Nat /\ Group \in Nat \ {0}
  BY CoveredUnits, SpiNorAssumption
<1> DEFINE s == opts.start
           n == IF Group =< Units - (s + fb) THEN Group ELSE Units - (s + fb)
<1>2. n \in Nat /\ s + fb + n =< Units /\ phys = s + fb /\ phys \in Nat
  BY <1>1 DEF phys
<1>3. EraseSet = {u \in Unit : phys =< u /\ u < phys + Group}
  BY DEF EraseSet
<1>4. EraseSet = phys .. (phys + n - 1)
  BY <1>1, <1>2, <1>3 DEF Unit
<1>5. Cardinality(EraseSet) = n
  <2> HIDE DEF n
  <2>1. phys \in Int /\ phys + n - 1 \in Int /\ (phys > phys + n - 1 <=> n = 0) /\ (phys + n - 1) - phys + 1 = n
    BY <1>2
  <2> QED BY <2>1, <1>2, <1>4, FS_Interval
<1>6. \A u \in EraseSet : s =< u
  BY <1>1, <1>2, <1>3, PageUnit
<1>7. EraseSet \in SUBSET Unit
  BY <1>3
<1> HIDE DEF n
<1> QED BY <1>2, <1>5, <1>6, <1>7

-----------------------------------------------------------------------------
(* What pages hold *)

LEMMA ContentsAre ==
    /\ Blank \in Whole /\ Junk \in Whole /\ Whole \subseteq Contents
    /\ \A p \in Page : Old(p) \in Whole
    /\ \A i \in 1 .. FilePages : Img(i) \in Whole
    /\ \A c \in Whole : Mixed(FilePages, c) \in Contents
    /\ \A c \in Contents : TailOf(c) \in Whole
<1>1. \A c \in Whole : TailOf(c) = c
  BY DEF Whole, TailOf, Blank, Junk, Old, Img
<1>2. \A c \in Whole : TailOf(Mixed(FilePages, c)) = c
  BY DEF TailOf, Mixed
<1> QED BY <1>1, <1>2 DEF Whole, Contents

LEMMA PagesHold ==
    ASSUME TypeOK, fill \in Whole
    PROVE  /\ \A i \in 1 .. FilePages : ImagePage(i) \in Contents
           /\ \A p \in Page : Want(p) \in Contents
           /\ \A p \in Page : Sees(p) \in Contents
           /\ \A p \in Page : And(cells[p], Want(p)) \in Contents
           /\ \A us : EraseUnits(us) \in [Page -> Contents]
           /\ \A ps : Programmed(ps) \in [Page -> Contents]
<1>1. cells \in [Page -> Contents] /\ kept \in [Page -> Contents] /\ opts \in Options
  BY DEF TypeOK
<1>2. \A i \in 1 .. FilePages : ImagePage(i) \in Contents
  BY ContentsAre DEF ImagePage
<1>3. ASSUME NEW p \in Page PROVE Want(p) \in Contents
  <2>1. CASE p \in Covered
    <3>1. p - First + 1 \in 1 .. FilePages
      <4>1. p \in Nat /\ First \in Nat /\ First =< p /\ p < First + FilePages /\ FilePages \in Nat
        BY <2>1, <1>1, CoveredUnits, PageUnit, SpiNorAssumption, FileUnitsAre DEF Covered
      <4> QED BY <4>1
    <3> QED BY <2>1, <3>1, <1>2 DEF Want
  <2>2. CASE p \notin Covered
    BY <2>2, <1>1 DEF Want
  <2> QED BY <2>1, <2>2
<1>4. \A p \in Page : Sees(p) \in Contents
  BY <1>1, ContentsAre DEF Sees
<1>5. \A p \in Page : And(cells[p], Want(p)) \in Contents
  BY <1>1, <1>3, ContentsAre DEF And
<1>6. \A us : EraseUnits(us) \in [Page -> Contents]
  BY <1>1, ContentsAre DEF EraseUnits
<1>7. \A ps : Programmed(ps) \in [Page -> Contents]
  BY <1>1, <1>5, ContentsAre DEF Programmed
<1> QED BY <1>2, <1>3, <1>4, <1>5, <1>6, <1>7

\* In the body of an operation that is not astray, the driver sees the cells.
LEMMA SeesCells ==
    ASSUME TypeOK, AddrInv, QeInv, op \in Addressed, stage = "body", ~astray
    PROVE  ~Astray /\ \A p : Sees(p) = cells[p]
<1>1. mode4 = four
  BY DEF AddrInv, TypeOK
<1>2. bus = "quad" => qe
  BY DEF QeInv
<1> QED BY <1>1, <1>2 DEF Astray, Sees

\* What the driver writes is what the pages should hold in the end.
LEMMA WantFinal ==
    ASSUME TypeOK, TailRead, PagesRead
    PROVE  /\ \A p \in Covered : Want(p) = Final(p)
           /\ opts.doErase => \A p \in Chunk : Want(p) = Final(p)
           /\ \A p \in Page \ Covered : Final(p) = before[p]
<1>1. First \in Nat /\ Last \in Nat /\ Last = First + FilePages - 1 /\ FilePages \in Nat
  BY CoveredUnits, FileUnitsAre, SpiNorAssumption DEF Last, TypeOK
<1>2. ASSUME NEW p \in Covered PROVE Want(p) = Final(p)
  <2>1. p \in Nat /\ Want(p) = ImagePage(p - First + 1)
    BY PageUnit DEF Want, Covered
  <2>2. p - First + 1 = FilePages <=> p = Last
    BY <2>1, <1>1
  <2>3. CASE p = Last /\ opts.tail
    <3>1. ImagePage(p - First + 1) = Mixed(FilePages, fill)
      BY <2>2, <2>3 DEF ImagePage
    <3>2. fill = IF opts.doErase THEN TailOf(before[p]) ELSE Blank
      BY <2>3 DEF TailRead
    <3> QED BY <2>1, <2>3, <3>1, <3>2 DEF Final
  <2>4. CASE ~(p = Last /\ opts.tail)
    BY <2>1, <2>4 DEF Final
  <2> QED BY <2>3, <2>4
<1>3. \A p \in Page \ Covered : Final(p) = before[p]
  BY DEF Final
<1>4. ASSUME opts.doErase, NEW p \in Chunk, p \notin Covered PROVE Want(p) = Final(p)
  <2>1. p \in TailPages /\ p \in Page
    BY <1>4 DEF Chunk, TailPages, PagesOf
  <2> QED BY <2>1, <1>3, <1>4 DEF Want, PagesRead
<1> QED BY <1>2, <1>3, <1>4

\* The pages of the chunk.
LEMMA ChunkPages ==
    /\ \A p \in Page : InChunk(p) <=> p \in PagesOf(ChunkUnits)
    /\ Chunk \subseteq Page
    /\ \A p \in Chunk : InChunk(p)
    /\ opts.doErase => \A p \in Page : InChunk(p) => p \in Chunk
    /\ ~opts.doErase => Chunk \subseteq Covered
    /\ ~opts.doErase => \A p \in Covered : InChunk(p) => p \in Chunk
    /\ \A p \in TailPages : p \in Page /\ InChunk(p)
    /\ \A p \in Page : InChunk(p) => phys =< p \div PPU
    /\ PagesOf({phys}) \subseteq Page
BY DEF InChunk, PagesOf, Chunk, Covered, TailPages, ChunkUnits

-----------------------------------------------------------------------------
(* What stays the same *)

LEMMA SameImage ==
    ASSUME UNCHANGED opts
    PROVE  First' = First /\ Covered' = Covered /\ Last' = Last
BY DEF First, Covered, Last

LEMMA SameChunk ==
    ASSUME UNCHANGED <<opts, fb>>
    PROVE  /\ phys' = phys /\ ChunkUnits' = ChunkUnits /\ Chunk' = Chunk
           /\ TailPages' = TailPages
           /\ \A p : InChunk(p)' = InChunk(p)
BY DEF phys, ChunkUnits, Chunk, TailPages, First, Covered, InChunk

LEMMA SameFinal ==
    ASSUME UNCHANGED <<opts, fill, before>>
    PROVE  /\ \A i : ImagePage(i)' = ImagePage(i)
           /\ \A p : Final(p)' = Final(p)
           /\ TailRead' = TailRead
BY DEF ImagePage, Final, First, Covered, Last, TailRead

LEMMA SameWant ==
    ASSUME UNCHANGED <<opts, fill>>
    PROVE  /\ \A p \in Covered : Want(p)' = Want(p)
           /\ UNCHANGED kept => \A p : Want(p)' = Want(p)
BY DEF Want, ImagePage, First, Covered

\* Nothing said about the pages changes while these stay.
dataVars == <<cells, before, opts, fb, fill, kept, left, got>>

LEMMA SameData ==
    ASSUME UNCHANGED dataVars
    PROVE  /\ Chunk' = Chunk /\ phys' = phys /\ First' = First /\ Last' = Last
           /\ ReadBack' = ReadBack /\ UnitMatches' = UnitMatches
           /\ MatchesBehind' = MatchesBehind /\ Matches' = Matches
           /\ TailRead' = TailRead /\ PagesRead' = PagesRead
           /\ Behind' = Behind /\ Ahead' = Ahead /\ Uncovered' = Uncovered
           /\ Fresh' = Fresh /\ Wiped' = Wiped /\ Partly' = Partly
           /\ Written' = Written /\ Exact' = Exact
           /\ UNCHANGED kind => OthersKept' = OthersKept
<1>1. UNCHANGED <<cells, before, opts, fb, fill, kept, left, got>>
  BY DEF dataVars
<1>2. /\ First' = First /\ Covered' = Covered /\ Last' = Last
      /\ phys' = phys /\ ChunkUnits' = ChunkUnits /\ Chunk' = Chunk /\ TailPages' = TailPages
      /\ \A p : InChunk(p)' = InChunk(p)
      /\ \A i : ImagePage(i)' = ImagePage(i)
      /\ \A p : Final(p)' = Final(p)
      /\ \A p : Want(p)' = Want(p)
      /\ TailRead' = TailRead
  BY <1>1, SameImage, SameChunk, SameFinal, SameWant
<1>3. ReadBack' = ReadBack /\ UnitMatches' = UnitMatches
      /\ MatchesBehind' = MatchesBehind /\ Matches' = Matches
  BY <1>1, <1>2 DEF ReadBack, UnitMatches, MatchesBehind, Matches
<1>4. PagesRead' = PagesRead /\ Behind' = Behind /\ Ahead' = Ahead /\ Uncovered' = Uncovered
  BY <1>1, <1>2 DEF PagesRead, Behind, Ahead, Uncovered
<1>5. Fresh' = Fresh /\ Wiped' = Wiped /\ Partly' = Partly
      /\ Written' = Written /\ Exact' = Exact
  BY <1>1, <1>2 DEF Fresh, Wiped, Partly, Written, Exact
<1>6. UNCHANGED kind => OthersKept' = OthersKept
  BY <1>1 DEF OthersKept, JobUnits
<1> QED BY <1>1, <1>2, <1>3, <1>4, <1>5, <1>6

\* What a step does to where the job is.
LEMMA GotoIs ==
    ASSUME NEW o, Goto(o)
    PROVE  /\ op' = o
           /\ o \in {"idle", "loop", "begin", "chip", "end"} => stage' = "body"
           /\ o \notin {"idle", "loop", "begin", "chip", "end"} => stage' = "enter4"
BY DEF Goto

LEMMA LeaveIs ==
    ASSUME NEW how, Leave(how)
    PROVE  /\ outcome' = how /\ stage' = "body" /\ op' \in {"end", "idle"}
           /\ op \in {"loop", "merge", "erase", "chip", "program", "verify"} =>
                op' = (IF kind \in {"write", "erase"} THEN "end" ELSE "idle")
           /\ op \notin {"loop", "merge", "erase", "chip", "program", "verify"} => op' = "idle"
BY DEF Leave, Goto

-----------------------------------------------------------------------------
(* A detection, the doctor, the ends of a write and the way to the body *)

LEMMA DetectKeeps == IndInv /\ Detect => IndInv'
<1> SUFFICES ASSUME IndInv, Detect PROVE IndInv'
  OBVIOUS
<1>1. /\ op = "idle" /\ jobs < MaxJobs /\ jobs' = jobs + 1
      /\ mode4' \in {mode4, FALSE} /\ four' = FALSE /\ restore' = FALSE /\ bus' = "plain"
      /\ astray' = FALSE /\ outcome' = "none" /\ before' = cells
      /\ UNCHANGED <<cells, prot, qe, op, stage, kind, opts, fb, fill, kept, left, got, qe0, qeMoved>>
  BY DEF Detect, posVars
<1>2. /\ TypeOK /\ StageInv /\ PlaceInv /\ AddrInv /\ QeInv
  BY DEF IndInv
<1>3. TypeOK'
  <2>1. mode4' \in BOOLEAN /\ four' \in BOOLEAN /\ restore' \in BOOLEAN /\ astray' \in BOOLEAN
    BY <1>1, <1>2, Zenon DEF TypeOK
  <2>2. jobs' \in 0 .. MaxJobs
    BY <1>1, <1>2, SpiNorAssumption DEF TypeOK
  <2>3. bus' \in {"plain", "quad"} /\ outcome' \in {"none", "ok", "failed", "cancelled", "error"}
    BY <1>1
  <2> QED BY <1>1, <1>2, <2>1, <2>2, <2>3, Zenon DEF TypeOK
<1>4. StageInv' /\ AddrInv' /\ QeInv'
  <2>1. StageInv'
    BY <1>1, <1>2 DEF StageInv
  <2>2. mode4' => mode4
    BY <1>1, Zenon
  <2>3. AddrInv'
    BY <1>1, <1>2, <2>2 DEF AddrInv, Addressed, reads
  <2>4. ~restore
    BY <1>1, <1>2 DEF QeInv, Addressed, reads
  <2>5. QeInv'
    BY <1>1, <1>2, <2>4 DEF QeInv, Addressed, reads
  <2> QED BY <2>1, <2>3, <2>5
<1>5. PlaceInv'
  BY <1>1, <1>2, SameChunk, SameImage DEF PlaceInv, Writing
<1>6. OthersKeptInStep'
  BY <1>1 DEF OthersKeptInStep, OthersKept
<1>7. ReadInv' /\ KeptInv' /\ WriteInv'
  BY <1>1 DEF ReadInv, KeptInv, WriteInv, Over, Ended, Writing
<1> QED BY <1>3, <1>4, <1>5, <1>6, <1>7 DEF IndInv

LEMMA DoctorKeeps == IndInv /\ Doctor => IndInv'
<1> SUFFICES ASSUME IndInv, Doctor PROVE IndInv'
  OBVIOUS
<1>1. /\ op = "idle" /\ mode4 /\ mode4' = FALSE /\ astray' = four /\ outcome' = "none"
      /\ UNCHANGED <<cells, prot, qe, four, restore, bus, op, stage, jobs, kind, opts, before, qe0, qeMoved>>
      /\ UNCHANGED <<fb, fill, kept, left, got>>
  BY DEF Doctor, driverVars, jobVars, posVars
<1>2. TypeOK /\ StageInv /\ PlaceInv /\ AddrInv /\ QeInv /\ OthersKeptInStep
  BY DEF IndInv
<1>3. TypeOK'
  BY <1>1, <1>2 DEF TypeOK
<1>4. StageInv' /\ AddrInv' /\ QeInv'
  BY <1>1, <1>2 DEF StageInv, AddrInv, QeInv, Addressed, reads, TypeOK, Working
<1>5. PlaceInv'
  BY <1>1, <1>2, SameChunk, SameImage DEF PlaceInv, Writing
<1>6. OthersKeptInStep'
  <2>1. OthersKept' = OthersKept
    BY <1>1, SameData DEF dataVars
  <2> QED BY <2>1, <1>1, <1>2 DEF OthersKeptInStep, AddrInv, TypeOK
<1>7. ReadInv' /\ KeptInv' /\ WriteInv'
  BY <1>1 DEF ReadInv, KeptInv, WriteInv, Over, Ended, Writing
<1> QED BY <1>3, <1>4, <1>5, <1>6, <1>7 DEF IndInv

LEMMA BeginKeeps == IndInv /\ Begin => IndInv'
<1> SUFFICES ASSUME IndInv, Begin PROVE IndInv'
  OBVIOUS
<1>1. /\ op = "begin"
      /\ UNCHANGED <<cells, mode4, four, restore, bus, jobs, kind, opts, before, qe0, astray>>
      /\ UNCHANGED <<fb, fill, kept, left, got>>
  BY DEF Begin, driverVars, jobVars, posVars
<1>2. \/ /\ op' = "idle" /\ outcome' = "error" /\ stage' = "body"
         /\ UNCHANGED <<prot, qe, qeMoved>>
      \/ /\ op' = "loop" /\ stage' = "body" /\ UNCHANGED outcome
         /\ kind = "write" => opts.start + FileUnits =< Units
         /\ prot' = FALSE
         /\ qe' = (qe /\ ~(prot /\ QeReg = 1))
         /\ qeMoved' = (qeMoved \/ qe # qe')
  BY <1>1, LeaveIs DEF Begin, Done, Goto
<1>3. TypeOK /\ StageInv /\ PlaceInv /\ AddrInv /\ QeInv /\ OthersKeptInStep /\ KeptInv /\ WriteInv
  BY DEF IndInv
<1>4. /\ Chunk' = Chunk /\ phys' = phys /\ First' = First /\ Last' = Last
      /\ TailRead' = TailRead /\ Behind' = Behind /\ Ahead' = Ahead /\ Uncovered' = Uncovered
      /\ Fresh' = Fresh /\ OthersKept' = OthersKept /\ MatchesBehind' = MatchesBehind
  BY <1>1, SameData DEF dataVars
<1>5. TypeOK'
  <2>1. op' \in {"idle", "loop"} /\ stage' = "body" /\ outcome' \in {outcome, "error"}
        /\ prot' \in BOOLEAN /\ qe' \in BOOLEAN /\ qeMoved' \in BOOLEAN
    BY <1>2, <1>3 DEF TypeOK
  <2> QED BY <1>1, <1>3, <2>1 DEF TypeOK
<1>6. StageInv' /\ AddrInv'
  BY <1>1, <1>2, <1>3 DEF StageInv, AddrInv, Addressed, reads
<1>7. QeInv'
  BY <1>1, <1>2, <1>3 DEF QeInv, Addressed, reads, TypeOK
<1>8. PlaceInv'
  BY <1>1, <1>2, <1>3, <1>4 DEF PlaceInv, Writing
<1>9. OthersKeptInStep'
  BY <1>1, <1>3, <1>4 DEF OthersKeptInStep
<1>10. ReadInv'
  BY <1>1, <1>2, <1>3 DEF ReadInv, StageInv, Over, Ended
<1>11. KeptInv'
  <2>1. ASSUME op' = "loop", kind = "write" PROVE Last \in Page
    BY <2>1, <1>2, <1>3, CoveredUnits DEF TypeOK
  <2> QED BY <2>1, <1>1, <1>2, <1>3, <1>4 DEF KeptInv, Over, Writing
<1>12. WriteInv'
  <2>1. ASSUME kind = "write", ~astray, op' = "loop" PROVE Behind /\ Ahead /\ Uncovered /\ Fresh
    <3>1. cells = before
      BY <2>1, <1>1, <1>3 DEF WriteInv
    <3>2. Ahead /\ Uncovered /\ Fresh
      BY <3>1 DEF Ahead, Uncovered, Fresh
    <3>3. phys = opts.start /\ opts.start \in Nat
      BY <1>1, <1>3, CoveredUnits DEF PlaceInv, phys, TypeOK
    <3>4. \A p \in Page : p \div PPU \in Nat /\ (p \div PPU < phys => p \notin Covered)
      <4>1. \A p \in Page : p \div PPU \in Nat
        BY PageUnit
      <4>2. \A p \in Covered : opts.start =< p \div PPU
        BY <1>3, CoveredUnits DEF TypeOK
      <4> QED BY <3>3, <4>1, <4>2
    <3>5. Behind
      BY <3>1, <3>4 DEF Behind, Final
    <3> QED BY <3>2, <3>5
  <2> QED BY <2>1, <1>1, <1>2, <1>3, <1>4 DEF WriteInv, Over, Ended, Writing
<1> QED BY <1>5, <1>6, <1>7, <1>8, <1>9, <1>10, <1>11, <1>12 DEF IndInv

LEMMA EnterKeeps == IndInv /\ Enter4 => IndInv'
<1> SUFFICES ASSUME IndInv, Enter4 PROVE IndInv'
  OBVIOUS
<1>1. /\ stage = "enter4"
      /\ UNCHANGED <<cells, prot, qe, restore, bus, jobs, kind, opts, before, qe0, qeMoved, astray>>
      /\ UNCHANGED <<fb, fill, kept, left, got>>
  BY DEF Enter4, jobVars, posVars, histVars
<1>2. TypeOK /\ StageInv /\ PlaceInv /\ AddrInv /\ QeInv /\ OthersKeptInStep /\ ReadInv /\ KeptInv /\ WriteInv
  BY DEF IndInv
<1>3. op \in Addressed
  BY <1>1, <1>2 DEF StageInv
<1>4. \/ /\ stage' = "qe" /\ UNCHANGED <<op, outcome>>
         /\ mode4' = (mode4 \/ (Big /\ ~four))
         /\ four' = (four \/ Big)
      \/ /\ stage' = "body" /\ outcome' = "error"
         /\ op' = (IF op \in {"merge", "erase", "program", "verify"} /\ kind \in {"write", "erase"}
                   THEN "end" ELSE "idle")
         /\ Big /\ ~four /\ UNCHANGED four /\ mode4' \in {mode4, TRUE}
  BY <1>1, <1>3, LeaveIs DEF Enter4, Addressed, reads
<1>5. /\ Chunk' = Chunk /\ phys' = phys /\ First' = First /\ Last' = Last
      /\ TailRead' = TailRead /\ PagesRead' = PagesRead
      /\ Behind' = Behind /\ Ahead' = Ahead /\ Uncovered' = Uncovered
      /\ Fresh' = Fresh /\ OthersKept' = OthersKept /\ MatchesBehind' = MatchesBehind
      /\ Partly' = Partly /\ Written' = Written
  BY <1>1, SameData DEF dataVars
<1>6. TypeOK'
  <2>1. mode4' \in BOOLEAN /\ four' \in BOOLEAN
    BY <1>2, <1>4, Zenon DEF TypeOK
  <2>2. /\ op' \in {op, "idle", "end"} /\ stage' \in {"qe", "body"}
        /\ outcome' \in {outcome, "error"}
    BY <1>4
  <2> QED BY <1>1, <1>2, <2>1, <2>2 DEF TypeOK
<1>7. StageInv'
  BY <1>1, <1>2, <1>4 DEF StageInv
<1>8. PlaceInv'
  BY <1>1, <1>2, <1>4, <1>5 DEF PlaceInv, Writing
<1>9. AddrInv'
  <2>1. CASE UNCHANGED op
    <3>1. four' = (four \/ Big) /\ mode4' = (mode4 \/ (Big /\ ~four))
      BY <1>3, <1>4, <2>1 DEF Addressed, reads
    <3>2. four \in BOOLEAN /\ mode4 \in BOOLEAN /\ astray \in BOOLEAN /\ Big \in BOOLEAN
      BY <1>2, SpiNorAssumption DEF TypeOK
    <3>3. op # "idle"
      BY <1>3 DEF Addressed, reads
    <3> QED BY <1>1, <1>2, <2>1, <3>1, <3>2, <3>3 DEF AddrInv
  <2>2. CASE op' \in {"idle", "end"} /\ ~four /\ four' = four /\ Big
    BY <1>1, <1>2, <1>3, <2>2 DEF AddrInv, Addressed, reads
  <2> QED BY <2>1, <2>2, <1>4
<1>10. QeInv'
  BY <1>1, <1>2, <1>4 DEF QeInv, Addressed, reads, TypeOK, Working
<1>11. OthersKeptInStep'
  BY <1>1, <1>2, <1>5 DEF OthersKeptInStep
<1>12. ReadInv'
  BY <1>1, <1>2, <1>3, <1>4, <1>5 DEF ReadInv, Over, Ended, Addressed, reads
<1>13. KeptInv'
  BY <1>1, <1>2, <1>4, <1>5 DEF KeptInv, Over, Writing
<1>14. WriteInv'
  BY <1>1, <1>2, <1>3, <1>4, <1>5 DEF WriteInv, Over, Ended, Writing, Addressed, reads
<1> QED BY <1>6, <1>7, <1>8, <1>9, <1>10, <1>11, <1>12, <1>13, <1>14 DEF IndInv

LEMMA QuadBeginKeeps == IndInv /\ QuadBegin => IndInv'
<1> SUFFICES ASSUME IndInv, QuadBegin PROVE IndInv'
  OBVIOUS
<1>1. /\ stage = "qe"
      /\ UNCHANGED <<cells, prot, mode4, four, jobs, kind, opts, before, qe0, astray>>
      /\ UNCHANGED <<fb, fill, kept, left, got>>
  BY DEF QuadBegin, jobVars, posVars
<1>2. TypeOK /\ StageInv /\ PlaceInv /\ AddrInv /\ QeInv /\ OthersKeptInStep /\ ReadInv /\ KeptInv /\ WriteInv
  BY DEF IndInv
<1>3. op \in Addressed /\ bus # "quad" /\ ~restore /\ (~qeMoved => qe = qe0)
  BY <1>1, <1>2 DEF StageInv, QeInv, Working
<1>4. \/ /\ stage' = "body" /\ UNCHANGED <<op, outcome, qeMoved>>
         /\ \/ /\ ~(op = "program" /\ opts.quadWrite)
               /\ bus' = "plain" /\ UNCHANGED <<qe, restore>>
            \/ /\ qe /\ bus' = "quad" /\ UNCHANGED <<qe, restore>>
            \/ /\ ~qe /\ bus' = "quad" /\ qe' = TRUE /\ restore' = TRUE
      \/ /\ stage' = "body" /\ outcome' = "error" /\ UNCHANGED <<restore, bus>>
         /\ op' = (IF op \in {"merge", "erase", "program", "verify"} /\ kind \in {"write", "erase"}
                   THEN "end" ELSE "idle")
         /\ \/ UNCHANGED <<qe, qeMoved>>
            \/ qe' \in BOOLEAN /\ qeMoved' = TRUE
  <2>1. \A how : Leave(how) =>
          /\ stage' = "body" /\ outcome' = how
          /\ op' = (IF op \in {"merge", "erase", "program", "verify"} /\ kind \in {"write", "erase"}
                    THEN "end" ELSE "idle")
    BY <1>3, LeaveIs DEF Addressed, reads
  <2> HIDE DEF Leave
  <2> QED BY <2>1 DEF QuadBegin
<1>5. /\ Chunk' = Chunk /\ phys' = phys /\ First' = First /\ Last' = Last
      /\ TailRead' = TailRead /\ PagesRead' = PagesRead
      /\ Behind' = Behind /\ Ahead' = Ahead /\ Uncovered' = Uncovered
      /\ Fresh' = Fresh /\ OthersKept' = OthersKept /\ MatchesBehind' = MatchesBehind
      /\ Partly' = Partly /\ Written' = Written
  BY <1>1, SameData DEF dataVars
<1>6. TypeOK'
  <2>1. qe' \in BOOLEAN /\ restore' \in BOOLEAN /\ qeMoved' \in BOOLEAN
    BY <1>2, <1>4, Zenon DEF TypeOK
  <2>2. /\ op' \in {op, "idle", "end"} /\ stage' = "body"
        /\ outcome' \in {outcome, "error"} /\ bus' \in {bus, "plain", "quad"}
    BY <1>4
  <2> QED BY <1>1, <1>2, <2>1, <2>2 DEF TypeOK
<1>7. StageInv'
  BY <1>1, <1>2, <1>4 DEF StageInv
<1>8. PlaceInv'
  BY <1>1, <1>2, <1>4, <1>5 DEF PlaceInv, Writing
<1>9. AddrInv'
  BY <1>1, <1>2, <1>3, <1>4 DEF AddrInv, Addressed, reads
<1>10. QeInv'
  <2>1. CASE UNCHANGED op /\ stage' = "body"
    BY <1>1, <1>2, <1>3, <1>4, <2>1 DEF QeInv, TypeOK, Addressed, reads, Working
  <2>2. CASE op' \in {"idle", "end"} /\ bus' = bus /\ restore' = restore
    BY <1>1, <1>2, <1>3, <1>4, <2>2 DEF QeInv, TypeOK
  <2> QED BY <2>1, <2>2, <1>4
<1>11. OthersKeptInStep'
  BY <1>1, <1>2, <1>5 DEF OthersKeptInStep
<1>12. ReadInv'
  BY <1>1, <1>2, <1>3, <1>4, <1>5 DEF ReadInv, Over, Ended, Addressed, reads
<1>13. KeptInv'
  BY <1>1, <1>2, <1>4, <1>5 DEF KeptInv, Over, Writing
<1>14. WriteInv'
  BY <1>1, <1>2, <1>3, <1>4, <1>5 DEF WriteInv, Over, Ended, Writing, Addressed, reads
<1> QED BY <1>6, <1>7, <1>8, <1>9, <1>10, <1>11, <1>12, <1>13, <1>14 DEF IndInv

LEMMA EndKeeps == IndInv /\ End => IndInv'
<1> SUFFICES ASSUME IndInv, End PROVE IndInv'
  OBVIOUS
<1>1. /\ op = "end" /\ op' = "idle" /\ stage' = "body"
      /\ UNCHANGED <<cells, prot, qe, restore, bus, jobs, kind, opts, before, qe0, qeMoved>>
      /\ UNCHANGED <<fb, fill, kept, left, got>>
  BY DEF End, jobVars, posVars, Goto
<1>2. \/ /\ mode4' \in BOOLEAN /\ four' = FALSE /\ UNCHANGED <<outcome, astray>>
         /\ mode4' => mode4
      \/ /\ four /\ UNCHANGED four /\ outcome' = "error"
         /\ mode4' \in BOOLEAN /\ astray' = (astray \/ ~mode4')
         /\ mode4' => mode4
  <2>1. mode4 \in BOOLEAN
    BY DEF IndInv, TypeOK
  <2> QED BY <2>1, Zenon DEF End
<1>3. TypeOK /\ StageInv /\ PlaceInv /\ AddrInv /\ QeInv /\ OthersKeptInStep /\ ReadInv /\ KeptInv /\ WriteInv
  BY DEF IndInv
<1>4. /\ Chunk' = Chunk /\ phys' = phys /\ First' = First /\ Last' = Last
      /\ OthersKept' = OthersKept /\ Exact' = Exact
  BY <1>1, SameData DEF dataVars
<1>5. TypeOK'
  <2>1. mode4' \in BOOLEAN /\ four' \in BOOLEAN /\ astray' \in BOOLEAN
        /\ outcome' \in {outcome, "error"}
    BY <1>2, <1>3 DEF TypeOK
  <2> QED BY <1>1, <1>3, <2>1 DEF TypeOK
<1>6. StageInv'
  BY <1>1, <1>2, <1>3 DEF StageInv
<1>7. PlaceInv'
  BY <1>1, <1>3, <1>4 DEF PlaceInv, Writing
<1>8. AddrInv'
  BY <1>1, <1>2, <1>3 DEF AddrInv, TypeOK, Addressed, reads
<1>9. QeInv'
  BY <1>1, <1>3 DEF QeInv, Addressed, reads, Working
<1>10. OthersKeptInStep'
  BY <1>2, <1>3, <1>4 DEF OthersKeptInStep
<1>11. ReadInv'
  BY <1>1, <1>2, <1>3 DEF ReadInv, Over, Ended, StageInv
<1>12. KeptInv'
  BY <1>1, <1>2, <1>3 DEF KeptInv, Over, Writing
<1>13. WriteInv'
  BY <1>1, <1>2, <1>3, <1>4 DEF WriteInv, Over, Ended, Writing
<1> QED BY <1>5, <1>6, <1>7, <1>8, <1>9, <1>10, <1>11, <1>12, <1>13 DEF IndInv

-----------------------------------------------------------------------------
(* The bodies of the operations *)

LEMMA BodyKeeps ==
    ASSUME TypeOK, StageInv, AddrInv, QeInv, op \in Addressed, stage = "body", stage' = "qeoff",
           outcome' # "ok", UNCHANGED <<op, kind, opts, qe, mode4, four, restore, bus, qe0, qeMoved, astray>>
    PROVE  StageInv' /\ AddrInv' /\ QeInv'
<1>1. StageInv'
  BY DEF StageInv, Addressed, reads
<1>2. AddrInv'
  BY DEF AddrInv, Addressed, reads
<1>3. QeInv'
  BY DEF QeInv, Addressed, reads, Working
<1> QED BY <1>1, <1>2, <1>3

LEMMA ReadKeeps == IndInv /\ ReadBody => IndInv'
<1> SUFFICES ASSUME IndInv, ReadBody PROVE IndInv'
  OBVIOUS
<1>1. /\ op \in {"fill", "merge", "read"} /\ stage = "body" /\ stage' = "qeoff"
      /\ outcome' \in {"none", "error", "cancelled"}
      /\ UNCHANGED <<op, cells, prot, qe, mode4, four, restore, bus, jobs, kind, opts, fb, left,
                     before, qe0, qeMoved, astray>>
      /\ fill' = (IF op = "fill" THEN TailOf(Sees(First + FilePages - 1)) ELSE fill)
      /\ kept' = (IF op = "merge" THEN [p \in Page |-> IF p \in TailPages THEN Sees(p) ELSE Blank]
                  ELSE kept)
      /\ got' = (IF op = "read" THEN [p \in {q \in Page : First =< q} |-> Sees(p)] ELSE got)
  BY DEF ReadBody, Body, driverVars, jobVars
<1>2. TypeOK /\ StageInv /\ PlaceInv /\ AddrInv /\ QeInv /\ OthersKeptInStep /\ ReadInv /\ KeptInv /\ WriteInv
  BY DEF IndInv
<1>3. op \in Addressed
  BY <1>1 DEF Addressed, reads
<1>4. ~astray => \A p : Sees(p) = cells[p]
  BY <1>1, <1>2, <1>3, SeesCells
<1>5. /\ First' = First /\ Covered' = Covered /\ Last' = Last /\ phys' = phys /\ Chunk' = Chunk
      /\ TailPages' = TailPages /\ \A p : InChunk(p)' = InChunk(p)
  BY <1>1, SameImage, SameChunk
<1>6. fill' \in Whole /\ kept' \in [Page -> Contents]
  <2>1. \A p \in Page : Sees(p) \in Contents
    BY <1>2, PagesHold DEF PlaceInv
  <2>2. ASSUME op = "fill" PROVE fill' \in Whole
    <3>1. First + FilePages - 1 \in Page
      BY <1>2, <2>2 DEF PlaceInv
    <3>2. Sees(First + FilePages - 1) \in Contents
      BY <2>1, <3>1
    <3>3. fill' = TailOf(Sees(First + FilePages - 1))
      BY <1>1, <2>2
    <3> QED BY <3>2, <3>3, ContentsAre
  <2>3. op # "fill" => fill' \in Whole
    BY <1>1, <1>2 DEF PlaceInv
  <2>4. kept' \in [Page -> Contents]
    BY <1>1, <1>2, <2>1, ContentsAre DEF TypeOK
  <2> QED BY <2>2, <2>3, <2>4
<1>7. TypeOK'
  BY <1>1, <1>2, <1>6, ContentsAre DEF TypeOK
<1>8. StageInv' /\ AddrInv' /\ QeInv'
  BY <1>1, <1>2, <1>3, BodyKeeps
<1>9. PlaceInv'
  BY <1>1, <1>2, <1>5, <1>6 DEF PlaceInv, Writing
<1>10. OthersKeptInStep'
  <2>1. OthersKept' = OthersKept
    BY <1>1 DEF OthersKept, JobUnits
  <2> QED BY <1>1, <1>2, <2>1 DEF OthersKeptInStep
<1>11. ReadInv'
  <2>1. ASSUME ~astray, op = "read" PROVE ReadBack'
    BY <1>1, <1>4, <1>5, <2>1 DEF ReadBack
  <2> QED BY <1>1, <1>2, <2>1 DEF ReadInv, StageInv, Over, Ended
<1>12. KeptInv'
  <2>1. ASSUME ~astray, kind = "write", op = "fill" PROVE TailRead'
    <3>1. opts.tail /\ opts.doErase /\ cells = before
      BY <1>2, <2>1 DEF PlaceInv, WriteInv
    <3>2. fill' = TailOf(before[Last])
      BY <1>1, <1>4, <2>1, <3>1 DEF Last
    <3> QED BY <1>1, <1>5, <3>1, <3>2 DEF TailRead
  <2>2. ASSUME ~astray, kind = "write", op = "merge" PROVE TailRead' /\ PagesRead'
    <3>1. TailRead /\ Fresh
      BY <1>2, <2>2 DEF KeptInv, WriteInv, Writing
    <3>2. TailRead'
      BY <1>1, <1>5, <2>2, <3>1 DEF TailRead
    <3>3. ASSUME NEW p \in TailPages PROVE kept'[p] = before[p]
      <4>1. p \in Page /\ InChunk(p)
        BY ChunkPages
      <4>2. kept'[p] = cells[p]
        BY <1>1, <1>4, <2>2, <4>1
      <4> QED BY <3>1, <4>1, <4>2 DEF Fresh
    <3>4. PagesRead'
      BY <1>1, <1>5, <3>3 DEF PagesRead
    <3> QED BY <3>2, <3>4
  <2> QED BY <1>1, <2>1, <2>2, <1>2 DEF KeptInv, StageInv, Over, Writing
<1>13. WriteInv'
  <2>1. ASSUME op = "merge"
        PROVE  Behind' = Behind /\ Ahead' = Ahead /\ Uncovered' = Uncovered /\ Fresh' = Fresh
    <3>1. \A p : Final(p)' = Final(p)
      BY <1>1, <2>1, SameFinal
    <3> QED BY <1>1, <1>5, <3>1 DEF Behind, Ahead, Uncovered, Fresh
  <2> QED BY <1>1, <1>2, <2>1 DEF WriteInv, StageInv, Over, Ended, Writing
<1> QED BY <1>7, <1>8, <1>9, <1>10, <1>11, <1>12, <1>13 DEF IndInv

LEMMA CompareKeeps == IndInv /\ CompareBody => IndInv'
<1> SUFFICES ASSUME IndInv, CompareBody PROVE IndInv'
  OBVIOUS
<1>1. /\ op \in {"verify", "compare"} /\ stage = "body" /\ stage' = "qeoff"
      /\ outcome' \in {"none", "failed", "error"}
      /\ outcome' = "none" => \A p \in Compared : Sees(p) = Want(p)
      /\ outcome' = "failed" => \E p \in Compared : Sees(p) # Want(p)
      /\ UNCHANGED <<op, cells, prot, qe, mode4, four, restore, bus, jobs, kind, opts, fb, left,
                     before, qe0, qeMoved, astray>>
      /\ UNCHANGED <<fill, kept, got>>
  BY DEF CompareBody, Body, bodySame, driverVars, jobVars
<1>2. TypeOK /\ StageInv /\ PlaceInv /\ AddrInv /\ QeInv /\ OthersKeptInStep /\ ReadInv /\ KeptInv /\ WriteInv
  BY DEF IndInv
<1>3. op \in Addressed
  BY <1>1 DEF Addressed, reads
<1>4. ~astray => \A p : Sees(p) = cells[p]
  BY <1>1, <1>2, <1>3, SeesCells
<1>5. /\ Chunk' = Chunk /\ phys' = phys /\ First' = First /\ Last' = Last
      /\ TailRead' = TailRead /\ PagesRead' = PagesRead
      /\ Behind' = Behind /\ Ahead' = Ahead /\ Uncovered' = Uncovered
      /\ OthersKept' = OthersKept /\ MatchesBehind' = MatchesBehind
      /\ UnitMatches' = UnitMatches /\ Matches' = Matches /\ Written' = Written
  BY <1>1, SameData DEF dataVars
<1>6. TypeOK'
  BY <1>1, <1>2 DEF TypeOK
<1>7. StageInv' /\ AddrInv' /\ QeInv'
  BY <1>1, <1>2, <1>3, BodyKeeps
<1>8. PlaceInv'
  BY <1>1, <1>2, <1>5 DEF PlaceInv, Writing
<1>9. OthersKeptInStep'
  BY <1>1, <1>2, <1>5 DEF OthersKeptInStep
<1>10. ReadInv'
  <2>1. ASSUME ~astray, op = "compare", outcome' = "none" PROVE UnitMatches
    <3>1. \A p \in PagesOf({phys}) \cap Covered : cells[p] = Want(p)
      BY <1>1, <1>4, <2>1 DEF Compared
    <3> QED BY <3>1 DEF UnitMatches, Want
  <2>2. ASSUME ~astray, op = "compare", outcome' = "failed" PROVE ~Matches
    <3>1. PICK p \in PagesOf({phys}) \cap Covered : cells[p] # Want(p)
      BY <1>1, <1>4, <2>2 DEF Compared
    <3> QED BY <3>1 DEF Matches, Want
  <2> QED BY <1>1, <1>2, <1>5, <2>1, <2>2 DEF ReadInv, Over, Ended
<1>11. KeptInv'
  BY <1>1, <1>2, <1>5 DEF KeptInv, Over, Writing
<1>12. WriteInv'
  <2>1. ASSUME ~astray, op = "verify", outcome' = "none" PROVE Written
    BY <1>1, <1>4, <2>1 DEF Compared, Written
  <2> QED BY <1>1, <1>2, <1>5, <2>1 DEF WriteInv, Over, Ended, Writing
<1> QED BY <1>6, <1>7, <1>8, <1>9, <1>10, <1>11, <1>12 DEF IndInv

LEMMA EraseKeeps == IndInv /\ EraseBody => IndInv'
<1> SUFFICES ASSUME IndInv, EraseBody PROVE IndInv'
  OBVIOUS
<1>1. /\ op = "erase" /\ stage = "body" /\ stage' = "qeoff"
      /\ outcome' \in {"none", "error", "failed"}
      /\ UNCHANGED <<op, prot, qe, mode4, four, restore, bus, jobs, kind, opts, fb, left,
                     before, qe0, qeMoved, astray>>
      /\ UNCHANGED <<fill, kept, got>>
  BY DEF EraseBody, Body, bodySame, driverVars, jobVars
<1>2. TypeOK /\ StageInv /\ PlaceInv /\ AddrInv /\ QeInv /\ OthersKeptInStep /\ ReadInv /\ KeptInv /\ WriteInv
  BY DEF IndInv
<1>3. op \in Addressed /\ kind \in {"write", "erase"}
  BY <1>1, <1>2 DEF Addressed, reads, StageInv, TypeOK
<1>4. ~astray => ~Astray
  BY <1>1, <1>2, <1>3, SeesCells
<1>5. EraseSet \in SUBSET Unit /\ (kind = "write" => EraseSet = ChunkUnits)
  BY DEF EraseSet, ChunkUnits
<1>6. /\ \/ cells' = cells
         \/ \E us : cells' = EraseUnits(us)
      /\ ~astray => \/ cells' = cells /\ (outcome' = "none" => prot)
                    \/ \E us \in SUBSET EraseSet :
                         cells' = EraseUnits(us) /\ (outcome' = "none" => us = EraseSet)
  <2> DEFINE n == Len(EraseCmds(EraseSet))
  <2>1. n \in Nat /\ \A k \in 0 .. n : Erased(EraseSet, k) \subseteq EraseSet
    BY <1>5, ErasedIs
  <2>2. Erased(EraseSet, n) = EraseSet
    BY <1>5, ErasedIs
  <2>3. \/ /\ outcome' = "none"
           /\ cells' = IF Astray THEN EraseUnits({0})
                       ELSE IF prot THEN cells ELSE EraseUnits(Erased(EraseSet, n))
        \/ outcome' # "none" /\ \E k \in 0 .. n : cells' = EraseUnits(Erased(EraseSet, k))
    <3> HIDE DEF n
    <3> QED BY DEF EraseBody, Body, n
  <2> HIDE DEF n
  <2> QED BY <1>4, <2>1, <2>2, <2>3
<1>7. cells' \in [Page -> Contents]
  BY <1>2, <1>6, PagesHold DEF TypeOK, PlaceInv
<1>8. /\ First' = First /\ Covered' = Covered /\ Last' = Last /\ phys' = phys /\ Chunk' = Chunk
      /\ TailPages' = TailPages /\ (\A p : InChunk(p)' = InChunk(p)) /\ \A p : Final(p)' = Final(p)
      /\ TailRead' = TailRead
  BY <1>1, SameImage, SameChunk, SameFinal
<1>9. PagesRead' = PagesRead
  BY <1>1, <1>8 DEF PagesRead
<1>10. ASSUME ~astray
       PROVE  \A p \in Page : cells'[p] # cells[p] => p \div PPU \in EraseSet /\ cells'[p] = Blank
  <2>1. \A us \in SUBSET EraseSet : \A p \in Page :
          EraseUnits(us)[p] # cells[p] => p \div PPU \in EraseSet /\ EraseUnits(us)[p] = Blank
    BY DEF EraseUnits, PagesOf
  <2> QED BY <1>6, <1>10, <2>1
<1>11. TypeOK'
  BY <1>1, <1>2, <1>7 DEF TypeOK
<1>12. StageInv' /\ AddrInv' /\ QeInv'
  BY <1>1, <1>2, <1>3, BodyKeeps
<1>13. PlaceInv'
  BY <1>1, <1>2, <1>8 DEF PlaceInv, Writing
<1>14. OthersKeptInStep'
  <2> SUFFICES ASSUME ~astray PROVE OthersKept'
    BY <1>1 DEF OthersKeptInStep
  <2>1. EraseSet \subseteq JobUnits
    <3>1. CASE kind = "erase"
      <4>1. JobUnits = {u \in Unit : opts.start =< u}
        BY <3>1, Zenon DEF JobUnits
      <4>2. \A u \in EraseSet : opts.start =< u
        BY <1>2, <3>1, EraseSetIs DEF TypeOK, PlaceInv
      <4> QED BY <4>1, <4>2, <1>5
    <3>2. CASE kind = "write"
      <4>1. JobUnits = {u \in Unit : opts.start =< u /\ u < opts.start + FileUnits}
        BY <3>2, Zenon DEF JobUnits
      <4>2. opts.start \in Nat /\ phys = opts.start + fb /\ fb \in Nat
        BY <1>2, CoveredUnits DEF phys, TypeOK
      <4>3. \A u \in ChunkUnits : u \in Nat /\ phys =< u /\ u < opts.start + FileUnits
        BY PageUnit DEF ChunkUnits
      <4> QED BY <4>1, <4>2, <4>3, <1>5, <3>2
    <3> QED BY <3>1, <3>2, <1>3
  <2>2. JobUnits' = JobUnits
    BY <1>1 DEF JobUnits
  <2>3. OthersKept
    BY <1>2 DEF OthersKeptInStep
  <2>4. ASSUME NEW p \in Page \ PagesOf(JobUnits) PROVE cells'[p] = before[p]
    <3>1. p \div PPU \notin EraseSet
      BY <2>1, <2>4 DEF PagesOf
    <3>2. cells'[p] = cells[p]
      BY <3>1, <1>10
    <3> QED BY <3>2, <2>3 DEF OthersKept
  <2> QED BY <1>1, <2>2, <2>4 DEF OthersKept
<1>15. ReadInv'
  BY <1>1, <1>3 DEF ReadInv, Over, Ended
<1>16. KeptInv'
  BY <1>1, <1>2, <1>8, <1>9 DEF KeptInv, Over, Writing
<1>17. WriteInv'
  <2> SUFFICES ASSUME kind = "write", ~astray
               PROVE  Behind' /\ Ahead' /\ Uncovered' /\ (outcome' = "none" => Wiped')
    BY <1>1 DEF WriteInv, Over, Ended
  <2>1. Behind /\ Ahead /\ Uncovered /\ opts.doErase /\ ~prot
    BY <1>1, <1>2 DEF WriteInv, PlaceInv, Writing
  <2>2. \A p \in Page : cells'[p] # cells[p] => InChunk(p)
    BY <1>5, <1>10 DEF InChunk
  <2>3. phys \in Nat
    BY <1>2, CoveredUnits DEF phys, TypeOK
  <2>4. Behind'
    <3>1. \A p \in Page : p \div PPU \in Nat /\ (InChunk(p) => phys =< p \div PPU)
      BY PageUnit, ChunkPages
    <3>2. \A p \in Page : p \div PPU < phys => cells'[p] = cells[p]
      BY <2>2, <2>3, <3>1
    <3> QED BY <1>1, <1>8, <2>1, <3>2 DEF Behind
  <2>5. Ahead'
    BY <1>1, <1>8, <2>1, <2>2 DEF Ahead
  <2>6. Uncovered'
    BY <1>1, <2>1 DEF Uncovered
  <2>7. ASSUME outcome' = "none" PROVE Wiped'
    <3>1. cells' = EraseUnits(ChunkUnits)
      BY <1>5, <1>6, <2>1, <2>7
    <3>2. \A p \in Page : InChunk(p) => cells'[p] = Blank
      BY <3>1 DEF EraseUnits, PagesOf, InChunk
    <3> QED BY <1>8, <3>2 DEF Wiped
  <2> QED BY <2>4, <2>5, <2>6, <2>7
<1> QED BY <1>11, <1>12, <1>13, <1>14, <1>15, <1>16, <1>17 DEF IndInv

LEMMA EraseChipKeeps == IndInv /\ EraseChipBody => IndInv'
<1> SUFFICES ASSUME IndInv, EraseChipBody PROVE IndInv'
  OBVIOUS
<1>1. /\ op = "chip"
      /\ cells' \in {cells, [p \in Page |-> Blank]}
      /\ \E how \in {"ok", "error"} : Leave(how)
      /\ UNCHANGED <<prot, qe, mode4, four, restore, bus, jobs, kind, opts, fb, left,
                     before, qe0, qeMoved, astray>>
      /\ UNCHANGED <<fill, kept, got>>
  BY DEF EraseChipBody, bodySame, driverVars, jobVars
<1>2. TypeOK /\ StageInv /\ PlaceInv /\ AddrInv /\ QeInv
  BY DEF IndInv
<1>3. kind = "erase" /\ opts.start = 0
  BY <1>1, <1>2 DEF StageInv, PlaceInv, TypeOK
<1>4. op' = "end" /\ stage' = "body" /\ outcome' \in {"ok", "error"}
  BY <1>1, <1>3, LeaveIs
<1>5. TypeOK'
  <2>1. cells' \in [Page -> Contents]
    BY <1>1, <1>2, ContentsAre DEF TypeOK
  <2> QED BY <1>1, <1>2, <1>4, <2>1 DEF TypeOK
<1>6. StageInv'
  BY <1>1, <1>3, <1>4 DEF StageInv
<1>7. phys' = phys
  BY <1>1, SameChunk
<1>8. PlaceInv'
  BY <1>1, <1>2, <1>3, <1>4, <1>7 DEF PlaceInv, Writing
<1>9. AddrInv' /\ QeInv'
  BY <1>1, <1>2, <1>4 DEF AddrInv, QeInv, Addressed, reads, Working
<1>10. OthersKeptInStep'
  <2>1. JobUnits = {u \in Unit : opts.start =< u}
    BY <1>3, Zenon DEF JobUnits
  <2>2. JobUnits' = Unit
    <3>1. JobUnits' = JobUnits
      BY <1>1 DEF JobUnits
    <3>2. \A u \in Unit : u \in Nat /\ 0 =< u
      BY PageUnit
    <3> QED BY <2>1, <3>1, <3>2, <1>3
  <2>3. Page \ PagesOf(JobUnits') = {}
    BY <2>2, PageUnit
  <2> QED BY <2>3 DEF OthersKeptInStep, OthersKept
<1>11. ReadInv' /\ KeptInv' /\ WriteInv'
  BY <1>1, <1>3, <1>4 DEF ReadInv, KeptInv, WriteInv, Over, Ended
<1> QED BY <1>5, <1>6, <1>8, <1>9, <1>10, <1>11 DEF IndInv

LEMMA ProgramKeeps == IndInv /\ ProgramBody => IndInv'
<1> SUFFICES ASSUME IndInv, ProgramBody PROVE IndInv'
  OBVIOUS
<1>1. /\ op = "program" /\ stage = "body" /\ stage' = "qeoff"
      /\ outcome' \in {"none", "error", "failed"}
      /\ UNCHANGED <<op, prot, qe, mode4, four, restore, bus, jobs, kind, opts, fb,
                     before, qe0, qeMoved, astray>>
      /\ UNCHANGED <<fill, kept, got>>
  BY DEF ProgramBody, Body, bodySame, driverVars, jobVars
<1>2. TypeOK /\ StageInv /\ PlaceInv /\ AddrInv /\ QeInv /\ OthersKeptInStep /\ ReadInv /\ KeptInv /\ WriteInv
  BY DEF IndInv
<1>3. op \in Addressed /\ kind = "write" /\ Writing
  BY <1>1, <1>2 DEF Addressed, StageInv, TypeOK, Writing
<1>4. ~astray => ~Astray
  BY <1>1, <1>2, <1>3, SeesCells
<1>5. ~prot /\ ~(opts.quadWrite /\ ~qe)
  BY <1>1, <1>2, <1>3 DEF PlaceInv, QeInv, Working
<1>6. left \subseteq Chunk /\ left \subseteq Page
  BY <1>1, <1>2, ChunkPages DEF PlaceInv
<1>7. PICK ps \in SUBSET left :
        cells' = Programmed(ps) /\ left' \subseteq left /\ (outcome' = "none" => left' = left \ ps)
  <2>1. Batch \in SUBSET left
    BY DEF Batch
  <2>2. \/ outcome' = "none" /\ cells' = Programmed(Batch) /\ left' = left \ Batch
        \/ outcome' # "none" /\ UNCHANGED left /\ \E ps \in SUBSET Batch : cells' = Programmed(ps)
    BY DEF ProgramBody, Body
  <2> QED BY <2>1, <2>2
<1>8. cells' \in [Page -> Contents]
  BY <1>2, <1>7, PagesHold DEF PlaceInv
<1>9. /\ First' = First /\ Covered' = Covered /\ Last' = Last /\ phys' = phys /\ Chunk' = Chunk
      /\ TailPages' = TailPages /\ (\A p : InChunk(p)' = InChunk(p)) /\ (\A p : Final(p)' = Final(p))
      /\ TailRead' = TailRead /\ \A p : Want(p)' = Want(p)
  BY <1>1, SameImage, SameChunk, SameFinal, SameWant
<1>10. PagesRead' = PagesRead
  BY <1>1, <1>9 DEF PagesRead
<1>11. ~astray =>
         \A p \in Page : cells'[p] = IF p \in ps THEN And(cells[p], Want(p)) ELSE cells[p]
  BY <1>4, <1>5, <1>7 DEF Programmed
<1>12. TypeOK'
  BY <1>1, <1>2, <1>6, <1>7, <1>8 DEF TypeOK
<1>13. StageInv' /\ AddrInv' /\ QeInv'
  BY <1>1, <1>2, <1>3, BodyKeeps
<1>14. PlaceInv'
  BY <1>1, <1>2, <1>6, <1>7, <1>9 DEF PlaceInv, Writing
<1>15. ASSUME ~astray, NEW p \in Page, cells'[p] # cells[p] PROVE p \in Chunk /\ InChunk(p)
  BY <1>6, <1>7, <1>11, <1>15, ChunkPages
<1>16. OthersKeptInStep'
  <2> SUFFICES ASSUME ~astray PROVE OthersKept'
    BY <1>1 DEF OthersKeptInStep
  <2>1. JobUnits = {u \in Unit : opts.start =< u /\ u < opts.start + FileUnits}
    BY <1>3, Zenon DEF JobUnits
  <2>2. opts.start \in Nat /\ phys = opts.start + fb /\ fb \in Nat
    BY <1>2, CoveredUnits DEF phys, TypeOK
  <2>3. \A u \in ChunkUnits : u \in Nat /\ phys =< u /\ u < opts.start + FileUnits /\ u \in Unit
    BY PageUnit DEF ChunkUnits
  <2>4. ChunkUnits \subseteq JobUnits
    BY <2>1, <2>2, <2>3
  <2>5. JobUnits' = JobUnits
    BY <1>1 DEF JobUnits
  <2>6. OthersKept
    BY <1>2 DEF OthersKeptInStep
  <2>7. ASSUME NEW p \in Page \ PagesOf(JobUnits) PROVE cells'[p] = before[p]
    <3>1. ~InChunk(p)
      BY <2>4, <2>7 DEF PagesOf, InChunk
    <3>2. cells'[p] = cells[p]
      BY <3>1, <1>15
    <3> QED BY <3>2, <2>6 DEF OthersKept
  <2> QED BY <1>1, <2>5, <2>7 DEF OthersKept
<1>17. ReadInv'
  BY <1>1, <1>3 DEF ReadInv, Over, Ended
<1>18. KeptInv'
  BY <1>1, <1>2, <1>9, <1>10 DEF KeptInv, Over, Writing
<1>19. WriteInv'
  <2> SUFFICES ASSUME ~astray
               PROVE  Behind' /\ Ahead' /\ Uncovered' /\ (outcome' = "none" => Partly')
    BY <1>1 DEF WriteInv, Over, Ended
  <2>1. Behind /\ Ahead /\ Uncovered /\ Partly
    <3>1. outcome = "none"
      BY <1>1, <1>2, <1>3 DEF StageInv
    <3> QED BY <1>1, <1>2, <1>3, <3>1 DEF WriteInv
  <2>2. Behind'
    <3>1. \A p \in Page : p \div PPU \in Nat /\ (InChunk(p) => phys =< p \div PPU)
      BY PageUnit, ChunkPages
    <3>2. phys \in Nat
      BY <1>2, CoveredUnits DEF phys, TypeOK
    <3>3. \A p \in Page : p \div PPU < phys => cells'[p] = cells[p]
      BY <1>15, <3>1, <3>2
    <3> QED BY <1>1, <1>9, <2>1, <3>3 DEF Behind
  <2>3. Ahead'
    BY <1>1, <1>9, <1>15, <2>1 DEF Ahead
  <2>4. Uncovered'
    <3>1. ~opts.doErase => Chunk \subseteq Covered
      BY ChunkPages
    <3> QED BY <1>1, <1>9, <1>15, <2>1, <3>1 DEF Uncovered
  <2>5. ASSUME outcome' = "none" PROVE Partly'
    <3> SUFFICES ASSUME opts.doErase, NEW p \in Page, InChunk(p)
                 PROVE  cells'[p] = IF p \in left' THEN Blank ELSE Want(p)
      BY <1>1, <1>9 DEF Partly
    <3>1. cells[p] = IF p \in left THEN Blank ELSE Want(p)
      BY <2>1 DEF Partly
    <3>2. CASE p \in ps
      <4>1. cells[p] = Blank /\ p \notin left'
        BY <3>1, <3>2, <1>7, <2>5
      <4> QED BY <4>1, <3>2, <1>11 DEF And
    <3>3. CASE p \notin ps
      <4>1. cells'[p] = cells[p] /\ (p \in left' <=> p \in left)
        BY <3>3, <1>7, <1>11, <2>5
      <4> QED BY <4>1, <3>1
    <3> QED BY <3>2, <3>3
  <2> QED BY <2>2, <2>3, <2>4, <2>5
<1> QED BY <1>12, <1>13, <1>14, <1>16, <1>17, <1>18, <1>19 DEF IndInv

-----------------------------------------------------------------------------
(* From one chunk to the next *)

\* A chunk that holds what it should is behind the job once fb has moved on.
LEMMA NextChunk ==
    ASSUME TypeOK, fb < FileUnits, opts.start + FileUnits =< Units,
           UNCHANGED <<cells, opts, fill, before>>, fb' = fb + Cardinality(ChunkUnits),
           Behind, Ahead, Uncovered,
           opts.doErase \/ opts.doVerify => \A p \in Page : InChunk(p) => cells[p] = Final(p)
    PROVE  Behind' /\ Ahead' /\ Uncovered' /\ Fresh'
<1>1. fb \in Nat /\ opts \in Options
  BY DEF TypeOK
<1>2. PICK n \in Nat : /\ Cardinality(ChunkUnits) = n /\ 0 < n /\ fb + n =< FileUnits
                       /\ \A u \in Nat : u \in ChunkUnits <=> phys =< u /\ u < phys + n
  BY <1>1, ChunkIs
<1>3. phys \in Nat /\ phys' = phys + n
  BY <1>1, <1>2, CoveredUnits DEF phys
<1>4. \A u \in Nat : u \in ChunkUnits' => phys + n =< u
  BY <1>3, PageUnit DEF ChunkUnits
<1>5. /\ \A p \in Page : p \div PPU \in Nat
      /\ \A p \in Page : InChunk(p) <=> phys =< p \div PPU /\ p \div PPU < phys + n
      /\ \A p \in Page : InChunk(p)' => phys + n =< p \div PPU
  BY <1>2, <1>4, PageUnit DEF InChunk
<1>6. /\ Covered' = Covered /\ \A p : Final(p)' = Final(p)
  BY SameImage, SameFinal
<1>7. Behind'
  <2> SUFFICES ASSUME opts.doErase \/ opts.doVerify, NEW p \in Page, p \div PPU < phys + n
               PROVE  cells[p] = Final(p)
    BY <1>3, <1>6 DEF Behind
  <2>1. CASE p \div PPU < phys
    BY <2>1 DEF Behind
  <2>2. CASE InChunk(p)
    BY <2>2
  <2> QED BY <2>1, <2>2, <1>2, <1>3, <1>5
<1>8. \A p \in Page : phys + n =< p \div PPU => cells[p] = before[p]
  BY <1>2, <1>3, <1>5 DEF Ahead
<1>9. Ahead' /\ Fresh'
  BY <1>3, <1>5, <1>8 DEF Ahead, Fresh
<1>10. Uncovered'
  BY <1>6 DEF Uncovered
<1> QED BY <1>7, <1>9, <1>10

\* The chunk is erased and is to be programmed.
LEMMA StartProgramIs ==
    ASSUME StartProgram
    PROVE  /\ left' = {p \in Chunk : Want(p) # Blank} /\ UNCHANGED outcome
           /\ \/ op' = "program" /\ stage' = "enter4" /\ fb' = fb
              \/ left' = {} /\ opts.doVerify /\ op' = "verify" /\ stage' = "enter4" /\ fb' = fb
              \/ /\ left' = {} /\ ~opts.doVerify /\ op' = "loop" /\ stage' = "body"
                 /\ fb' = fb + Cardinality(ChunkUnits)
BY DEF StartProgram, Done, Goto

LEMMA ContinueIs ==
    ASSUME op \in Addressed, kind \in {"write", "erase"} \/ op # "erase", Continue
    PROVE  \/ op = "fill" /\ Done("begin") /\ UNCHANGED <<fb, left>>
           \/ op = "merge" /\ Done("erase") /\ UNCHANGED <<fb, left>>
           \/ op = "erase" /\ kind = "write" /\ StartProgram
           \/ /\ op = "erase" /\ kind = "erase" /\ Done("loop")
              /\ fb' = fb + Cardinality(EraseSet) /\ UNCHANGED left
           \/ op = "program" /\ Leave("cancelled") /\ UNCHANGED <<fb, left>>
           \/ op = "program" /\ left # {} /\ Done("program") /\ UNCHANGED <<fb, left>>
           \/ op = "program" /\ left = {} /\ opts.doVerify /\ Done("verify") /\ UNCHANGED <<fb, left>>
           \/ op = "program" /\ left = {} /\ ~opts.doVerify /\ ChunkDone
           \/ op = "verify" /\ ChunkDone
           \/ op = "compare" /\ Done("loop") /\ fb' = fb + 1 /\ UNCHANGED left
           \/ op = "read" /\ Leave("ok") /\ UNCHANGED <<fb, left>>
<1> HIDE DEF Done, Leave, StartProgram, ChunkDone, EraseSet
<1>1. CASE op = "fill"
  BY <1>1, Zenon DEF Continue
<1>2. CASE op = "merge"
  BY <1>2, Zenon DEF Continue
<1>3. CASE op = "erase" /\ kind = "write"
  BY <1>3, Zenon DEF Continue
<1>4. CASE op = "erase" /\ kind = "erase"
  BY <1>4, Zenon DEF Continue
<1>5. CASE op = "program"
  BY <1>5, Zenon DEF Continue
<1>6. CASE op = "verify"
  BY <1>6, Zenon DEF Continue
<1>7. CASE op = "compare"
  BY <1>7, Zenon DEF Continue
<1>8. CASE op = "read"
  BY <1>8, Zenon DEF Continue
<1> QED BY <1>1, <1>2, <1>3, <1>4, <1>5, <1>6, <1>7, <1>8 DEF Addressed, reads

LEMMA QuadEndKeeps == IndInv /\ QuadEnd => IndInv'
<1> SUFFICES ASSUME IndInv, QuadEnd PROVE IndInv'
  OBVIOUS
<1>1. /\ stage = "qeoff" /\ restore' = FALSE /\ bus' = "plain"
      /\ UNCHANGED <<cells, prot, mode4, four, jobs, kind, opts, fill, kept, got, before, qe0, astray>>
  BY DEF QuadEnd, jobVars
<1>2. TypeOK /\ StageInv /\ PlaceInv /\ AddrInv /\ QeInv /\ OthersKeptInStep /\ ReadInv /\ KeptInv /\ WriteInv
  BY DEF IndInv
<1>3. op \in Addressed /\ outcome # "ok"
  BY <1>1, <1>2 DEF StageInv, Addressed, reads
<1>4. kind \in {"write", "erase"} \/ op # "erase"
  BY <1>2 DEF StageInv, TypeOK
<1> DEFINE Stay == UNCHANGED <<outcome, fb, left>>
           Leaving == /\ outcome' \in {"ok", "failed", "cancelled", "error"} /\ UNCHANGED <<fb, left>>
                      /\ stage' = "body" /\ op' \in {"end", "idle"}
                      /\ op' = "end" => kind \in {"write", "erase"}
                      /\ outcome' = "ok" => op = "read" /\ outcome = "none" /\ op' = "idle"
                      /\ outcome' = "failed" => outcome = "failed"
           Eraser == /\ op = "erase" /\ kind = "erase" /\ outcome # "ok"
                     /\ op' = "loop" /\ stage' = "body" /\ UNCHANGED <<outcome, left>>
                     /\ fb' = fb + Cardinality(EraseSet)
           Writer == /\ outcome = "none"
                     /\ \/ op = "fill" /\ op' = "begin" /\ stage' = "body" /\ Stay
                        \/ op = "merge" /\ op' = "erase" /\ stage' = "enter4" /\ Stay
                        \/ op = "erase" /\ kind = "write" /\ StartProgram
                        \/ op = "program" /\ op' = "program" /\ stage' = "enter4" /\ Stay
                        \/ op = "program" /\ left = {} /\ opts.doVerify
                           /\ op' = "verify" /\ stage' = "enter4" /\ Stay
                        \/ /\ op = "verify" \/ (op = "program" /\ left = {} /\ ~opts.doVerify)
                           /\ op' = "loop" /\ stage' = "body" /\ UNCHANGED <<outcome, left>>
                           /\ fb' = fb + Cardinality(ChunkUnits)
           Verifier == /\ outcome = "none" /\ op = "compare"
                       /\ op' = "loop" /\ stage' = "body" /\ UNCHANGED <<outcome, left>>
                       /\ fb' = fb + 1
<1>5. Leaving \/ Eraser \/ Writer \/ Verifier
  <2>1. ASSUME NEW how \in {"ok", "failed", "cancelled", "error"}, Leave(how), UNCHANGED <<fb, left>>,
               how = "ok" => op = "read" /\ outcome = "none",
               how = "failed" => outcome = "failed"
        PROVE  Leaving
    <3>1. how = "ok" => op' = "idle"
      BY <2>1, LeaveIs
    <3> QED BY <2>1, <3>1, LeaveIs
  <2>2. \A o : Done(o) => /\ op' = o /\ UNCHANGED outcome
                          /\ o \in {"loop", "begin"} => stage' = "body"
                          /\ o \in {"erase", "program", "verify"} => stage' = "enter4"
    BY DEF Done, Goto
  <2>3. CASE outcome # "none" /\ Leave(outcome) /\ UNCHANGED <<fb, left>>
    <3>1. outcome \in {"failed", "cancelled", "error"}
      BY <1>2, <1>3, <2>3 DEF TypeOK
    <3> QED BY <2>1, <2>3, <3>1
  <2>4. CASE Leave("error") /\ UNCHANGED <<fb, left>>
    BY <2>1, <2>4
  <2>5. CASE outcome = "failed" /\ kind = "erase" /\ Done("loop")
             /\ fb' = fb + Cardinality(EraseSet) /\ UNCHANGED left
    <3>1. op = "erase"
      BY <1>2, <1>3, <2>5 DEF StageInv, Addressed, reads
    <3> HIDE DEF Done, EraseSet, Leaving, Writer, Verifier
    <3> QED BY <2>2, <2>5, <3>1
  <2>6. CASE outcome = "none" /\ Continue
    <3> HIDE DEF Done, Leave, StartProgram, EraseSet
    <3>1. \/ op = "fill" /\ Done("begin") /\ UNCHANGED <<fb, left>>
          \/ op = "merge" /\ Done("erase") /\ UNCHANGED <<fb, left>>
          \/ op = "erase" /\ kind = "write" /\ StartProgram
          \/ /\ op = "erase" /\ kind = "erase" /\ Done("loop")
             /\ fb' = fb + Cardinality(EraseSet) /\ UNCHANGED left
          \/ op = "program" /\ Leave("cancelled") /\ UNCHANGED <<fb, left>>
          \/ op = "program" /\ left # {} /\ Done("program") /\ UNCHANGED <<fb, left>>
          \/ op = "program" /\ left = {} /\ opts.doVerify /\ Done("verify") /\ UNCHANGED <<fb, left>>
          \/ op = "program" /\ left = {} /\ ~opts.doVerify /\ ChunkDone
          \/ op = "verify" /\ ChunkDone
          \/ op = "compare" /\ Done("loop") /\ fb' = fb + 1 /\ UNCHANGED left
          \/ op = "read" /\ Leave("ok") /\ UNCHANGED <<fb, left>>
      BY <1>3, <1>4, <2>6, ContinueIs
    <3>2. CASE op = "program" /\ Leave("cancelled") /\ UNCHANGED <<fb, left>>
      BY <2>1, <3>2
    <3>3. CASE op = "read" /\ Leave("ok") /\ UNCHANGED <<fb, left>>
      BY <2>1, <2>6, <3>3
    <3> HIDE DEF Leaving
    <3> QED BY <2>2, <2>6, <3>1, <3>2, <3>3 DEF ChunkDone
  <2> HIDE DEF Leaving, Eraser, Writer, Verifier, Leave, Done, Continue
  <2> QED BY <2>3, <2>4, <2>5, <2>6 DEF QuadEnd
<1>6. Writer => /\ kind = "write"
                /\ \/ fb < FileUnits /\ opts.start + FileUnits =< Units
                   \/ op = "fill" /\ op' = "begin"
  <2> SUFFICES ASSUME Writer
               PROVE  /\ kind = "write"
                      /\ \/ fb < FileUnits /\ opts.start + FileUnits =< Units
                         \/ op = "fill" /\ op' = "begin"
    OBVIOUS
  <2>1. op \in {"fill", "merge", "program", "verify"} \/ (op = "erase" /\ kind = "write")
    BY DEF Writer
  <2>2. kind = "write"
    BY <1>2, <2>1 DEF StageInv, TypeOK
  <2>3. op = "fill" => op' = "begin"
    BY DEF Writer
  <2>4. op # "fill" => Writing /\ op # "loop"
    BY <2>1, <2>2 DEF Writing
  <2> QED BY <1>2, <2>2, <2>3, <2>4 DEF PlaceInv
<1>7. /\ fb \in Nat /\ Units \in Nat /\ opts \in Options /\ opts.start \in Nat
      /\ FileUnits \in 1 .. Units
  BY <1>2, CoveredUnits, FileUnitsAre, SpiNorAssumption DEF TypeOK
<1>8. Writer => /\ UNCHANGED outcome
                /\ \/ op' = "begin" /\ op = "fill" /\ stage' = "body" /\ UNCHANGED <<fb, left>>
                   \/ op' = "erase" /\ op = "merge" /\ stage' = "enter4" /\ UNCHANGED <<fb, left>>
                   \/ op' \in {"program", "verify"} /\ op \in {"erase", "program"} /\ stage' = "enter4" /\ UNCHANGED fb
                   \/ op' = "loop" /\ op \in {"erase", "program", "verify"} /\ stage' = "body"
                      /\ fb' = fb + Cardinality(ChunkUnits)
  BY StartProgramIs DEF Writer
<1>9. Writer => left' \subseteq Page
  BY <1>2, StartProgramIs, ChunkPages DEF Writer, TypeOK
<1>10. Writer => fb' \in 0 .. FileUnits /\ (op' # "loop" => fb' = fb)
  <2> HIDE DEF Writer
  <2>1. ASSUME Writer, op' = "loop" PROVE fb' \in 0 .. FileUnits
    <3>1. fb' = fb + Cardinality(ChunkUnits)
      BY <1>8, <2>1
    <3>2. fb < FileUnits /\ opts.start + FileUnits =< Units
      BY <1>6, <2>1
    <3>3. PICK n \in Nat : Cardinality(ChunkUnits) = n /\ fb + n =< FileUnits
      BY <1>7, <3>2, ChunkIs
    <3> QED BY <1>7, <3>1, <3>3
  <2>2. ASSUME Writer PROVE fb =< FileUnits
    BY <1>2, <1>6, <2>2 DEF PlaceInv
  <2> QED BY <1>7, <1>8, <2>1, <2>2
<1>11. Eraser => opts.start + fb' =< Units /\ fb' \in 0 .. Units
  <2>1. ASSUME Eraser PROVE opts.start + fb + Cardinality(EraseSet) =< Units /\ Cardinality(EraseSet) \in Nat
    BY <1>2, <1>7, <2>1, EraseSetIs DEF PlaceInv
  <2> QED BY <1>7, <2>1
<1>12. Verifier => kind = "verify" /\ fb' \in 0 .. FileUnits /\ fb < FileUnits
  <2>1. ASSUME Verifier PROVE kind = "verify" /\ fb < FileUnits
    BY <1>2, <2>1 DEF StageInv, PlaceInv, TypeOK
  <2> QED BY <1>7, <2>1
<1> HIDE DEF Leaving, Writer, Eraser, Verifier
<1>13. TypeOK'
  <2>1. qe' \in BOOLEAN /\ qeMoved' \in BOOLEAN
    BY <1>2, Zenon DEF QuadEnd, TypeOK
  <2>2. fb' \in 0 .. Units
    BY <1>2, <1>5, <1>7, <1>10, <1>11, <1>12 DEF Leaving, TypeOK
  <2>3. left' \subseteq Page
    BY <1>2, <1>5, <1>9 DEF Leaving, Eraser, Verifier, TypeOK
  <2>4. op' \in {"idle", "end", "loop", "begin", "erase", "program", "verify"} /\ stage' \in {"body", "enter4"}
    BY <1>5, <1>8 DEF Leaving, Eraser, Verifier
  <2>5. outcome' \in {"none", "ok", "failed", "cancelled", "error"}
    BY <1>2, <1>5, <1>8 DEF Leaving, Eraser, Verifier, TypeOK
  <2> QED BY <1>1, <1>2, <2>1, <2>2, <2>3, <2>4, <2>5 DEF TypeOK, reads
<1>14. StageInv'
  <2>1. CASE Leaving
    BY <1>1, <1>2, <1>3, <2>1 DEF StageInv, Leaving, TypeOK
  <2>2. CASE Eraser
    BY <1>1, <2>2 DEF StageInv, Eraser
  <2>3. CASE Writer
    <3>1. kind = "write" /\ outcome = "none"
      BY <1>6, <2>3 DEF Writer
    <3> QED BY <1>1, <1>8, <2>3, <3>1 DEF StageInv, Addressed, reads
  <2>4. CASE Verifier
    BY <1>1, <1>12, <2>4 DEF StageInv, Verifier
  <2> QED BY <1>5, <2>1, <2>2, <2>3, <2>4
<1>15. AddrInv'
  <2>1. op' \in Addressed => stage' = "enter4"
    BY <1>5, <1>8 DEF Leaving, Eraser, Verifier, Addressed, reads
  <2>2. op # "idle"
    BY <1>3 DEF Addressed, reads
  <2> QED BY <1>1, <1>2, <2>1, <2>2 DEF AddrInv
<1>16. QeInv'
  <2>1. op' = "program" => stage' = "enter4"
    BY <1>5, <1>8 DEF Leaving, Eraser, Verifier
  <2>2. \/ qe' = (qe /\ ~restore) /\ UNCHANGED qeMoved
        \/ qeMoved' = TRUE
    BY DEF QuadEnd
  <2> QED BY <1>1, <1>2, <2>1, <2>2 DEF QeInv, Working, TypeOK
<1>17. OthersKeptInStep'
  <2>1. OthersKept' = OthersKept
    BY <1>1 DEF OthersKept, JobUnits
  <2> QED BY <1>1, <1>2, <2>1 DEF OthersKeptInStep
<1>18. First' = First /\ Covered' = Covered /\ Last' = Last
       /\ (\A i : ImagePage(i)' = ImagePage(i)) /\ (\A p : Want(p)' = Want(p))
       /\ TailRead' = TailRead /\ ReadBack' = ReadBack /\ Matches' = Matches
  <2>1. First' = First /\ Covered' = Covered /\ Last' = Last
        /\ (\A i : ImagePage(i)' = ImagePage(i)) /\ (\A p : Want(p)' = Want(p)) /\ TailRead' = TailRead
    BY <1>1, SameImage, SameFinal, SameWant
  <2> QED BY <1>1, <2>1 DEF ReadBack, Matches
<1>19. UNCHANGED fb => Chunk' = Chunk /\ phys' = phys /\ TailPages' = TailPages
                       /\ PagesRead' = PagesRead
  <2>1. UNCHANGED fb => Chunk' = Chunk /\ phys' = phys /\ TailPages' = TailPages
    BY <1>1, SameChunk
  <2> QED BY <1>1, <2>1 DEF PagesRead
<1>20. PlaceInv'
  <2>1. CASE Leaving
    BY <1>1, <1>2, <1>19, <2>1 DEF PlaceInv, Leaving, Writing
  <2>2. CASE Eraser
    BY <1>1, <1>2, <1>11, <2>2 DEF PlaceInv, Eraser, Writing
  <2>3. CASE Writer
    <3>1. kind = "write" /\ fb' =< FileUnits
      BY <1>6, <1>7, <1>10, <2>3
    <3>2. op' = "begin" => fb' = 0
      BY <1>2, <1>8, <2>3 DEF PlaceInv
    <3>3. op # "fill" => opts.start + FileUnits =< Units /\ ~prot /\ fb < FileUnits
      BY <1>2, <1>3, <3>1 DEF PlaceInv, Writing, StageInv, Addressed, reads
    <3>4. op' = "program" => left' \subseteq Chunk'
      <4>1. op' = "program" => UNCHANGED fb
        BY <1>8, <2>3
      <4>2. op' = "program" => left' \subseteq Chunk
        BY <1>2, <2>3, StartProgramIs DEF Writer, PlaceInv
      <4> QED BY <4>1, <4>2, <1>19
    <3>5. op' = "erase" => opts.doErase
      BY <1>2, <1>8, <2>3 DEF PlaceInv
    <3>6. op' = "verify" => opts.doVerify
      BY <2>3, StartProgramIs DEF Writer
    <3> QED BY <1>1, <1>2, <1>8, <1>10, <2>3, <3>1, <3>2, <3>3, <3>4, <3>5, <3>6 DEF PlaceInv, Writing
  <2>4. CASE Verifier
    BY <1>1, <1>2, <1>7, <1>12, <2>4 DEF PlaceInv, Verifier, Writing
  <2> QED BY <1>5, <2>1, <2>2, <2>3, <2>4
<1>21. ReadInv'
  <2> SUFFICES ASSUME ~astray
               PROVE  /\ Over("read")' \/ Ended("read", "ok")' => ReadBack'
                      /\ Over("compare")' => UnitMatches'
                      /\ kind = "verify" /\ op' # "idle" => MatchesBehind'
                      /\ Ended("verify", "ok")' => Matches'
                      /\ stage' # "qeoff"
                      /\ Ended("verify", "failed")' => ~Matches
    BY <1>1, <1>18 DEF ReadInv
  <2>1. stage' # "qeoff"
    BY <1>5, <1>8 DEF Leaving, Eraser, Verifier
  <2>2. ASSUME Ended("read", "ok")' PROVE ReadBack'
    <3>1. op = "read" /\ outcome = "none"
      BY <1>5, <1>8, <2>2 DEF Ended, Leaving, Eraser, Verifier
    <3> QED BY <1>1, <1>2, <1>18, <3>1 DEF ReadInv, Over
  <2>3. ASSUME Ended("verify", "ok")' PROVE FALSE
    <3>1. op = "read" /\ kind = "verify"
      BY <1>1, <1>5, <1>8, <2>3 DEF Ended, Leaving, Eraser, Verifier
    <3> QED BY <1>2, <3>1 DEF StageInv
  <2>4. ASSUME kind = "verify", op' # "idle" PROVE MatchesBehind'
    <3>1. Verifier
      BY <1>5, <1>6, <2>4 DEF Leaving, Eraser
    <3>2. UnitMatches /\ MatchesBehind
      BY <1>1, <1>2, <2>4, <3>1 DEF ReadInv, Over, Verifier
    <3>3. phys \in Nat /\ phys' = phys + 1
      BY <1>1, <1>7, <3>1 DEF phys, Verifier
    <3>4. ASSUME NEW p \in Covered, p \div PPU < phys + 1 PROVE cells[p] = ImagePage(p - First + 1)
      <4>1. p \in Page /\ p \div PPU \in Nat
        BY PageUnit DEF Covered
      <4>2. p \div PPU < phys \/ p \div PPU = phys
        BY <3>3, <3>4, <4>1
      <4>3. p \div PPU = phys => p \in PagesOf({phys}) \cap Covered
        BY <4>1 DEF PagesOf
      <4> QED BY <3>2, <4>2, <4>3 DEF UnitMatches, MatchesBehind
    <3> QED BY <1>1, <1>18, <3>3, <3>4 DEF MatchesBehind
  <2>5. ASSUME Ended("verify", "failed")' PROVE ~Matches
    <3>1. outcome = "failed" /\ kind = "verify"
      BY <1>1, <1>5, <1>8, <2>5 DEF Ended, Leaving, Eraser, Verifier
    <3>2. op = "compare"
      BY <1>2, <1>3, <3>1 DEF StageInv, Addressed, reads
    <3> QED BY <1>1, <1>2, <3>1, <3>2 DEF ReadInv
  <2> QED BY <2>1, <2>2, <2>3, <2>4, <2>5 DEF Over
<1>22. KeptInv'
  <2>1. CASE Leaving
    BY <2>1 DEF KeptInv, Over, Writing, Leaving
  <2>2. CASE Eraser \/ Verifier
    BY <1>1, <1>12, <2>2 DEF KeptInv, Eraser
  <2>3. CASE Writer
    <3> SUFFICES ASSUME kind = "write", ~astray
                 PROVE  TailRead' /\ (op' \in {"erase", "program", "verify"} => PagesRead')
      BY <1>1, <1>8, <2>3 DEF KeptInv, Over, Writing
    <3>1. outcome = "none"
      BY <2>3 DEF Writer
    <3>2. TailRead
      BY <1>1, <1>2, <1>8, <2>3, <3>1 DEF KeptInv, Over, Writing
    <3>3. op' \in {"erase", "program", "verify"} => PagesRead /\ UNCHANGED fb
      BY <1>1, <1>2, <1>8, <2>3, <3>1 DEF KeptInv, Over
    <3> QED BY <1>18, <1>19, <3>2, <3>3
  <2> QED BY <1>5, <2>1, <2>2, <2>3
<1>23. WriteInv'
  <2>1. CASE Leaving
    <3> SUFFICES ASSUME kind = "write", ~astray, outcome' = "ok" PROVE FALSE
      BY <1>1, <2>1 DEF WriteInv, Over, Ended, Writing, Leaving
    <3>1. op = "read"
      BY <2>1 DEF Leaving
    <3> QED BY <1>2, <3>1 DEF StageInv
  <2>2. CASE Eraser \/ Verifier
    BY <1>1, <1>12, <2>2 DEF WriteInv, Eraser
  <2>3. CASE Writer
    <3> SUFFICES ASSUME kind = "write", ~astray PROVE WriteInv'
      BY <1>1 DEF WriteInv
    <3>1. outcome = "none"
      BY <2>3 DEF Writer
    <3>2. op \in {"erase", "program", "verify"} => TailRead /\ PagesRead
      BY <1>2 DEF KeptInv, Writing
    <3>3. op # "fill" => Behind /\ Ahead /\ Uncovered
      BY <1>2, <1>8, <2>3 DEF WriteInv, Writing
    <3>4. /\ op = "erase" => Wiped
          /\ op = "program" => Partly
          /\ op = "verify" => Written
      BY <1>1, <1>2, <3>1 DEF WriteInv, Over
    <3>5. op = "erase" => opts.doErase
      BY <1>2 DEF PlaceInv
    <3>6. UNCHANGED fb => /\ Behind' = Behind /\ Ahead' = Ahead /\ Uncovered' = Uncovered
                          /\ Fresh' = Fresh /\ Written' = Written
                          /\ UNCHANGED left => Partly' = Partly
      <4>1. UNCHANGED fb => \A p : InChunk(p)' = InChunk(p)
        BY <1>1, SameChunk
      <4>2. \A p : Final(p)' = Final(p)
        BY <1>1, SameFinal
      <4> QED BY <1>1, <1>18, <1>19, <4>1, <4>2 DEF Behind, Ahead, Uncovered, Fresh, Written, Partly
    <3>7. CASE op = "fill"
      <4>1. cells = before
        BY <1>2, <3>7 DEF WriteInv
      <4> QED BY <1>1, <1>8, <2>3, <3>7, <4>1 DEF WriteInv, Over, Ended, Writing
    <3>8. CASE op = "merge"
      <4>1. Fresh
        BY <1>2, <3>8 DEF WriteInv
      <4> QED BY <1>1, <1>8, <2>3, <3>3, <3>6, <3>8, <4>1 DEF WriteInv, Over, Ended, Writing
    <3>9. ASSUME op = "erase", op' \in {"program", "verify"} PROVE WriteInv'
      <4>1. UNCHANGED fb /\ stage' = "enter4" /\ UNCHANGED outcome
        BY <1>8, <2>3, <3>9
      <4>2. left' = {p \in Chunk : Want(p) # Blank} /\ (op' = "verify" => left' = {})
        BY <2>3, <3>9, StartProgramIs DEF Writer
      <4>3. \A p \in Page : InChunk(p) => cells[p] = IF p \in left' THEN Blank ELSE Want(p)
        BY <3>4, <3>5, <3>9, <4>2, ChunkPages DEF Wiped
      <4>4. Partly'
        <5>1. \A p : InChunk(p)' = InChunk(p)
          BY <1>1, <4>1, SameChunk
        <5> QED BY <1>1, <1>18, <4>3, <5>1 DEF Partly
      <4>5. op' = "verify" => Written'
        <5>1. op' = "verify" => Written
          BY <4>2, <4>3, ChunkPages DEF Written
        <5> QED BY <3>6, <4>1, <5>1
      <4> QED BY <1>1, <3>3, <3>6, <3>9, <4>1, <4>4, <4>5 DEF WriteInv, Over, Ended, Writing
    <3>10. ASSUME op = "program", op' \in {"program", "verify"} PROVE WriteInv'
      <4>1. UNCHANGED <<fb, left, outcome>> /\ stage' = "enter4" /\ (op' = "verify" => left = {})
        BY <2>3, <3>10 DEF Writer
      <4>2. op' = "verify" /\ opts.doErase => Written
        BY <3>4, <3>10, <4>1, ChunkPages DEF Partly, Written
      <4> QED BY <1>1, <3>3, <3>4, <3>6, <3>10, <4>1, <4>2 DEF WriteInv, Over, Ended, Writing
    <3>11. ASSUME op' = "loop" PROVE WriteInv'
      <4>1. op \in {"erase", "program", "verify"} /\ fb' = fb + Cardinality(ChunkUnits) /\ stage' = "body"
        BY <1>8, <2>3, <3>11
      <4>2. fb < FileUnits /\ opts.start + FileUnits =< Units
        BY <1>6, <2>3, <4>1
      <4>3. ASSUME opts.doErase \/ opts.doVerify, NEW p \in Page, InChunk(p) PROVE cells[p] = Final(p)
        <5>1. \A q \in Covered : Want(q) = Final(q)
          BY <1>2, <3>2, <4>1, WantFinal
        <5>2. opts.doErase => \A q \in Chunk : Want(q) = Final(q)
          BY <1>2, <3>2, <4>1, WantFinal
        <5>3. \A q \in Page \ Covered : Final(q) = before[q]
          BY <1>2, <3>2, <4>1, WantFinal
        <5>4. opts.doErase => p \in Chunk
          BY <4>3, ChunkPages
        <5>5. CASE op = "erase"
          <6>1. left' = {} /\ left' = {q \in Chunk : Want(q) # Blank}
            BY <2>3, <3>11, <5>5, StartProgramIs DEF Writer
          <6>2. cells[p] = Blank
            BY <3>4, <4>3, <5>5 DEF Wiped
          <6> QED BY <3>5, <5>2, <5>4, <5>5, <6>1, <6>2
        <5>6. CASE op = "program"
          <6>1. left = {} /\ ~opts.doVerify
            BY <2>3, <3>11, <5>6 DEF Writer
          <6>2. cells[p] = Want(p)
            BY <3>4, <4>3, <5>6, <6>1 DEF Partly
          <6> QED BY <4>3, <5>2, <5>4, <6>1, <6>2
        <5>7. CASE op = "verify"
          <6>1. CASE p \in Chunk
            <7>1. cells[p] = Want(p)
              BY <3>4, <5>7, <6>1 DEF Written
            <7>2. p \in Covered \/ opts.doErase
              BY <6>1, ChunkPages
            <7> QED BY <5>1, <5>2, <6>1, <7>1, <7>2
          <6>2. CASE p \notin Chunk
            <7>1. ~opts.doErase /\ p \notin Covered
              BY <4>3, <6>2, ChunkPages
            <7> QED BY <3>3, <5>3, <5>7, <7>1 DEF Uncovered
          <6> QED BY <6>1, <6>2
        <5> QED BY <4>1, <5>5, <5>6, <5>7
      <4>4. Behind' /\ Ahead' /\ Uncovered' /\ Fresh'
        BY <1>1, <1>2, <3>3, <4>1, <4>2, <4>3, NextChunk
      <4> QED BY <3>11, <4>1, <4>4 DEF WriteInv, Over, Ended
    <3> QED BY <1>8, <2>3, <3>7, <3>8, <3>9, <3>10, <3>11
  <2> QED BY <1>5, <2>1, <2>2, <2>3
<1> QED BY <1>13, <1>14, <1>15, <1>16, <1>17, <1>20, <1>21, <1>22, <1>23 DEF IndInv

LEMMA LoopKeeps == IndInv /\ Loop => IndInv'
<1> SUFFICES ASSUME IndInv, Loop PROVE IndInv'
  OBVIOUS
<1>1. /\ op = "loop"
      /\ UNCHANGED <<cells, prot, qe, mode4, four, restore, bus, jobs, kind, opts, fill, got,
                     before, qe0, qeMoved, astray>>
  BY DEF Loop, chipVars, driverVars, jobVars, histVars
<1>2. TypeOK /\ StageInv /\ PlaceInv /\ AddrInv /\ QeInv /\ OthersKeptInStep /\ ReadInv /\ KeptInv /\ WriteInv
  BY DEF IndInv
<1>3. /\ fb \in Nat /\ Units \in Nat /\ opts \in Options /\ opts.start \in Nat
      /\ FileUnits \in 1 .. Units
  BY <1>2, CoveredUnits, FileUnitsAre, SpiNorAssumption DEF TypeOK
<1>4. /\ kind \in {"write", "verify", "erase"}
      /\ kind # "erase" => outcome = "none"
      /\ outcome # "ok"
      /\ kind = "write" => opts.start + FileUnits =< Units /\ ~prot
  BY <1>1, <1>2 DEF StageInv, PlaceInv, TypeOK, Writing, Addressed, reads
<1> DEFINE Stay == UNCHANGED <<fb, kept, left>>
           Leaving == /\ stage' = "body" /\ op' = (IF kind = "verify" THEN "idle" ELSE "end") /\ Stay
                      /\ outcome' \in {"ok", "failed", "cancelled", "error", "none"}
                      /\ outcome' = "ok" /\ kind # "erase" => fb = FileUnits
                      /\ outcome' = "failed" /\ kind = "verify" => phys \notin Unit /\ fb < FileUnits
           Writer == /\ kind = "write" /\ fb < FileUnits /\ UNCHANGED outcome
                     /\ kept' = [p \in Page |-> Blank]
                     /\ \/ /\ opts.doErase /\ UNCHANGED <<fb, left>> /\ stage' = "enter4"
                           /\ op' = (IF TailPages = {} THEN "erase" ELSE "merge")
                        \/ ~opts.doErase /\ StartProgram
           Verifier == /\ kind = "verify" /\ fb < FileUnits /\ phys \in Unit /\ Stay
                       /\ op' = "compare" /\ stage' = "enter4" /\ UNCHANGED outcome
           Eraser == /\ kind = "erase" /\ Stay /\ UNCHANGED outcome
                     /\ \/ op' = "chip" /\ stage' = "body" /\ opts.start = 0
                        \/ op' = "erase" /\ stage' = "enter4"
<1>5. Leaving \/ Writer \/ Verifier \/ Eraser
  <2>1. ASSUME NEW how \in {"ok", "failed", "cancelled", "error", "none"}, Leave(how), Stay,
               how = "ok" /\ kind # "erase" => fb = FileUnits,
               how = "failed" /\ kind = "verify" => phys \notin Unit /\ fb < FileUnits
        PROVE  Leaving
    BY <1>1, <1>4, <2>1, LeaveIs
  <2>2. \A o : Done(o) => /\ op' = o /\ UNCHANGED outcome
                          /\ o = "chip" => stage' = "body"
                          /\ o \in {"erase", "merge", "compare"} => stage' = "enter4"
    BY DEF Done, Goto
  <2>3. CASE /\ IF kind = "erase" THEN EraseSet = {} ELSE fb = FileUnits
             /\ Leave(IF outcome = "none" THEN "ok" ELSE outcome)
             /\ Stay
    <3>1. (IF outcome = "none" THEN "ok" ELSE outcome) \in {"ok", "failed", "cancelled", "error", "none"}
      BY <1>2 DEF TypeOK
    <3>2. kind # "erase" => fb = FileUnits
      BY <2>3
    <3>3. kind = "verify" => (IF outcome = "none" THEN "ok" ELSE outcome) # "failed"
      BY <1>4
    <3> QED BY <2>1, <2>3, <3>1, <3>2, <3>3
  <2>4. CASE Leave("cancelled") /\ Stay
    BY <2>1, <2>4
  <2>5. CASE /\ kind = "write" /\ fb < FileUnits /\ kept' = [p \in Page |-> Blank]
             /\ IF opts.doErase
                THEN Done(IF TailPages = {} THEN "erase" ELSE "merge") /\ UNCHANGED <<fb, left>>
                ELSE StartProgram
    <3>1. ~opts.doErase => UNCHANGED outcome
      BY <2>5, StartProgramIs
    <3> HIDE DEF Done, StartProgram, TailPages
    <3> QED BY <2>2, <2>5, <3>1
  <2>6. CASE /\ kind = "verify" /\ fb < FileUnits
             /\ IF phys \in Unit THEN Done("compare") ELSE Leave("failed")
             /\ Stay
    <3>1. CASE phys \in Unit
      BY <2>2, <2>6, <3>1
    <3>2. CASE phys \notin Unit
      BY <2>1, <2>6, <3>2
    <3> QED BY <3>1, <3>2
  <2>7. CASE /\ kind = "erase"
             /\ Done(IF opts.start = 0 /\ fb = 0 THEN "chip" ELSE "erase")
             /\ Stay
    BY <2>2, <2>7
  <2> HIDE DEF Leaving, Writer, Verifier, Eraser, Leave, Done
  <2> QED BY <2>3, <2>4, <2>5, <2>6, <2>7 DEF Loop
<1>6. Writer => \/ op' \in {"erase", "merge"} /\ stage' = "enter4" /\ UNCHANGED <<fb, left>> /\ opts.doErase
                   /\ (op' = "erase" => TailPages = {})
                \/ /\ ~opts.doErase /\ left' \subseteq Chunk
                   /\ \/ op' \in {"program", "verify"} /\ stage' = "enter4" /\ UNCHANGED fb
                         /\ (op' = "verify" => opts.doVerify)
                      \/ /\ op' = "loop" /\ stage' = "body" /\ ~opts.doVerify
                         /\ fb' = fb + Cardinality(ChunkUnits)
  BY StartProgramIs DEF Writer
<1> HIDE DEF Writer
<1>7. Writer => /\ kind = "write" /\ fb < FileUnits /\ UNCHANGED outcome
                /\ kept' = [p \in Page |-> Blank]
                /\ fb' \in 0 .. FileUnits /\ (op' # "loop" => fb' = fb)
  <2> SUFFICES ASSUME Writer
               PROVE  fb < FileUnits /\ fb' \in 0 .. FileUnits /\ (op' # "loop" => fb' = fb)
    BY DEF Writer
  <2>1. fb < FileUnits /\ opts.start + FileUnits =< Units
    BY <1>4 DEF Writer
  <2>2. PICK n \in Nat : Cardinality(ChunkUnits) = n /\ fb + n =< FileUnits
    BY <1>3, <2>1, ChunkIs
  <2> QED BY <1>3, <1>6, <2>1, <2>2
<1> HIDE DEF Leaving, Verifier, Eraser
<1>8. TypeOK'
  <2>1. op' \in {"loop", "idle", "end", "erase", "merge", "program", "verify", "compare", "chip"}
        /\ stage' \in {"body", "enter4"}
    BY <1>5, <1>6 DEF Leaving, Verifier, Eraser
  <2>2. fb' \in 0 .. Units
    BY <1>2, <1>3, <1>5, <1>7 DEF Leaving, Verifier, Eraser, TypeOK
  <2>3. left' \subseteq Page
    <3>1. Writer => left' \subseteq Page
      BY <1>2, <1>6, ChunkPages DEF TypeOK
    <3> QED BY <1>2, <1>5, <3>1 DEF Leaving, Verifier, Eraser, TypeOK
  <2>4. kept' \in [Page -> Contents]
    BY <1>2, <1>5, <1>7, ContentsAre DEF Leaving, Verifier, Eraser, TypeOK
  <2>5. outcome' \in {"none", "ok", "failed", "cancelled", "error"}
    BY <1>2, <1>5, <1>7 DEF Leaving, Verifier, Eraser, TypeOK
  <2> QED BY <1>1, <1>2, <2>1, <2>2, <2>3, <2>4, <2>5 DEF TypeOK, reads
<1>9. StageInv'
  <2>1. CASE Leaving
    BY <1>1, <1>4, <2>1 DEF StageInv, Leaving
  <2>2. CASE Writer
    BY <1>1, <1>4, <1>6, <1>7, <2>2 DEF StageInv, Addressed, reads
  <2>3. CASE Verifier
    BY <1>1, <1>4, <2>3 DEF StageInv, Verifier, Addressed, reads
  <2>4. CASE Eraser
    BY <1>1, <1>4, <2>4 DEF StageInv, Eraser, Addressed, reads
  <2> QED BY <1>5, <2>1, <2>2, <2>3, <2>4
<1>10. op' \in Addressed => stage' = "enter4"
  BY <1>5, <1>6 DEF Leaving, Verifier, Eraser, Addressed, reads
<1>11. AddrInv'
  BY <1>1, <1>2, <1>10 DEF AddrInv
<1>12. QeInv'
  <2>1. op' = "program" => stage' = "enter4"
    BY <1>10 DEF Addressed
  <2> QED BY <1>1, <1>2, <2>1 DEF QeInv, Working, Addressed, reads
<1>13. OthersKeptInStep'
  <2>1. OthersKept' = OthersKept
    BY <1>1 DEF OthersKept, JobUnits
  <2> QED BY <1>1, <1>2, <2>1 DEF OthersKeptInStep
<1>14. /\ First' = First /\ Covered' = Covered /\ Last' = Last /\ TailRead' = TailRead
       /\ (\A i : ImagePage(i)' = ImagePage(i)) /\ (\A p : Final(p)' = Final(p))
       /\ Matches' = Matches
  <2>1. /\ First' = First /\ Covered' = Covered /\ Last' = Last /\ TailRead' = TailRead
        /\ (\A i : ImagePage(i)' = ImagePage(i)) /\ (\A p : Final(p)' = Final(p))
    BY <1>1, SameImage, SameFinal
  <2> QED BY <1>1, <2>1 DEF Matches
<1>15. UNCHANGED fb => /\ Chunk' = Chunk /\ phys' = phys /\ TailPages' = TailPages
                       /\ (\A p : InChunk(p)' = InChunk(p))
                       /\ MatchesBehind' = MatchesBehind
                       /\ Behind' = Behind /\ Ahead' = Ahead /\ Uncovered' = Uncovered
                       /\ Fresh' = Fresh
  <2> SUFFICES ASSUME UNCHANGED fb
               PROVE  /\ Chunk' = Chunk /\ phys' = phys /\ TailPages' = TailPages
                      /\ (\A p : InChunk(p)' = InChunk(p))
                      /\ MatchesBehind' = MatchesBehind
                      /\ Behind' = Behind /\ Ahead' = Ahead /\ Uncovered' = Uncovered
                      /\ Fresh' = Fresh
    OBVIOUS
  <2>1. Chunk' = Chunk /\ phys' = phys /\ TailPages' = TailPages /\ (\A p : InChunk(p)' = InChunk(p))
    BY <1>1, SameChunk
  <2> QED BY <1>1, <1>14, <2>1 DEF MatchesBehind, Behind, Ahead, Uncovered, Fresh
<1>16. PlaceInv'
  <2>1. CASE Leaving
    BY <1>1, <1>2, <2>1 DEF PlaceInv, Leaving, Writing
  <2>2. CASE Writer
    <3>1. op' = "program" => left' \subseteq Chunk'
      BY <1>6, <1>7, <1>15, <2>2
    <3>2. fb' =< FileUnits /\ op' \in {"erase", "merge", "program", "verify", "loop"}
          /\ (op' \in {"merge", "erase"} => opts.doErase) /\ (op' = "verify" => opts.doVerify)
          /\ (op' # "loop" => fb' < FileUnits)
      BY <1>3, <1>6, <1>7, <2>2
    <3> QED BY <1>1, <1>2, <1>4, <1>7, <2>2, <3>1, <3>2 DEF PlaceInv, Writing
  <2>3. CASE Verifier
    BY <1>1, <1>2, <1>15, <2>3 DEF PlaceInv, Verifier, Writing
  <2>4. CASE Eraser
    BY <1>1, <1>2, <1>15, <2>4 DEF PlaceInv, Eraser, Writing
  <2> QED BY <1>5, <2>1, <2>2, <2>3, <2>4
<1>17. ReadInv'
  <2>1. CASE Leaving
    <3>1. ASSUME ~astray, kind = "verify", outcome' = "ok" PROVE Matches
      <4>1. MatchesBehind /\ fb = FileUnits
        BY <1>1, <1>2, <2>1, <3>1 DEF ReadInv, Leaving
      <4>2. phys = opts.start + FileUnits
        BY <4>1 DEF phys
      <4>3. \A p \in Covered : p \div PPU < phys
        BY <1>3, <4>2, CoveredUnits
      <4> QED BY <4>1, <4>3 DEF MatchesBehind, Matches
    <3>2. ASSUME kind = "verify", outcome' = "failed" PROVE opts.start + FileUnits > Units
      <4>1. phys \notin Unit /\ fb < FileUnits
        BY <2>1, <3>2 DEF Leaving
      <4> QED BY <1>3, <4>1, CoveredUnits DEF phys, Unit
    <3> QED BY <1>1, <1>4, <1>14, <2>1, <3>1, <3>2 DEF ReadInv, Over, Ended, Leaving
  <2>2. CASE Writer
    BY <1>1, <1>6, <1>7, <2>2 DEF ReadInv, Over, Ended
  <2>3. CASE Verifier
    BY <1>1, <1>2, <1>15, <2>3 DEF ReadInv, Over, Ended, Verifier
  <2>4. CASE Eraser
    BY <1>1, <2>4 DEF ReadInv, Over, Ended, Eraser
  <2> QED BY <1>5, <2>1, <2>2, <2>3, <2>4
<1>18. KeptInv'
  <2>1. CASE Leaving
    BY <2>1 DEF KeptInv, Over, Writing, Leaving
  <2>2. CASE Writer
    <3>1. op' \in {"erase", "program", "verify"} => PagesRead'
      <4>1. op' = "erase" => TailPages' = {}
        BY <1>6, <1>15, <2>2
      <4>2. op' \in {"program", "verify"} => ~opts'.doErase
        BY <1>1, <1>6, <2>2
      <4> QED BY <4>1, <4>2 DEF PagesRead
    <3>2. op' \notin {"fill", "begin"} /\ stage' # "qeoff"
      BY <1>6, <2>2
    <3> QED BY <1>1, <1>2, <1>14, <3>1, <3>2 DEF KeptInv, Over, Writing
  <2>3. CASE Verifier \/ Eraser
    BY <1>1, <2>3 DEF KeptInv, Verifier, Eraser
  <2> QED BY <1>5, <2>1, <2>2, <2>3
<1>19. WriteInv'
  <2>1. CASE Leaving
    <3> SUFFICES ASSUME ~astray, kind = "write", outcome' = "ok" PROVE Exact'
      BY <1>1, <2>1 DEF WriteInv, Over, Ended, Writing, Leaving
    <3>1. Behind /\ Ahead /\ fb = FileUnits
      BY <1>1, <1>2, <2>1 DEF WriteInv, Writing, Leaving
    <3>2. phys = opts.start + FileUnits /\ phys \in Nat
      BY <1>3, <3>1 DEF phys
    <3>3. ASSUME opts.doErase \/ opts.doVerify, NEW p \in Page PROVE cells[p] = Final(p)
      <4>1. p \div PPU \in Nat
        BY PageUnit
      <4>2. CASE p \div PPU < phys
        BY <3>1, <3>3, <4>2 DEF Behind
      <4>3. CASE phys =< p \div PPU
        <5>1. p \notin Covered
          BY <1>3, <3>2, <4>1, <4>3, CoveredUnits
        <5>2. ~InChunk(p)
          BY <3>2, <4>1, <4>3 DEF InChunk, ChunkUnits
        <5> QED BY <3>1, <4>3, <5>1, <5>2 DEF Ahead, Final
      <4> QED BY <3>2, <4>1, <4>2, <4>3
    <3> QED BY <1>1, <1>14, <3>3 DEF Exact
  <2>2. CASE Writer
    <3> SUFFICES ASSUME ~astray, kind = "write" PROVE WriteInv'
      BY <1>1 DEF WriteInv
    <3>1. Behind /\ Ahead /\ Uncovered /\ Fresh
      BY <1>1, <1>2 DEF WriteInv, Writing
    <3>2. CASE op' \in {"erase", "merge", "program", "verify"}
      <4>1. UNCHANGED fb /\ stage' = "enter4"
            /\ (op' \in {"program", "verify"} => ~opts'.doErase)
        BY <1>1, <1>6, <2>2, <3>2
      <4>2. op' = "program" => Partly'
        BY <4>1 DEF Partly
      <4> QED BY <1>1, <1>15, <3>1, <3>2, <4>1, <4>2 DEF WriteInv, Over, Ended
    <3>3. CASE op' = "loop"
      <4>1. ~opts.doErase /\ ~opts.doVerify /\ fb' = fb + Cardinality(ChunkUnits) /\ stage' = "body"
        BY <1>6, <2>2, <3>3
      <4>2. Behind' /\ Ahead' /\ Uncovered' /\ Fresh'
        BY <1>1, <1>2, <1>4, <1>7, <2>2, <3>1, <4>1, NextChunk
      <4> QED BY <3>3, <4>1, <4>2 DEF WriteInv, Over, Ended
    <3> QED BY <1>6, <2>2, <3>2, <3>3
  <2>3. CASE Verifier \/ Eraser
    BY <1>1, <2>3 DEF WriteInv, Verifier, Eraser
  <2> QED BY <1>5, <2>1, <2>2, <2>3
<1> QED BY <1>8, <1>9, <1>11, <1>12, <1>13, <1>16, <1>17, <1>18, <1>19 DEF IndInv

-----------------------------------------------------------------------------
(* The beginning of a job *)

LEMMA StartKeeps == IndInv /\ StartJob => IndInv'
<1> SUFFICES ASSUME IndInv, StartJob PROVE IndInv'
  OBVIOUS
<1>1. /\ op = "idle" /\ jobs < MaxJobs /\ jobs' = jobs + 1
      /\ kind' \in {"read", "write", "verify", "erase"} /\ opts' \in Options
      /\ outcome' = "none" /\ fb' = 0 /\ fill' = Blank /\ kept' = [p \in Page |-> Blank] /\ left' = {}
      /\ before' = cells /\ qe0' = qe /\ qeMoved' = FALSE /\ astray' = (four /\ ~mode4)
      /\ UNCHANGED <<cells, prot, qe, mode4, four, restore, bus>>
  BY DEF StartJob, chipVars, driverVars
<1>2. TypeOK /\ StageInv /\ PlaceInv /\ AddrInv /\ QeInv
  BY DEF IndInv
<1> DEFINE first == CASE kind' = "read" -> "read"
                      [] kind' = "write" -> IF opts'.tail /\ opts'.doErase
                                               /\ opts'.start * PPU + FilePages - 1 \in Page
                                            THEN "fill" ELSE "begin"
                      [] kind' = "verify" -> "loop"
                      [] kind' = "erase" -> "begin"
<1>3. op' = first /\ Goto(first)
  BY Zenon DEF StartJob, Goto
<1>4. /\ kind' = "read" => first = "read"
      /\ kind' = "write" => first = (IF opts'.tail /\ opts'.doErase
                                        /\ opts'.start * PPU + FilePages - 1 \in Page
                                     THEN "fill" ELSE "begin")
      /\ kind' = "verify" => first = "loop"
      /\ kind' = "erase" => first = "begin"
  <2>1. ASSUME kind' = "read" PROVE first = "read"
    BY <2>1, Zenon
  <2>2. ASSUME kind' = "write"
        PROVE  first = (IF opts'.tail /\ opts'.doErase
                           /\ opts'.start * PPU + FilePages - 1 \in Page
                        THEN "fill" ELSE "begin")
    BY <2>2, Zenon
  <2>3. ASSUME kind' = "verify" PROVE first = "loop"
    BY <2>3, Zenon
  <2>4. ASSUME kind' = "erase" PROVE first = "begin"
    BY <2>4, Zenon
  <2> HIDE DEF first
  <2> QED BY <2>1, <2>2, <2>3, <2>4
<1> HIDE DEF first
<1>5. Last' = opts'.start * PPU + FilePages - 1
  BY DEF Last, First
<1>6. /\ kind' = "read" => op' = "read" /\ stage' = "enter4"
      /\ kind' = "write" => \/ /\ op' = "fill" /\ stage' = "enter4"
                               /\ opts'.tail /\ opts'.doErase /\ Last' \in Page
                            \/ /\ op' = "begin" /\ stage' = "body"
                               /\ ~(opts'.tail /\ opts'.doErase /\ Last' \in Page)
      /\ kind' = "verify" => op' = "loop" /\ stage' = "body"
      /\ kind' = "erase" => op' = "begin" /\ stage' = "body"
  BY <1>3, <1>4, <1>5, GotoIs
<1>7. Units \in Nat /\ FileUnits \in 1 .. Units /\ \A u \in Unit : u \in Nat /\ u < Units
  BY FileUnitsAre, SpiNorAssumption DEF Unit
<1>8. opts'.start \in Unit /\ opts'.start \in Nat
  BY <1>1, <1>7 DEF Options
<1>9. TypeOK'
  <2>1. jobs' \in 0 .. MaxJobs
    BY <1>1, <1>2, SpiNorAssumption DEF TypeOK
  <2>2. op' \in {"read", "fill", "begin", "loop"} /\ stage' \in {"enter4", "body"}
    BY <1>1, <1>6
  <2>3. astray' \in BOOLEAN /\ fb' \in 0 .. Units
    BY <1>1, <1>7
  <2> QED BY <1>1, <1>2, <2>1, <2>2, <2>3, ContentsAre DEF TypeOK, reads
<1>10. StageInv'
  BY <1>1, <1>6 DEF StageInv, Addressed, reads
<1>11. PlaceInv'
  <2>1. opts'.start + 0 =< Units /\ 0 =< FileUnits
    BY <1>7, <1>8
  <2>2. op' = "fill" => (First + FilePages - 1)' \in Page
    BY <1>1, <1>6 DEF Last
  <2> QED BY <1>1, <1>6, <2>1, <2>2, ContentsAre DEF PlaceInv, Writing
<1>12. AddrInv'
  <2>1. op' \in Addressed => stage' = "enter4"
    BY <1>1, <1>6 DEF Addressed, reads
  <2> QED BY <1>1, <1>2, <2>1 DEF AddrInv, TypeOK
<1>13. QeInv'
  <2>1. bus # "quad" /\ ~restore
    BY <1>1, <1>2 DEF QeInv, Addressed, reads
  <2>2. op' # "program"
    BY <1>1, <1>6
  <2> QED BY <1>1, <2>1, <2>2 DEF QeInv
<1>14. OthersKeptInStep'
  BY <1>1 DEF OthersKeptInStep, OthersKept
<1>15. ReadInv'
  <2>1. ASSUME kind' = "verify" PROVE MatchesBehind'
    <3>1. phys' = opts'.start
      BY <1>1, <1>8 DEF phys
    <3>2. \A p \in Covered' : opts'.start =< p \div PPU /\ p \div PPU \in Nat
      <4>1. Covered' = {p \in Page : opts'.start * PPU =< p /\ p < opts'.start * PPU + FilePages}
        BY DEF Covered, First
      <4>2. ASSUME NEW p \in Page, opts'.start * PPU =< p PROVE opts'.start =< p \div PPU
        <5>1. p \in Nat /\ PPU \in Nat \ {0}
          BY PageUnit, SpiNorAssumption
        <5> DEFINE s == opts'.start
        <5>2. s \in Nat /\ s * PPU =< p
          BY <1>8, <4>2
        <5> HIDE DEF s
        <5>3. s =< p \div PPU
          BY <5>1, <5>2, Quotient
        <5> QED BY <5>3 DEF s
      <4> QED BY <4>1, <4>2, PageUnit
    <3> QED BY <3>1, <3>2, <1>8 DEF MatchesBehind
  <2> QED BY <1>1, <1>6, <2>1 DEF ReadInv, Over, Ended
<1>16. KeptInv'
  <2>1. ASSUME ~(opts'.tail /\ opts'.doErase) PROVE TailRead'
    BY <1>1, <2>1 DEF TailRead
  <2> QED BY <1>1, <1>6, <2>1 DEF KeptInv, Over, Writing
<1>17. WriteInv'
  BY <1>1, <1>6 DEF WriteInv, Over, Ended, Writing
<1> QED BY <1>9, <1>10, <1>11, <1>12, <1>13, <1>14, <1>15, <1>16, <1>17 DEF IndInv

LEMMA InitInv == Init => IndInv
<1> SUFFICES ASSUME Init PROVE IndInv
  OBVIOUS
<1>1. /\ cells = [p \in Page |-> Old(p)] /\ prot \in BOOLEAN /\ qe \in BOOLEAN
      /\ mode4 = FALSE /\ four = FALSE /\ restore = FALSE /\ bus = "plain" /\ op = "idle"
      /\ stage = "body" /\ jobs = 0 /\ kind = "read" /\ opts \in Options /\ fb = 0
      /\ fill = Blank /\ kept = [p \in Page |-> Blank] /\ left = {} /\ outcome = "none"
      /\ before = cells /\ qe0 = qe /\ qeMoved = FALSE /\ astray = FALSE
  BY DEF Init
<1>2. cells \in [Page -> Contents] /\ fill \in Whole /\ fill \in Contents /\ kept \in [Page -> Contents]
  BY <1>1, ContentsAre
<1>3. TypeOK
  <2>1. jobs \in 0 .. MaxJobs /\ fb \in 0 .. Units
    BY <1>1, SpiNorAssumption
  <2> QED BY <1>1, <1>2, <2>1 DEF TypeOK
<1>4. StageInv /\ AddrInv /\ QeInv
  BY <1>1 DEF StageInv, AddrInv, QeInv, Addressed, reads
<1>5. PlaceInv
  BY <1>1, <1>2 DEF PlaceInv, Writing
<1>6. OthersKeptInStep
  BY <1>1 DEF OthersKeptInStep, OthersKept
<1>7. ReadInv /\ KeptInv /\ WriteInv
  BY <1>1 DEF ReadInv, KeptInv, WriteInv, Over, Ended
<1> QED BY <1>3, <1>4, <1>5, <1>6, <1>7 DEF IndInv

-----------------------------------------------------------------------------
(* The theorems *)

\* The inductive invariant holds of every chip, image and sequence of jobs.
THEOREM NorInvariant == Spec => []IndInv
<1>1. Init => IndInv
  BY InitInv
<1>2. IndInv /\ [Next]_vars => IndInv'
  <2> SUFFICES ASSUME IndInv, [Next]_vars PROVE IndInv'
    OBVIOUS
  <2>1. CASE UNCHANGED vars
    <3>1. /\ UNCHANGED <<cells, prot, qe, mode4, four, restore, bus, op, stage, jobs, kind, opts>>
          /\ UNCHANGED <<fb, fill, kept, left, got, outcome, before, qe0, qeMoved, astray>>
      BY <2>1 DEF vars, chipVars, driverVars, jobVars, posVars, histVars
    <3>2. TypeOK /\ StageInv /\ PlaceInv /\ AddrInv /\ QeInv /\ OthersKeptInStep /\ ReadInv /\ KeptInv /\ WriteInv
      BY DEF IndInv
    <3>3. TypeOK' /\ StageInv'
      BY <3>1, <3>2 DEF TypeOK, StageInv
    <3>4. AddrInv' /\ QeInv'
      BY <3>1, <3>2 DEF AddrInv, QeInv, Working
    <3>5. PlaceInv'
      BY <3>1, <3>2, SameChunk, SameImage DEF PlaceInv, Writing
    <3>6. /\ ReadBack' = ReadBack /\ UnitMatches' = UnitMatches
          /\ MatchesBehind' = MatchesBehind /\ Matches' = Matches
          /\ TailRead' = TailRead /\ PagesRead' = PagesRead /\ Last' = Last
          /\ Behind' = Behind /\ Ahead' = Ahead /\ Uncovered' = Uncovered
          /\ Fresh' = Fresh /\ Wiped' = Wiped /\ Partly' = Partly
          /\ Written' = Written /\ Exact' = Exact /\ OthersKept' = OthersKept
      BY <3>1, SameData DEF dataVars
    <3>7. OthersKeptInStep' /\ ReadInv'
      BY <3>1, <3>2, <3>6 DEF OthersKeptInStep, ReadInv, Over, Ended
    <3>8. KeptInv' /\ WriteInv'
      BY <3>1, <3>2, <3>6 DEF KeptInv, WriteInv, Over, Ended, Writing
    <3> QED BY <3>3, <3>4, <3>5, <3>7, <3>8 DEF IndInv
  <2>2. CASE Next
    BY <2>2, StartKeeps, DetectKeeps, DoctorKeeps, BeginKeeps, EnterKeeps, QuadBeginKeeps, ReadKeeps,
       CompareKeeps, EraseKeeps, EraseChipKeeps, ProgramKeeps, QuadEndKeeps, LoopKeeps, EndKeeps DEF Next
  <2> QED BY <2>1, <2>2
<1> QED BY <1>1, <1>2, PTL DEF Spec

\* Driver and chip agree on the address bytes, and four lines are used with QE.
THEOREM SpeaksInStep == Spec => []InStep
<1>1. IndInv => InStep
  <2> SUFFICES ASSUME IndInv PROVE InStep
    OBVIOUS
  <2>1. TypeOK /\ AddrInv /\ QeInv
    BY DEF IndInv
  <2>2. ASSUME op \in Addressed, stage = "body" PROVE (mode4 = four \/ astray) /\ (bus = "quad" => qe)
    BY <2>1, <2>2 DEF AddrInv, QeInv, TypeOK
  <2> QED BY <2>1, <2>2 DEF InStep, Addressed
<1> QED BY <1>1, NorInvariant, PTL

\* After a job QE is what it was, unless it was changed for good.
THEOREM QeAsBefore == Spec => []QeRestored
<1>1. IndInv => QeRestored
  BY DEF IndInv, QeInv, QeRestored, Addressed, reads
<1> QED BY <1>1, NorInvariant, PTL

\* A job changes no page outside the units it was given.
THEOREM TouchesOnlyItsUnits == Spec => []OthersKeptInStep
<1>1. IndInv => OthersKeptInStep
  BY DEF IndInv
<1> QED BY <1>1, NorInvariant, PTL

\* A read returns what the chip holds; verify passes only what is the image and finds
\* fault only with what is not.
THEOREM ReadsAreTrue == Spec => []ReadsTrue
<1>1. IndInv => ReadsTrue
  BY DEF IndInv, ReadInv, ReadsTrue, ReadBack, Matches
<1> QED BY <1>1, NorInvariant, PTL

\* A write that reports success has written the image and kept all else.
THEOREM WritesExactly == Spec => []WriteIsExact
<1>1. IndInv => WriteIsExact
  BY DEF IndInv, WriteInv, WriteIsExact, Exact, Final, Last, Ended
<1> QED BY <1>1, NorInvariant, PTL
=============================================================================
