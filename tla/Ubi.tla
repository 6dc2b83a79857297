-------------------------------- MODULE Ubi ---------------------------------
(***************************************************************************)
(* From a raw dump to volumes: strip_oob of image.py leaves out the blocks *)
(* that are marked bad, ubi.py finds the volumes in the physical erase     *)
(* blocks (PEBs) that remain.                                              *)
(*                                                                         *)
(* Every PEB carries an erase-count header and, when it holds a logical    *)
(* block (LEB), a volume header with the volume, the number of the LEB and *)
(* a sequence number.  The writer is the target's UBI: a LEB is changed in *)
(* a free PEB, the old one is erased some time later, and a power cut      *)
(* leaves both, a header whose CRC is wrong, or data cut off behind a good *)
(* one.                                                                    *)
(***************************************************************************)
EXTENDS Integers, Sequences, FiniteSets, SequencesExt

CONSTANTS
  Pebs,       \* blocks of the dump
  Sizes,      \* PEB sizes the reader tries, in units of the smallest
  PebSize,    \* the true one
  Lebs,       \* LEBs of the volume
  MaxSq       \* LEBs ever written

VARIABLES
  pebs,       \* the dump
  leb,        \* what the target sees: the data of every LEB, 0 when it is unmapped
  vtbl,       \* and its volume table: the name of the volume
  sq          \* the next sequence number

ubiVars == <<pebs, leb, vtbl, sq>>

LayoutVolume == 99
LayoutLebs == {0, 1}
Volume == 0

\* mark: the page of the block with a bad-block marker, 2 for none.
Blank == [mark |-> 2, ec |-> "none", vid |-> "none", vol |-> 0, lnum |-> 0, sq |-> 0, data |-> 0]
CutOff == -1    \* as data: what is there does not match data_crc of the header
Free == [Blank EXCEPT !.ec = "ok"]
Holding(vol, lnum, data) ==
  [Free EXCEPT !.vid = "ok", !.vol = vol, !.lnum = lnum, !.sq = sq, !.data = data]

------------------------------------------------------------------------------
(* The readers *)

\* A block is bad when its first or its second page has the marker.
Marked(block) == block.mark \in {0, 1}

\* strip_oob with skip_bad.
Stripped == SelectSeq(pebs, LAMBDA b : ~Marked(b))
Total == Len(Stripped)

\* _guess_peb: the smallest size with a header at its first multiple; 0 for the
\* ValueError.
GuessPeb ==
  LET At(s) == s % PebSize = 0 /\ s \div PebSize < Total /\ Stripped[s \div PebSize + 1].ec # "none"
      fits == SelectSeq(Sizes, LAMBDA s : 2 * s =< Total * PebSize /\ At(s))
  IN IF fits = <<>> THEN 0 ELSE fits[1]

\* parse: PEBs with both headers right; a header with a wrong CRC is passed over.
\* copy_flag and data_crc are not looked at.
Mapped(size) ==
  SelectSeq([i \in 1 .. ((Total * PebSize) \div size) |-> Stripped[((i - 1) * size) \div PebSize + 1]],
            LAMBDA b : b.ec = "ok" /\ b.vid = "ok")
OfLeb(size, vol, lnum) == SelectSeq(Mapped(size), LAMBDA b : b.vol = vol /\ b.lnum = lnum)

\* The PEB of a LEB: the first with the greatest sequence number; <<>> for none.
NewestPeb(size, vol, lnum) ==
  FoldLeft(LAMBDA best, b : IF best = <<>> THEN <<b>>
                            ELSE IF best[1].sq < b.sq THEN <<b>> ELSE best, <<>>,
           OfLeb(size, vol, lnum))

\* The volume table: the lowest copy there is.
TableOf(size) ==
  LET found == {n \in LayoutLebs : NewestPeb(size, LayoutVolume, n) # <<>>}
  IN IF found = {} THEN 0
     ELSE NewestPeb(size, LayoutVolume, CHOOSE n \in found : \A m \in found : n =< m)[1].data

\* volume_data: the LEBs up to the last one that is used; 0 stands for 0xFF.
VolumeData(size) ==
  LET used == {n \in Lebs : NewestPeb(size, Volume, n) # <<>>}
      Leb(n) == LET p == NewestPeb(size, Volume, n) IN IF p = <<>> THEN 0 ELSE p[1].data
  IN IF used = {} THEN <<>>
     ELSE [i \in 1 .. ((CHOOSE n \in used : \A m \in used : m =< n) + 1) |-> Leb(i - 1)]

------------------------------------------------------------------------------
(* The target *)

\* The first two good blocks always have a header: parse needs the one, _guess_peb
\* the other.
Early == {p \in 1 .. Pebs : ~Marked(pebs[p]) /\ Cardinality({q \in 1 .. p : ~Marked(pebs[q])}) =< 2}

FreePebs == {p \in 1 .. Pebs : pebs[p].ec = "ok" /\ pebs[p].vid = "none"}

UbiWrite(p, n) ==
  /\ sq =< MaxSq
  /\ p \in FreePebs
  /\ pebs' = [pebs EXCEPT ![p] = Holding(Volume, n, sq)]
  /\ leb' = [leb EXCEPT ![n] = sq]
  /\ sq' = sq + 1
  /\ UNCHANGED vtbl

\* The two copies of the volume table are written one after the other.
UbiTable(p) ==
  /\ sq =< MaxSq
  /\ p \in FreePebs
  /\ pebs' = [pebs EXCEPT ![p] = Holding(LayoutVolume, 0, sq)]
  /\ vtbl' = sq
  /\ sq' = sq + 1
  /\ UNCHANGED leb
UbiTableCopy(p) ==
  /\ vtbl # 0
  /\ sq =< MaxSq
  /\ p \in FreePebs
  /\ pebs' = [pebs EXCEPT ![p] = Holding(LayoutVolume, 1, vtbl)]
  /\ sq' = sq + 1
  /\ UNCHANGED <<leb, vtbl>>

\* A power cut while a header is written.
UbiTorn(p) ==
  /\ p \in FreePebs
  /\ \/ \E n \in Lebs : pebs' = [pebs EXCEPT ![p] = [Holding(Volume, n, 0) EXCEPT !.vid = "bad"]]
     \/ p \notin Early /\ pebs' = [pebs EXCEPT ![p] = [Blank EXCEPT !.ec = "bad"]]
  /\ UNCHANGED <<leb, vtbl, sq>>

\* A power cut while the data of a LEB that was there before is written to its new
\* PEB: data_crc tells the target to go on with the old one.
UbiCut(p) ==
  /\ sq =< MaxSq
  /\ p \in FreePebs
  /\ \E v \in {Volume, LayoutVolume}, n \in Lebs \cup LayoutLebs :
       /\ \E q \in 1 .. Pebs :
            /\ pebs[q].vid = "ok" /\ pebs[q].data # CutOff
            /\ <<pebs[q].vol, pebs[q].lnum>> = <<v, n>>
       /\ pebs' = [pebs EXCEPT ![p] = Holding(v, n, CutOff)]
  /\ sq' = sq + 1
  /\ UNCHANGED <<leb, vtbl>>

\* A PEB with an older copy, or one that was torn, is erased; a power cut may come
\* before it has its new header.
Stale(p) ==
  \/ pebs[p].ec = "bad" \/ pebs[p].vid = "bad" \/ pebs[p].data = CutOff
  \/ \E q \in 1 .. Pebs : /\ pebs[q].vid = "ok" /\ pebs[p].vid = "ok" /\ pebs[q].data # CutOff
                          /\ <<pebs[q].vol, pebs[q].lnum>> = <<pebs[p].vol, pebs[p].lnum>>
                          /\ pebs[p].sq < pebs[q].sq
UbiErase(p) ==
  /\ Stale(p)
  /\ \/ pebs' = [pebs EXCEPT ![p] = Free]
     \/ p \notin Early /\ pebs' = [pebs EXCEPT ![p] = Blank]
  /\ UNCHANGED <<leb, vtbl, sq>>

\* At most one bad block, which holds no headers.
UbiInit ==
  /\ \E bad \in 1 .. Pebs, mark \in 0 .. 2 :
       pebs = [p \in 1 .. Pebs |-> IF p = bad /\ mark < 2 THEN [Blank EXCEPT !.mark = mark] ELSE Free]
  /\ leb = [n \in Lebs |-> 0]
  /\ vtbl = 0
  /\ sq = 1

UbiNext ==
  \/ \E p \in 1 .. Pebs, n \in Lebs : UbiWrite(p, n)
  \/ \E p \in 1 .. Pebs : UbiTable(p) \/ UbiTableCopy(p) \/ UbiTorn(p) \/ UbiCut(p) \/ UbiErase(p)

\* The newest PEB of a LEB was cut off behind its header, and not written since.
Damaged(vol, lnum) ==
  \E p \in 1 .. Pebs :
    LET Same(q) == pebs[q].vid = "ok" /\ pebs[q].vol = vol /\ pebs[q].lnum = lnum IN
    Same(p) /\ pebs[p].data = CutOff /\ \A q \in 1 .. Pebs : Same(q) => pebs[q].sq =< pebs[p].sq

\* The volume holds the newest data of every LEB and the name the target gave it
\* last, wherever they lie and whatever bad blocks, older copies and torn headers
\* there are, but for a LEB whose new copy was cut off behind its header: that one
\* is shown, not the old one, and the other LEBs are right.
UbiTrue ==
  LET size == GuessPeb
      used == {n \in Lebs : leb[n] # 0}
  IN /\ size = PebSize
     /\ TableOf(size) = vtbl \/ Damaged(LayoutVolume, 0)
     /\ Len(VolumeData(size)) = IF used = {} THEN 0 ELSE 1 + (CHOOSE n \in used : \A m \in used : m =< n)
     /\ \A i \in DOMAIN VolumeData(size) :
          VolumeData(size)[i] = leb[i - 1] \/ Damaged(Volume, i - 1)
==============================================================================
