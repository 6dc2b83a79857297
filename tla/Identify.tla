------------------------------ MODULE Identify ------------------------------
(***************************************************************************)
(* Which chip is in the socket: detect_nand and detect_spi of flash.py,    *)
(* the ONFI parameter page (onfi.py), the SFDP table (sfdp.py) and the     *)
(* lookups of chipdb.py.                                                   *)
(*                                                                         *)
(* IDs are short sequences of numbers, FF and 0 the bytes of an empty or a *)
(* dead bus.  A geometry is a model value; the size of a serial NOR counts *)
(* in units of which Limit can be reached with three address bytes.        *)
(***************************************************************************)
EXTENDS Integers, Sequences, FiniteSets, SequencesExt

CONSTANTS
  Chips,      \* the chips there are
  Database,   \* the entries of the chip tables, in their order
  Limit,      \* units that three address bytes reach
  GuessSize   \* capacity byte of an ID -> size, for the bytes that have one

VARIABLES
  chip,       \* the chip in the socket
  readable    \* the parameter pages, or the SFDP table, that still read well

identifyVars == <<chip, readable>>

FF == 255
Prefix(a, b) == IsPrefix(a, b)

\* _blank_id
BlankId(id) == \A i \in DOMAIN id : id[i] = FF \/ \A j \in DOMAIN id : id[j] = 0

Entries(table) == SelectSeq(Database, LAMBDA e : e.table = table)

\* find_nand, find_spi_nor, find_spi_nand: of the entries that match, the first
\* with the longest ID; <<>> for none.
Longest(matching) ==
  FoldLeft(LAMBDA best, e : IF best = <<>> THEN <<e>>
                            ELSE IF Len(e.ids) > Len(best[1].ids) THEN <<e>> ELSE best, <<>>, matching)

------------------------------------------------------------------------------
(* What the chip answers *)

Pad(id, n) == SubSeq(id \o [i \in 1 .. n |-> FF], 1, n)

\* Bytes after 90h 00h, after 9Fh, and after 9Fh 00h.  A serial NAND sends its ID
\* at once, after a dummy byte, or after an address byte.
NandId == Pad(IF chip.kind = "nand" THEN chip.id ELSE <<>>, 8)
Jedec ==
  Pad(CASE chip.kind = "nor" -> chip.id
        [] chip.kind = "spinand" /\ chip.readid = "opcode" -> chip.id
        [] chip.kind = "spinand" /\ chip.readid # "opcode" -> <<FF>> \o chip.id
        [] OTHER -> <<>>, 5)
AfterAddr ==
  Pad(CASE chip.kind = "nor" \/ (chip.kind = "spinand" /\ chip.readid = "opcode") -> Tail(chip.id)
        [] chip.kind = "spinand" -> chip.id
        [] OTHER -> <<>>, 3)

\* parse_param_page: the first copy with the signature and a good CRC.
ReadOnfi ==
  LET good == {i \in DOMAIN chip.pages : i \in readable}
  IN IF good = {} THEN <<>>
     ELSE <<chip.pages[CHOOSE i \in good : \A j \in good : i =< j]>>

\* probe_sfdp, parse_header, parse_bfpt.
ReadSfdp == IF chip.sfdp # <<>> /\ 1 \in readable THEN chip.sfdp ELSE <<>>

------------------------------------------------------------------------------
(* detect_nand *)

FindNand(id) == Longest(SelectSeq(Entries("nand"), LAMBDA e : Prefix(e.ids, id)))

\* The driver's geometry and where it comes from; <<>> when there is none.
DetectNand ==
  LET entry == FindNand(NandId)
      onfi == ReadOnfi
  IN IF BlankId(NandId) THEN <<>>
     ELSE IF onfi # <<>> THEN <<[kind |-> "nand", geo |-> onfi[1], from |-> "table"]>>
     ELSE IF entry # <<>> THEN <<[kind |-> "nand", geo |-> entry[1].geo, from |-> "database"]>>
     ELSE <<>>

------------------------------------------------------------------------------
(* detect_spi *)

FindNor(id) == Longest(SelectSeq(Entries("nor"), LAMBDA e : Prefix(e.ids, id)))

\* SpiNandChip.match
Matches(e) ==
  \/ e.readid = "opcode" /\ Prefix(e.ids, Jedec)
  \/ e.readid # "opcode" /\ Prefix(e.ids, AfterAddr)
  \/ e.readid = "opcode_dummy" /\ Prefix(e.ids, Tail(Jedec))
FindSpiNand == Longest(SelectSeq(Entries("spinand"), Matches))

AddrBytes(size) == IF size > Limit THEN 4 ELSE 3
Smallest(erases) == CHOOSE e \in erases : \A f \in erases : e[1] =< f[1]
Standard == {<<1, "20">>, <<8, "52">>, <<16, "D8">>}

\* Slip: the width of the addresses stays that of the entry.
ApplySfdpSize(c, s) ==
  LET erases == IF s.erases # {} THEN s.erases ELSE c.erases
  IN [c EXCEPT !.size = s.size, !.erases = erases, !.block = Smallest(erases)[1],
               !.cmd = Smallest(erases)[2], !.from = "table"]

\* _apply_sfdp: size, erase sizes and commands, address width.
ApplySfdp(c, s) ==
  LET erases == IF s.erases # {} THEN s.erases ELSE c.erases
  IN [c EXCEPT !.size = s.size, !.erases = erases, !.block = Smallest(erases)[1],
               !.cmd = Smallest(erases)[2], !.addr = AddrBytes(s.size), !.from = "table"]

\* A driver for the standard 25 series, and for an entry of the table.
Generic(size, from) ==
  [kind |-> "nor", size |-> size, erases |-> Standard, block |-> 1, cmd |-> "20",
   addr |-> AddrBytes(size), linear |-> TRUE, from |-> from]
\* Every entry above 16 MiB has four address bytes, as the table computes them.
OfEntry(e) ==
  [kind |-> "nor", size |-> e.size, erases |-> e.erases, block |-> Smallest(e.erases)[1],
   cmd |-> Smallest(e.erases)[2], addr |-> AddrBytes(e.size), linear |-> e.linear, from |-> "database"]

DetectSpi ==
  LET nor == FindNor(Jedec)
      nand == FindSpiNand
      sfdp == ReadSfdp
  IN IF BlankId(Jedec) /\ BlankId(AfterAddr) THEN <<>>
     ELSE IF nor = <<>> /\ nand # <<>> /\ sfdp = <<>>
     THEN <<[kind |-> "spinand", geo |-> nand[1].geo, from |-> "database"]>>
     ELSE IF nor # <<>>
     THEN <<IF sfdp # <<>> /\ nor[1].linear THEN ApplySfdp(OfEntry(nor[1]), sfdp[1]) ELSE OfEntry(nor[1])>>
     ELSE IF sfdp # <<>> THEN <<ApplySfdp(Generic(sfdp[1].size, "table"), sfdp[1])>>
     ELSE IF Jedec[3] \in DOMAIN GuessSize THEN <<Generic(GuessSize[Jedec[3]], "guess")>>
     ELSE <<>>

------------------------------------------------------------------------------
(* The socket: a chip whose copies of its own table rot one by one. *)

Rot(i) ==
  /\ readable' = readable \ {i}
  /\ UNCHANGED chip
Replace(c) ==
  /\ chip' = c
  /\ readable' = 1 .. 3

IdentifyInit == chip \in Chips /\ readable = 1 .. 3
IdentifyNext ==
  \/ \E i \in readable : Rot(i)
  \/ \E c \in Chips : Replace(c)

Found == IF chip.kind = "nand" THEN DetectNand ELSE DetectSpi

\* A listed chip, or one that describes itself, gets the driver of its kind with
\* its own geometry: its own table counts more than the database, the longest ID
\* more than a shorter one, one good copy of the parameter page is enough, every
\* unit can be addressed, and the erase command erases as much as the driver takes
\* it to.  A chip that is neither gets no driver, a size that is marked as a guess,
\* or the entry whose ID it bears; an empty socket gets none.
GeometryTrue ==
  LET tables == (chip.kind = "nand" /\ ReadOnfi # <<>>) \/ (chip.kind = "nor" /\ ReadSfdp # <<>>)
  IN /\ (chip.listed \/ tables) =>
          /\ Len(Found) = 1
          /\ Found[1].kind = chip.kind
          /\ chip.kind # "nor" => Found[1].geo = chip.geo
          /\ chip.kind = "nor" =>
               /\ Found[1].size = chip.size
               /\ Found[1].addr = AddrBytes(chip.size)
               /\ <<Found[1].block, Found[1].cmd>> \in chip.erases
     /\ ~(chip.listed \/ tables) /\ Found # <<>> =>
          \/ Found[1].from = "guess"
          \/ \E i \in DOMAIN Database : Prefix(Database[i].ids, chip.id)
     /\ chip.kind = "none" => DetectNand = <<>> /\ DetectSpi = <<>>
==============================================================================
