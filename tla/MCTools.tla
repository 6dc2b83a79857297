------------------------------ MODULE MCTools ------------------------------
(* Instance of Tools: two Hamming layouts and a short BCH one over GF(32),  *)
(* and a world of chips with two IDs that share a prefix in every table.    *)
EXTENDS Tools

hamming256 == [scheme |-> "hamming", step |-> 256, ecc |-> 3, off |-> -1, page |-> 512, oob |-> 16]
hamming512 == [hamming256 EXCEPT !.step = 512]
bch == [scheme |-> "bch", step |-> 2, ecc |-> 2, off |-> 1, page |-> 4, oob |-> 6]
LayoutsV == {hamming256, hamming512, bch}
DoubleLayoutsV == {hamming512}
PageContentsV == [hamming |-> { [main |-> {}, spare |-> {}], [main |-> {<<0, 0>>, <<300, 5>>}, spare |-> {}],
                            [main |-> {<<511, 7>>}, spare |-> {<<3, 1>>, <<12, 1>>}] },
              bch |-> { [main |-> {}, spare |-> {}], [main |-> {<<0, 0>>, <<1, 5>>}, spare |-> {<<5, 1>>}] }]
FlipCellsV(l) ==
  IF l.scheme = "bch"
  THEN ({0, 1} \X (0 .. 7)) \cup ({5} \X (0..7)) \cup ({6} \X {6,7}) \cup {<<2, 1>>}
  ELSE ({0, 63, 85, 255, 300} \X {0, 3, 7}) \cup ((LET e == EccAt(l, 1) IN e .. (e + 2)) \X (0 .. 7))
SizesV == <<1, 2, 4, 8>>
MaxNodesV == [jffs2 |-> 6, ubifs |-> 8]
MaxClockV == [jffs2 |-> 9, ubifs |-> 11]

nand(id, geo, pages, listed) == [kind |-> "nand", id |-> id, geo |-> geo, pages |-> pages, sfdp |-> <<>>, listed |-> listed]
nor(id, size, erases, sfdp, listed) ==
  [kind |-> "nor", id |-> id, size |-> size, erases |-> erases, sfdp |-> sfdp, pages |-> <<>>, listed |-> listed]
spinand(id, readid, geo, listed) ==
  [kind |-> "spinand", id |-> id, readid |-> readid, geo |-> geo, sfdp |-> <<>>, pages |-> <<>>, listed |-> listed]
standard == {<<1, "20">>, <<8, "52">>, <<16, "D8">>}
e64 == {<<16, "D8">>}
ChipsV == {
  [kind |-> "none", sfdp |-> <<>>, pages |-> <<>>, listed |-> FALSE],
  nand(<<1, 2>>, "a", <<>>, TRUE),
  nand(<<1, 2, 3, 4, 5>>, "b", <<>>, TRUE),
  nand(<<1, 2, 3, 4, 5>>, "c", <<"c", "c", "c">>, FALSE),
  nand(<<1, 9, 3, 4, 5>>, "d", <<"d", "d", "d">>, FALSE),
  nand(<<1, 9, 3>>, "d", <<>>, FALSE),
  nor(<<1, 2, 3>>, 10, standard, <<>>, TRUE),
  nor(<<1, 2, 3>>, 20, e64, <<[size |-> 20, erases |-> e64]>>, FALSE),
  nor(<<1, 2, 6>>, 30, standard, <<[size |-> 30, erases |-> {}]>>, FALSE),
  nor(<<1, 2, 7>>, 30, standard, <<>>, FALSE),
  nor(<<1, 7, 9>>, 30, e64, <<[size |-> 30, erases |-> e64]>>, TRUE),
  spinand(<<1, 2>>, "opcode_dummy", "s", TRUE),
  spinand(<<1, 2, 5>>, "opcode_dummy", "t", TRUE),
  spinand(<<4, 2>>, "opcode", "u", TRUE),
  spinand(<<5, 2>>, "opcode_addr", "v", TRUE) }
DatabaseV == <<
  [table |-> "nand", ids |-> <<1, 2>>, geo |-> "a"],
  [table |-> "nand", ids |-> <<1, 2, 3, 4, 5>>, geo |-> "b"],
  [table |-> "nor", ids |-> <<1, 7>>, size |-> 2, erases |-> {<<2, "50">>}, linear |-> TRUE],
  [table |-> "nor", ids |-> <<1, 2, 3>>, size |-> 10, erases |-> standard, linear |-> TRUE],
  [table |-> "nor", ids |-> <<1, 7, 9>>, size |-> 30, erases |-> e64, linear |-> TRUE],
  [table |-> "spinand", ids |-> <<1, 2>>, readid |-> "opcode_dummy", geo |-> "s"],
  [table |-> "spinand", ids |-> <<1, 2, 5>>, readid |-> "opcode_dummy", geo |-> "t"],
  [table |-> "spinand", ids |-> <<4, 2>>, readid |-> "opcode", geo |-> "u"],
  [table |-> "spinand", ids |-> <<5, 2>>, readid |-> "opcode_addr", geo |-> "v"] >>
GuessSizeV == [b \in {3, 6} |-> 10]
==============================================================================
