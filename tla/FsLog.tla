------------------------------- MODULE FsLog --------------------------------
(***************************************************************************)
(* The readers of log-structured file systems: jffs2.py and ubifs.py.      *)
(*                                                                         *)
(* Neither walks an index: they scan every node of an image, keep the      *)
(* newest of each inode, directory entry and block, and build the tree     *)
(* from those.  The writer is the file system of a running target, outside *)
(* the program: the model keeps what the readers rely on, the version (or  *)
(* sequence number) that grows with every node, the nodes each operation   *)
(* leaves, the nodes that stay behind until the cleaner takes them, and    *)
(* those a power cut tore.  The readers do not see every tear, and a       *)
(* UBIFS cleaner takes nodes that a reader without the index still needs:  *)
(* the property says how far the damage goes.                              *)
(*                                                                         *)
(* A file is a sequence of cells, 0 a zero byte; an inode is a number, 1   *)
(* the root and DirIno a directory in it.                                  *)
(***************************************************************************)
EXTENDS Integers, Sequences, FiniteSets, SequencesExt

CONSTANTS
  Names,      \* names in a directory
  Inos,       \* inodes of files
  DirIno,     \* inode of the directory "d"
  FileCells,      \* cells of the longest file
  Blk,        \* cells of a UBIFS block
  MaxNodes,   \* nodes on the medium, for each format
  MaxClock    \* and nodes ever written

VARIABLES
  fmt,        \* "jffs2" or "ubifs"
  log,        \* the nodes, in the order of the scan
  dir,        \* what the target sees: the inode a key names, 0 for none
  file,       \* the target's files
  clock,      \* version of the next node
  gone        \* nodes the cleaner took while older ones they overrule remain

fsVars == <<fmt, log, dir, file, clock, gone>>

Keys == {1, DirIno} \X Names
IsDir(ino) == ino = DirIno

Biggest(S) == CHOOSE x \in S : \A y \in S : y =< x
Lesser(a, b) == IF a < b THEN a ELSE b

------------------------------------------------------------------------------
(* Nodes.  crc: "ok"; "node" when the CRC of the node is wrong; "data" when that *)
(* of a JFFS2 node's header is right and that of its data or name wrong.        *)

Dirent(p, name, ino, v) ==
  [t |-> "dirent", key |-> <<p, name>>, ino |-> ino, version |-> v, crc |-> "ok"]
\* JFFS2: an inode carries a range of data; raw is <<>> when it is a hole.
Inode(ino, isize, off, dsize, raw, v) ==
  [t |-> "inode", ino |-> ino, isize |-> isize, off |-> off, dsize |-> dsize, raw |-> raw,
   version |-> v, crc |-> "ok"]
\* UBIFS: sizes, blocks and truncations are nodes of their own.
Ino(ino, size, nlink, v) ==
  [t |-> "ino", ino |-> ino, size |-> size, nlink |-> nlink, version |-> v, crc |-> "ok"]
Data(ino, block, raw, v) ==
  [t |-> "data", ino |-> ino, block |-> block, raw |-> raw, version |-> v, crc |-> "ok"]
Trun(ino, size, v) == [t |-> "trun", ino |-> ino, size |-> size, version |-> v, crc |-> "ok"]

\* _scan, _scan_leb: nodes whose CRC is wrong are counted and passed over.  A UBIFS
\* node has one CRC; of the two of a JFFS2 node only the header's is compared.
Good(t) == SelectSeq(log, LAMBDA n : n.crc # "node" /\ n.t = t)
GoodSet(t) == {Good(t)[i] : i \in DOMAIN Good(t)}

\* The first of the nodes with the greatest version, in scan order.
Newest(nodes) ==
  FoldLeft(LAMBDA best, n : IF best = <<>> THEN <<n>>
                            ELSE IF n.version > best[1].version THEN <<n>> ELSE best, <<>>, nodes)

\* _dirent, _dent: what a key names.
Named(key) ==
  LET best == Newest(SelectSeq(Good("dirent"), LAMBDA n : n.key = key))
  IN IF best = <<>> THEN 0 ELSE best[1].ino

------------------------------------------------------------------------------
(* JFFS2 *)

JffsInode(ino) == Newest(SelectSeq(Good("inode"), LAMBDA n : n.ino = ino))
JffsCovering(ino, c) ==
  {n \in GoodSet("inode") : n.ino = ino /\ n.off < c /\ c =< n.off + n.dsize}

\* _data: zeros up to isize, then every data node in the order of the versions.
JffsData(ino) ==
  LET latest == JffsInode(ino)
      Cell(c) ==
        LET over == JffsCovering(ino, c)
        IN IF over = {} THEN 0
           ELSE LET n == CHOOSE m \in over : \A k \in over : k.version =< m.version
                IN IF n.raw = <<>> THEN 0 ELSE n.raw[c - n.off]
  IN IF latest = <<>> THEN <<>> ELSE [c \in 1 .. latest[1].isize |-> Cell(c)]

------------------------------------------------------------------------------
(* UBIFS *)

UbifsIno(ino) == Newest(SelectSeq(Good("ino"), LAMBDA n : n.ino = ino))
UbifsLinked(ino) == UbifsIno(ino) # <<>> /\ UbifsIno(ino)[1].nlink > 0

\* Slip: a truncation cuts the blocks that were written after it too.
CutAwayForEver(n) ==
  \E t \in GoodSet("trun") : t.ino = n.ino /\ n.block * Blk >= t.size

\* A later truncation cut the block away.
CutAway(n) ==
  \E t \in GoodSet("trun") : t.ino = n.ino /\ n.version < t.version /\ n.block * Blk >= t.size

\* _file: zeros up to the size, then the newest node of every block.
UbifsData(ino) ==
  LET size == UbifsIno(ino)[1].size
      Block(b) == Newest(SelectSeq(Good("data"), LAMBDA n : n.ino = ino /\ n.block = b))
      Cell(c) ==
        LET b == (c - 1) \div Blk
            best == Block(b)
        IN IF best = <<>> THEN 0
           ELSE IF CutAway(best[1]) \/ c - b * Blk > Len(best[1].raw) THEN 0
           ELSE best[1].raw[c - b * Blk]
  IN [c \in 1 .. size |-> Cell(c)]

------------------------------------------------------------------------------
(* entries(): the tree from the root, each directory once. *)

Live(key) ==
  /\ Named(key) # 0
  /\ fmt = "ubifs" => UbifsLinked(Named(key))
Reached == {1} \cup {i \in {DirIno} : Live(<<1, "d">>) /\ Named(<<1, "d">>) = i}
Contents(ino) == IF fmt = "jffs2" THEN JffsData(ino) ELSE UbifsData(ino)
Listed == {k \in {n.key : n \in GoodSet("dirent")} \ {<<1, "d">>} : k[1] \in Reached /\ Live(k)}

------------------------------------------------------------------------------
(* The target: what it writes *)

\* Nodes go to the block being filled, before or behind the others in the scan.
Place(nodes) ==
  /\ Len(log) + Len(nodes) =< MaxNodes[fmt] /\ clock + Len(nodes) =< MaxClock[fmt]
  /\ log' \in {log \o nodes, nodes \o log}
  /\ clock' = clock + Len(nodes)
  /\ UNCHANGED gone

Links(ino) == Cardinality({k \in Keys : dir[k] = ino})
Size(ino) == Len(file[ino])

FsLink(k, ino) ==
  /\ dir[k] = 0
  /\ dir' = [dir EXCEPT ![k] = ino]
  /\ Place(<<Dirent(k[1], k[2], ino, clock)>>
           \o IF fmt = "ubifs" THEN <<Ino(ino, Size(ino), Links(ino) + 1, clock + 1)>>
              ELSE IF Links(ino) = 0 THEN <<Inode(ino, Size(ino), 0, 0, <<>>, clock + 1)>>
              ELSE <<>>)
  /\ UNCHANGED <<fmt, file>>

FsUnlink(k) ==
  /\ dir[k] # 0
  /\ Links(dir[k]) > 1     \* the last name of a file stays: inodes are not used again
  /\ dir' = [dir EXCEPT ![k] = 0]
  /\ Place(<<Dirent(k[1], k[2], 0, clock)>>
           \o IF fmt = "ubifs" THEN <<Ino(dir[k], Size(dir[k]), Links(dir[k]) - 1, clock + 1)>>
              ELSE <<>>)
  /\ UNCHANGED <<fmt, file>>

\* One cell is written, with a value of its own; behind the end of a file, the gap is a hole.
Written(ino, c) ==
  [k \in 1 .. Biggest({Size(ino), c}) |->
     IF k = c THEN clock ELSE IF k =< Size(ino) THEN file[ino][k] ELSE 0]
BlockOf(f, b) == SubSeq(f, b * Blk + 1, Lesser((b + 1) * Blk, Len(f)))

FsWrite(ino, c) ==
  LET f == Written(ino, c) IN
  /\ Links(ino) > 0
  /\ file' = [file EXCEPT ![ino] = f]
  /\ Place(IF fmt = "ubifs"
           THEN <<Data(ino, (c - 1) \div Blk, BlockOf(f, (c - 1) \div Blk), clock),
                  Ino(ino, Len(f), Links(ino), clock + 1)>>
           ELSE IF c =< Size(ino) + 1 THEN <<Inode(ino, Len(f), c - 1, 1, <<clock>>, clock)>>
           ELSE <<Inode(ino, c - 1, Size(ino), c - 1 - Size(ino), <<>>, clock),
                  Inode(ino, Len(f), c - 1, 1, <<clock>>, clock + 1)>>)
  /\ UNCHANGED <<fmt, dir>>

FsTruncate(ino, n) ==
  LET f == SubSeq(file[ino], 1, n)
      b == n \div Blk
  IN /\ Links(ino) > 0 /\ n < Size(ino)
     /\ file' = [file EXCEPT ![ino] = f]
     /\ Place(IF fmt = "ubifs"
              THEN <<Ino(ino, n, Links(ino), clock), Trun(ino, n, clock + 1)>>
                   \o IF n % Blk = 0 THEN <<>> ELSE <<Data(ino, b, BlockOf(f, b), clock + 2)>>
              ELSE <<Inode(ino, n, 0, 0, <<>>, clock)>>)
     /\ UNCHANGED <<fmt, dir>>

\* A power cut while a node is written.  Its CRC is wrong, and the next node gets
\* its version; or the cut came behind the header of a JFFS2 node, in its name or
\* in its data (not compressed: a compressed node may make its file unreadable).
Garbled(n) ==
  IF n.t = "dirent" THEN [n EXCEPT !.key[2] = "torn", !.crc = "data"]
  ELSE [n EXCEPT !.raw = <<-1>>, !.crc = "data"]
FsTorn(n) ==
  /\ Len(log) < MaxNodes[fmt] /\ \A i \in DOMAIN log : log[i].crc = "ok"
  /\ \/ log' = Append(log, [n EXCEPT !.crc = "node"]) /\ UNCHANGED clock
     \/ /\ fmt = "jffs2" /\ clock < MaxClock[fmt]
        /\ log' = Append(log, Garbled(n)) /\ clock' = clock + 1
  /\ UNCHANGED <<fmt, dir, file, gone>>

\* What is torn: the entry of a link, a rename or an unlink, or a write.
FsCut ==
  \/ \E k \in Keys, i \in {0} \cup Inos :
       (i = 0 <=> dir[k] # 0) /\ FsTorn(Dirent(k[1], k[2], i, clock))
  \/ \E i \in Inos, c \in 1 .. FileCells :
       /\ Links(i) > 0 /\ c =< Size(i) + 1
       /\ FsTorn(IF fmt = "ubifs" THEN Data(i, (c - 1) \div Blk, <<>>, clock)
                 ELSE Inode(i, Biggest({Size(i), c}), c - 1, 1, <<clock>>, clock))

\* A newer node says all a node says.
Superseded(n) ==
  \E m \in {log[i] : i \in DOMAIN log} :
    /\ m.crc = "ok" /\ m.t = n.t /\ m.version > n.version
    /\ CASE n.t = "dirent" -> m.key = n.key
         [] n.t = "inode" -> m.ino = n.ino /\ m.off =< n.off /\ n.off + n.dsize =< m.off + m.dsize
         [] n.t = "ino" -> m.ino = n.ino
         [] n.t = "data" -> m.ino = n.ino /\ m.block = n.block
         [] OTHER -> FALSE

\* UBIFS keeps no truncation and no deletion in its index: to its cleaner they are
\* waste, whether or not the nodes they overrule have been cleaned.
Unindexed(n) == fmt = "ubifs" /\ (n.t = "trun" \/ (n.t = "dirent" /\ n.ino = 0))
Overrules(n, m) ==
  /\ m.version < n.version
  /\ IF n.t = "trun" THEN m.t = "data" /\ m.ino = n.ino /\ m.block * Blk >= n.size
     ELSE m.t = "dirent" /\ m.key = n.key

\* The cleaner takes a node that is torn, superseded or waste.
FsClean(i) ==
  /\ log[i].crc # "ok" \/ Superseded(log[i]) \/ Unindexed(log[i])
  /\ log' = RemoveAt(log, i)
  /\ gone' = {n \in gone \cup {log[i]} :
                Unindexed(n) /\ \E j \in DOMAIN log' : Overrules(n, log'[j])}
  /\ UNCHANGED <<fmt, dir, file, clock>>

\* A directory, and an empty file in the root.
FsInit ==
  LET k == CHOOSE q \in Keys : q[1] = 1
      i == CHOOSE j \in Inos : TRUE
  IN /\ fmt \in {"jffs2", "ubifs"}
     /\ dir = [q \in Keys |-> IF q = k THEN i ELSE 0]
     /\ file = [j \in Inos |-> <<>>]
     /\ log = <<Dirent(1, "d", DirIno, 0), Dirent(1, k[2], i, 1)>>
              \o IF fmt = "ubifs" THEN <<Ino(DirIno, 0, 1, 2), Ino(i, 0, 1, 3)>>
                 ELSE <<Inode(i, 0, 0, 0, <<>>, 3)>>
     /\ clock = 4
     /\ gone = {}

FsNext ==
  \/ \E k \in Keys, i \in Inos : FsLink(k, i)
  \/ \E k \in Keys : FsUnlink(k)
  \/ \E i \in Inos, c \in 1 .. FileCells : FsWrite(i, c)
  \/ \E i \in Inos, n \in 0 .. FileCells : FsTruncate(i, n)
  \/ FsCut
  \/ \E i \in DOMAIN log : FsClean(i)

\* Where a dump is not to be trusted: a cell whose newest node is torn in its data;
\* one in a block that was cut off, not written since, when the cleaner has taken
\* the truncation before the data; a torn name; a name removed, when the cleaner
\* has taken the deletion before the entry.
Damaged(ino, c) ==
  LET b == (c - 1) \div Blk IN
  \/ \E n \in JffsCovering(ino, c) :
       n.crc = "data" /\ \A m \in JffsCovering(ino, c) : m.version =< n.version
  \/ \E t \in gone : /\ t.t = "trun" /\ t.ino = ino /\ b * Blk >= t.size
                    /\ \A m \in GoodSet("data") : m.ino = ino /\ m.block = b => m.version < t.version
Doubtful(k) ==
  \/ k[2] = "torn"
  \/ \E d \in gone : /\ d.t = "dirent" /\ d.key = k
                    /\ \A m \in GoodSet("dirent") : m.key = k => m.version < d.version

\* What the reader lists is what the target sees, every name with the contents of
\* its file, but for the damage above, which goes no further: the other names, the
\* other cells and the end of a file are right.  An overwrite, a truncation before
\* a longer write, a rename (a second name, then the first one goes) and the order
\* of the nodes do not show.
FilesTrue ==
  /\ \A k \in Keys : dir[k] # 0 => k \in Listed /\ Named(k) = dir[k]
  /\ \A k \in Listed : (k \in Keys /\ dir[k] # 0) \/ Doubtful(k)
  /\ \A i \in {j \in Inos : Links(j) > 0} :
       LET shown == Contents(i) IN
       \A c \in 1 .. FileCells :
         \/ Damaged(i, c)
         \/ IF c =< Size(i) THEN c =< Len(shown) /\ shown[c] = file[i][c] ELSE c > Len(shown)
==============================================================================
