-------------------------------- MODULE Tools --------------------------------
(***************************************************************************)
(* The parts of the program that compute and keep no state of their own,   *)
(* each beside the thing it reads: a raw page and its ECC (Image), a file  *)
(* system on a dump (FsLog), the UBI volumes of a dump (Ubi), the board    *)
(* the wiring check looks at (Wiring), the chip in the socket (Identify).  *)
(* A behaviour is the history of one of them; after every step the         *)
(* properties compare what the program says of it with what it is.         *)
(***************************************************************************)
EXTENDS Image

CONSTANTS Names, Inos, DirIno, FileCells, Blk, MaxNodes, MaxClock,  \* FsLog
          Pebs, Sizes, PebSize, Lebs, MaxSq,                        \* Ubi
          FaultPins, MaxShorts, MaxStuck,                           \* Wiring
          Chips, Database, Limit, GuessSize,                        \* Identify
          Tasks       \* "image", "fs", "ubi", "wiring", "identify"

VARIABLES
  task,
  fmt, log, dir, file, clock, gone,
  pebs, leb, vtbl, sq,
  shorts, stuck,
  chip, readable

F == INSTANCE FsLog
U == INSTANCE Ubi
W == INSTANCE Wiring
D == INSTANCE Identify

fsVars == <<fmt, log, dir, file, clock, gone>>
ubiVars == <<pebs, leb, vtbl, sq>>
wiringVars == <<shorts, stuck>>
identifyVars == <<chip, readable>>
toolVars == <<task, imageVars, fsVars, ubiVars, wiringVars, identifyVars>>

\* A thing that is not looked at.
NoImage == lay = 0 /\ written = 0 /\ flips = {}
NoFs == fmt = 0 /\ log = 0 /\ dir = 0 /\ file = 0 /\ clock = 0 /\ gone = 0
NoUbi == pebs = 0 /\ leb = 0 /\ vtbl = 0 /\ sq = 0
NoBoard == shorts = 0 /\ stuck = 0
NoChip == chip = 0 /\ readable = 0

Init ==
  /\ task \in Tasks
  /\ IF task = "image" THEN ImageInit ELSE NoImage
  /\ IF task = "fs" THEN F!FsInit ELSE NoFs
  /\ IF task = "ubi" THEN U!UbiInit ELSE NoUbi
  /\ IF task = "wiring" THEN W!WiringInit ELSE NoBoard
  /\ IF task = "identify" THEN D!IdentifyInit ELSE NoChip

Next ==
  \/ /\ task = "image" /\ ImageNext
     /\ UNCHANGED <<task, fsVars, ubiVars, wiringVars, identifyVars>>
  \/ /\ task = "fs" /\ F!FsNext
     /\ UNCHANGED <<task, imageVars, ubiVars, wiringVars, identifyVars>>
  \/ /\ task = "ubi" /\ U!UbiNext
     /\ UNCHANGED <<task, imageVars, fsVars, wiringVars, identifyVars>>
  \/ /\ task = "wiring" /\ W!WiringNext
     /\ UNCHANGED <<task, imageVars, fsVars, ubiVars, identifyVars>>
  \/ /\ task = "identify" /\ D!IdentifyNext
     /\ UNCHANGED <<task, imageVars, fsVars, ubiVars, wiringVars>>

Spec == Init /\ [][Next]_toolVars

------------------------------------------------------------------------------
(* Properties: see the modules for what they say. *)

\* Flips that the code can correct are undone, and nothing else is touched (ecc.py,
\* image.py).
FlipsUndone == task = "image" => EccRestores


\* A dump gives the volumes and the files the target had (ubi.py, fs/).
DumpTrue == (task = "fs" => F!FilesTrue) /\ (task = "ubi" => U!UbiTrue)

\* The wiring check names exactly the faults there are (doctor.py).
FaultsNamed == task = "wiring" => W!DoctorExact

\* A chip is driven with its own geometry (flash.py, chipdb.py, onfi.py, sfdp.py).
ChipKnown == task = "identify" => D!GeometryTrue
==============================================================================
