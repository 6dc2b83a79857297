SPECIFICATION Spec
CONSTANTS
  Tasks = {"image", "fs", "ubi", "wiring", "identify"}
  M = 5
  Prim = {0, 2, 5}
  T = 2
  Step = 2
  Layouts <- LayoutsV
  PageContents <- PageContentsV
  FlipCells <- FlipCellsV
  MaxFlips = 2
  Names = {"a"}
  Inos = {2}
  DirIno = 9
  FileCells = 3
  Blk = 2
  MaxNodes <- MaxNodesV
  MaxClock <- MaxClockV
  Pebs = 4
  Sizes <- SizesV
  PebSize = 2
  Lebs = {0, 1}
  MaxSq = 4
  FaultPins = {0, 8, 9, 16}
  MaxShorts = 2
  MaxStuck = 2
  Chips <- ChipsV
  Database <- DatabaseV
  Limit = 16
  GuessSize <- GuessSizeV
INVARIANTS FlipsUndone DumpTrue FaultsNamed ChipKnown
CHECK_DEADLOCK FALSE
