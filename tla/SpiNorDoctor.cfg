SPECIFICATION Spec
CONSTANTS
  Units = 3
  PPU = 2
  Sizes = {1, 2}
  Group = 2
  FilePages = 3
  BlankPages = {2}
  ProgBatch = 1
  Big = TRUE
  QeReg = 1
  MaxJobs = 2
  FaultAt = {"doctor"}
INVARIANTS OthersKept
CHECK_DEADLOCK FALSE
