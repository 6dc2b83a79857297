SPECIFICATION Spec
CONSTANTS
  Blocks = 2
  PPB = 2
  DataSet <- SomeData
  OldPages <- SomeOld
  MaxOps = 2
  Kinds = {"large", "small", "spi"}
INVARIANTS DataTrue OkMeansDone OnlyNamedRows MarkersSeen
CHECK_DEADLOCK FALSE
