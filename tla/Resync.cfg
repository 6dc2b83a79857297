SPECIFICATION FairSpec
CONSTANTS
  Segments <- MCSegments
  MaxRuns = 2
  MaxFaults = 3
  Kills = TRUE
  BusyTicks = 1
  IbTicks = 6
  QuietTicks = 9
  LimitTicks = 30
  ReadTicks = 12
  RunTicks = 21
INVARIANTS BackInStep
PROPERTIES ResyncFinds
CHECK_DEADLOCK FALSE
