SPECIFICATION Spec
CONSTANTS
  Phases = 5
  Rounds = 4
  RoundTicks = 3
  WdTicks = 2
  WaitTicks = 3
  Qualities <- QualitiesV
  MaxCycles = 1
INVARIANTS LinkKept TuneTrue
