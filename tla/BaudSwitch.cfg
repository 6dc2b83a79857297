SPECIFICATION FairSpec
CONSTANTS
  R0 = R0
  R1 = R1
  R2 = R2
  Default = R0
  Candidates <- MCCandidates
  MaxFaults = 2
  WatchdogTicks = 10
  AckTicks = 10
  EchoTicks = 4
  RevertTicks = 12
  ResyncTicks = 11
INVARIANTS InStep NegotiatingIsSafe
PROPERTIES OpenRecovers
