SPECIFICATION FairSpec
CONSTANTS
  Batches <- MCBatches
  Window = 6
  RxFifo = 6
  LinkBuf = 2
  UpBuf = 1
INVARIANTS IndInv NoOverflow ResultsExact
PROPERTIES ImplementsPromise RunEnds
CHECK_DEADLOCK FALSE
