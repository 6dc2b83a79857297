SPECIFICATION FairSpec
CONSTANTS
  Blocks = 3
  FileBlocks = 2
  EraseGroup = 2
  MaxJobs = 1
  FaultAt = {"scan", "begin", "work", "end"}
INVARIANTS SuccessIsTrue NothingElseTouched ProtectedAfterJob
PROPERTIES FactoryMarksKept JobsEnd
CHECK_DEADLOCK FALSE
