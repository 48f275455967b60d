SPECIFICATION Spec
CONSTANTS
  Capacity = 2
  Contexts = 2
  Records <- MixedRecords
  RecordBytes = 2
  Calls <- StreamCalls
  SpinIters = FALSE
  IdleFailures = 1
  MaxRecords = 3
INVARIANTS TypeOK InOrder FinalIsWhole SlotsHeld DiscardCountsWorkers
