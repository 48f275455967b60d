SPECIFICATION Spec
CONSTANTS
  Capacity = 1
  Contexts = 2
  Records <- UntaggedRecords
  RecordBytes = 2
  Calls <- WatchdogCalls
  SpinIters = TRUE
  IdleFailures = 1
  MaxRecords = 2
INVARIANTS NeverRefused InactiveIsClean FinalWholeOrReset
PROPERTIES CleanStart ImplementsRecordStream
