SPECIFICATION Spec
CONSTANTS
  Capacity = 1
  Contexts = 1
  Records <- ShortRecords
  RecordBytes = 2
  Calls <- LiveCalls
  SpinIters = FALSE
  IdleFailures = 1
  MaxRecords = 1
INVARIANT DiscardAfterWorkers
