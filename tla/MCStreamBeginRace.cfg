SPECIFICATION FairSpec
CONSTANTS
  Capacity = 1
  Contexts = 1
  Records <- ShortRecords
  RecordBytes = 2
  Calls <- EnqueueAndRead
  SpinIters = FALSE
  IdleFailures = 1
  MaxRecords = 1
PROPERTY CallsReturn
