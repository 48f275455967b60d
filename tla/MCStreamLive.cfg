SPECIFICATION LiveSpec
CONSTANTS
  Capacity = 1
  Contexts = 1
  Records <- UntaggedRecords
  RecordBytes = 2
  Calls <- SecondThreadCalls
  SpinIters = TRUE
  IdleFailures = 0
  MaxRecords = 2
PROPERTY CallsReturn
