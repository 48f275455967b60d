SPECIFICATION Spec
CONSTANTS
  Topologies <- TopologySet
  MaxResets = 1
  MaxQueued = 2
INVARIANTS TypeOK AsyncAsSync SnapshotCurrent FrameExact CoverageFollows ReleasedIsWhole NoInternalFailure
PROPERTY NoMissedResult
