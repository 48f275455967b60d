SPECIFICATION Spec
CONSTANTS
  Topologies <- SharedSet
  MaxResets = 0
  MaxQueued = 1
INVARIANT CoverageFollows
