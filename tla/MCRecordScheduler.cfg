SPECIFICATION Spec
CONSTANTS
  Graphs <- GraphSet
  NumContexts = 2
  Workers = {w1, w2}
SYMMETRY Symmetric
INVARIANTS ValuesIntact WindowsWhole JoinsExact OperationAttribution JoinTableFits NoStall NoInternalError CleanShot
PROPERTY SequentialOrder
