SPECIFICATION StrandSpec
CONSTANTS
  i1 = i1
  i2 = i2
  i3 = i3
  i4 = i4
  i5 = i5
  WorkItems <- MCItems
INVARIANTS StrandInv MutualExclusion
PROPERTY ImplementsExecutor
CHECK_DEADLOCK FALSE
