SPECIFICATION Spec
CONSTANTS
  w1 = w1
  w2 = w2
  i1 = i1
  i2 = i2
  i3 = i3
  Workers <- MCWorkers
  Items <- MCItems
CHECK_DEADLOCK FALSE
INVARIANTS PoolInv TakenInOrder
PROPERTY ItemsRun
