SPECIFICATION Spec
CONSTANTS
  i1 = i1
  i2 = i2
  i3 = i3
  t1 = t1
  t2 = t2
  t3 = t3
  Items <- MCItems
  Takers <- MCTakers
  Cancelable <- MCCancelable
  MaxCount = 3
CHECK_DEADLOCK FALSE
INVARIANTS CollectionInv TakeNeverFails InOrder
PROPERTY TakersServed
