SPECIFICATION Spec
CONSTANTS
  w1 = w1
  w2 = w2
  w3 = w3
  w4 = w4
  Waiters <- MCWaiters
  Cancelable <- MCCancelable
  MaxCount = 2
  InitialCount = 1
  ReleaseBound = 4
INVARIANTS
  SemInv
  PermitsConserved
  NoIdlePermit
PROPERTY ImplementsSemaphore
CHECK_DEADLOCK FALSE
