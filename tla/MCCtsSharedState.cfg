SPECIFICATION CtsSpec
CONSTANTS
  r1 = r1
  r2 = r2
  r3 = r3
  r4 = r4
  c1 = c1
  c2 = c2
  Callbacks <- MCCallbacks
  Cancelers <- MCCancelers
  Inert <- MCInert
  Throwing <- MCThrowing
INVARIANTS
  CtsInv
  NoCallbackLost
PROPERTY ImplementsContract
CHECK_DEADLOCK FALSE
