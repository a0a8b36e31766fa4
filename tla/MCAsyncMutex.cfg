SPECIFICATION Spec
CONSTANTS
  c1 = c1
  c2 = c2
  c3 = c3
  g1 = g1
  g2 = g2
  g3 = g3
  g4 = g4
  Calls <- MCCalls
  Guards <- MCGuards
CHECK_DEADLOCK FALSE
INVARIANTS MutexInv MutualExclusion
PROPERTY LockGranted
