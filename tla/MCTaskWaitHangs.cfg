SPECIFICATION Spec
CONSTANTS
  t1 = t1
  t2 = t2
  s1 = s1
  r = r
  w1 = w1
  w2 = w2
  k1 = k1
  k2 = k2
  Kinds <- FuncKinds
  Cancelable = TRUE
  Completers = {}
  Starters <- OneStarter
  Runner = r
  Waiters = {w1, w2}
  Continuations = {k1}
CHECK_DEADLOCK FALSE
PROPERTY WaitReturns
