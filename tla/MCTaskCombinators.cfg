SPECIFICATION Spec
CONSTANTS
  task1 = task1
  task2 = task2
  future1 = future1
  all1 = all1
  rest1 = rest1
  one1 = one1
  two1 = two1
  bind1 = bind1
  block1 = block1
  user1 = user1
  map1 = map1
  shared1 = shared1
  run1 = run1
  hop1 = hop1
  any1 = any1
  proxy1 = proxy1
  ui1 = ui1
  none1 = none1
  std1 = std1
  Sources = {task1, task2, future1}
  Futures = {future1, shared1}
  Outcomes <- MCOutcomes
  Combined = {any1, proxy1}
  Coroutines <- MCCoroutines
  Program <- MCProgram
  Collector <- MCCollector
  Ends <- MCEnds
  Contexts = {ui1, std1}
  Scope <- MCScope
  Default = std1
  Settings <- MCSettings
  Uses <- MCUses
  Nobody = none1
  AnyOf <- MCAny
  Outer <- MCOuter
  Inner <- MCInner
CHECK_DEADLOCK FALSE
INVARIANTS ResumedOnce OutcomesFit ContextKept
PROPERTIES CoroutinesFinish CombinatorsAnswer
