SPECIFICATION Spec
CONSTANTS
  b1 = b1
  b2 = b2
  b3 = b3
  i1 = i1
  i2 = i2
  Blocks <- MCBlocks
  First = b1
  Successors <- MCSuccessors
  Accepts <- MCAccepts
  Items <- MCItems
  MayFail <- MCMayFail
CHECK_DEADLOCK FALSE
INVARIANTS FlowInv ArrivesUnlessFailed
PROPERTIES SettledIsFinal AllComplete CallsReturn
