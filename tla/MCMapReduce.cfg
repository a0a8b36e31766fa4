SPECIFICATION MapReduceSpec
CONSTANTS
  HardwareThreads = 3
  Lines = 9
  BatchSize = 2
CHECK_DEADLOCK FALSE
INVARIANTS CountedOnce DestroyedIsDone
PROPERTY Finishes
