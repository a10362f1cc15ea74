SPECIFICATION Spec
CONSTANTS
  MaxStream = 6
  MaxInput = 2
  Chunk = 2
INVARIANTS LinesExact LongLinesOnly
PROPERTY EveryLineHandled
CHECK_DEADLOCK FALSE
