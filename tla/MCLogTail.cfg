\* the log of one job, from its ring buffer to the driver's terminal
CONSTANTS
  Text <- MCText
  LOG_CAP = 3
  LogLines = 2
  MaxWritten = 5
SPECIFICATION TailSpec
INVARIANTS
  PrintedInOrder
  HandledTailIsPrinted
  DoneLogIsComplete
CHECK_DEADLOCK FALSE
