\* a rolling deploy of two nodes under a client of the first, with one failure
CONSTANTS
  N = 1
  NumNodes = 2
  PerNode = TRUE
  MaxSeq = 3
  MaxClock = 3
  MaxFaults = 1
SPECIFICATION Spec
INVARIANTS
  OneCycle
  OneNodeAtATime
  Rejoined
  OutageIsCounted
PROPERTIES
  Terminates
