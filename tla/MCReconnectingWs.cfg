\* one client, three faults, three messages
CONSTANTS
  Total = 3
  MaxFaults = 3
SPECIFICATION Spec
INVARIANTS
  OneConnection
  RecordedInOrder
  QuietAfterClose
PROPERTIES
  Resubscribes
CHECK_DEADLOCK FALSE
