\* both runners, two clients, three faults
CONSTANTS
  c1 = c1
  c2 = c2
  Client <- MCClient
  Prearm = 1
  RecoveryWait = 1
  MaxFaults = 3
SPECIFICATION Spec
INVARIANTS
  CountsServerDrops
  ReconnectedAreBack
  RecoveryCoversNinetyFive
PROPERTIES
  Terminates
