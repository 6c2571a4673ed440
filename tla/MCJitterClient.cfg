\* the three jitter tests: three messages, two jitters, two failures
CONSTANTS
  Total = 3
  MaxJitters = 2
  MaxFaults = 2
SPECIFICATION Spec
INVARIANTS
  RecordedOnce
  ResumesWithinJitters
  EndsClean
PROPERTIES
  Returns
