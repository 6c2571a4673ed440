\* three filters, one bench-runner, a restart
CONSTANTS
  r1 = r1
  r2 = r2
  None = None
  Shard <- MCShard
  Runner <- MCRunner
  RunnerOf <- MCRunnerOf
  JobId = {1, 2}
  OldRunner <- MCOld
  Filter <- MCFilter
  Urls = 2
  NumShards = 2
  PollDeadline = 1
  RampTime = 1
  TTL = 0
  MaxClock = 2
  MaxRestarts = 1
SPECIFICATION Spec
INVARIANTS
  CountedTestsResolved
  OverlapIsOfAFailure
  ParamsAreRead
  OnlyMetricsAreMissing
  FallenRateFailsTheRun
PROPERTIES
  Terminates
