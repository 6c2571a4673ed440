\* runShards over a shared new runner and an old one
CONSTANTS
  s1 = s1
  s2 = s2
  s3 = s3
  r1 = r1
  r2 = r2
  None = None
  Shard <- MCShard
  Runner <- MCRunner
  RunnerOf <- MCRunnerOf
  JobId <- MCJobId
  OldRunner <- MCOld
  TTL = 0
  PollInterval = 0
  ShardTimeout = 1
  MaxClock = 2
  MaxRestarts = 1
SPECIFICATION Spec
INVARIANTS
  DoneIsOwnResult
  RunningIsListed
PROPERTIES
  ImplementsShardRun
  Terminates
