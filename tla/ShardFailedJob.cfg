\* the poll that brings the news of a failed job
CONSTANTS
  s1 = s1
  s2 = s2
  s3 = s3
  r1 = r1
  r2 = r2
  None = None
  Shard <- MCShard
  Runner <- MCRunner
  RunnerOf <- MCRunnerOf
  JobId <- MCJobId
  OldRunner <- MCOld
  TTL = 0
  PollInterval = 0
  ShardTimeout = 1
  MaxClock = 2
  MaxRestarts = 0
SPECIFICATION Spec
PROPERTY FailedJobEndsShard
