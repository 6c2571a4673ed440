\* jitter-multi and throughput-multi, two shards
CONSTANTS
  r1 = r1
  r2 = r2
  Bench <- MCBench
  PerRunner = 1
  Setups <- MCSetups
  Msgs = 3
  TotalMsgs = 1
  LatencyOf <- MCLatencyOf
  MaxFaults = 1
  Overrides = {"serverUrl"}
  SamplesCap = 2
SPECIFICATION MultiSpec
INVARIANTS
  ExitZeroMeansNoGap
  MergedSpansSamples
  MergedIsOfDoneShards
