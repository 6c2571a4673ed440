\* throughput-multi asks for samples that its endpoint does not give
CONSTANTS
  r1 = r1
  r2 = r2
  Bench <- MCBench
  PerRunner = 1
  Setups <- MCThroughput
  Msgs = 3
  TotalMsgs = 2
  LatencyOf <- MCLatencyOf
  MaxFaults = 1
  Overrides = {"serverUrl"}
  SamplesCap = 2
SPECIFICATION MultiSpec
INVARIANTS
  ShardsIncludeSamples
