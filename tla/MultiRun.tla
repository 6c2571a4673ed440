------------------------------ MODULE MultiRun ------------------------------
(***************************************************************************)
(* The drivers that spread one test over several bench-runners, a shard on *)
(* each: backend/src/bench/throughput-multi.ts and jitter-multi.ts.  The   *)
(* benches are module StreamBench, their parameters module BenchApi, and   *)
(* the driver waits in runShards, of which it only knows the contract      *)
(* (module ShardRun): "done" is said of a bench that returned, "failed" of *)
(* any, and a failed shard's bench may go on.                              *)
(*                                                                         *)
(* Abstracted: the JSON file, the printed report, the URLs' values.        *)
(***************************************************************************)
EXTENDS StreamBench, BenchApi

CONSTANTS
  Overrides,      \* the URL overrides set in the environment
  SamplesCap      \* SAMPLES_CAP

\* Below 2 downsampleSorted divides by zero.
ASSUME MultiRunAssumption ==
  /\ Overrides \subseteq {"cableUrl", "broadcastUrl", "serverUrl", "wsUrl", "httpUrl"}
  /\ SamplesCap \in Nat \ {0, 1}
  /\ IsFiniteSet(Bench)

VARIABLES
  outcome,    \* what runShards says of each shard
  merged,     \* the merged result
  exitCode

driverVars == <<outcome, merged, exitCode>>
multiVars == <<benchVars, driverVars>>

NotExited == -1

NoMerge == [clients |-> 0]

MultiTypeOK ==
  /\ BenchTypeOK
  /\ outcome \in [Bench -> {"none", "done", "failed"}]
  /\ exitCode \in {NotExited, 0, 1}

MultiInit ==
  /\ BenchInit
  /\ outcome = [r \in Bench |-> "none"]
  /\ merged = NoMerge
  /\ exitCode = NotExited

----------------------------------------------------------------------------
(* The shards' requests. *)

\* protocolQuery
ProtocolQuery ==
  Overrides \cap
    CASE Target = "anycable"                      -> {"cableUrl", "broadcastUrl"}
      [] Target \in {"socketio", "socketio-csr"}  -> {"serverUrl"}
      [] OTHER                                    -> {"wsUrl", "httpUrl"}

\* shardSpecs[i].query
Query ==
  ProtocolQuery \cup
    IF Test = "throughput"
    THEN {"n", "total", "interval", "ramp", "drain", "publisher", "publisherConcurrency",
          "samplesCap", "stream"}
    ELSE {"n", "msgs", "interval", "ramp", "duration", "jitter", "jitterMs", "samplesCap", "stream"}

\* One stream for the whole run.
StreamOf_Shared(r) == <<Test>>

\* Each shard owns its stream, so that its publisher serves its clients only.
StreamOf(r) == <<Test, r>>

Audience(r) == {c \in inRoom : StreamOf(c[1]) = StreamOf(r)}

\* The cap that reaches the bench, if its endpoint reads one.
Cap == IF "samplesCap" \in Query \cap Reads(<<Test, Target>>) THEN SamplesCap ELSE 0

----------------------------------------------------------------------------
(* runShards. *)

ShardDone(r) ==
  /\ outcome[r] = "none"
  /\ stage[r] = "returned"
  /\ outcome' = [outcome EXCEPT ![r] = "done"]
  /\ UNCHANGED <<benchVars, merged, exitCode>>

ShardFails(r) ==
  /\ outcome[r] = "none"
  /\ outcome' = [outcome EXCEPT ![r] = "failed"]
  /\ UNCHANGED <<benchVars, merged, exitCode>>

----------------------------------------------------------------------------
(* The report. *)

\* Any result a shard has, whatever runShards said of it.
Successes_AnyResult == {r \in Bench : summary[r] # NoSummary}

Successes == {r \in Bench : outcome[r] = "done"}

Results == [r \in Successes |-> summary[r]]

\* A merge that finds no samples throws: throughput-multi catches it and exits
\* with 0, jitter-multi does not.
Reports ==
  /\ exitCode = NotExited
  /\ \A r \in Bench : outcome[r] # "none"
  /\ \/ Successes = {} /\ exitCode' = 1 /\ UNCHANGED merged
     \/ /\ Successes # {}
        /\ CanMerge(Results)
        /\ merged' = Merge(Results)
        /\ exitCode' = IF merged'.lostDeliveries > 0 THEN 1 ELSE 0
     \/ /\ Successes # {}
        /\ ~CanMerge(Results)
        /\ exitCode' = IF Test = "throughput" THEN 0 ELSE 1
        /\ UNCHANGED merged
  /\ UNCHANGED <<benchVars, outcome>>

----------------------------------------------------------------------------

Exited ==
  /\ exitCode # NotExited
  /\ UNCHANGED multiVars

BenchStep ==
  \/ Clients
  \/ \E r \in Bench : Runs(r) \/ BenchReturns(r, Cap)
  \/ \E r \in Bench, n \in Seqs : Broadcast(r, n, Audience(r))

RunShards == \E r \in Bench : ShardDone(r) \/ ShardFails(r)

MultiNext ==
  \/ BenchStep /\ UNCHANGED driverVars
  \/ RunShards
  \/ Reports
  \/ Exited

MultiSpec == MultiInit /\ [][MultiNext]_multiVars

----------------------------------------------------------------------------
(* Properties. *)

\* The messages of its own runner that a client got.
Own(c) == {n \in Seqs : <<c[1], n>> \in heard[c]}

\* A driver that merged and exits with 0 hides no gap: each client of the merged
\* shards got every message of its own publisher up to the last it saw.  No
\* other shard's message can stand in for one that is missing.
ExitZeroMeansNoGap ==
  exitCode = 0 /\ merged # NoMerge =>
    \A r \in Successes : \A c \in ClientsOf(r) : \A n \in Own(c) : 1..n \subseteq Own(c)

\* The merged extremes are those of all messages of the merged shards, though
\* each shard only sends a sample of its latencies.
MergedSpansSamples ==
  merged # NoMerge =>
    LET all == UNION {ToSet(stats[c].latencies) : c \in Successes \X (1..PerRunner)} IN
    all # {} => /\ merged.latencyRawMs.max = Max(all)
                /\ merged.latencyRawMs.skewFloor = Min(all)

\* What is reported covers the shards that are done and no others, while a
\* failed shard's bench goes on or returns late: the merged counts are those of
\* their clients as they are.
MergedIsOfDoneShards ==
  merged # NoMerge =>
    LET of == {r \in Bench : outcome[r] = "done"} \X (1..PerRunner) IN
    /\ merged.clients = Cardinality(of)
    /\ merged.receivedDeliveries = Total([c \in of |-> Cardinality(heard[c])], of)

\* throughput-multi.ts:185-188: "mergeJitterResults requires latencySamplesSorted
\* on every shard. ... We pass samplesCap above so async shards include it".
ShardsIncludeSamples ==
  \A r \in Bench : outcome[r] = "done" => "latencySamplesSorted" \in DOMAIN summary[r]

=============================================================================
