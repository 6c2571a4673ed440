------------------------------ MODULE BenchApi ------------------------------
(***************************************************************************)
(* The bench-runner's POST endpoints (backend/src/bench-runner/server.ts)  *)
(* as their callers see them: which query parameters a handler reads and   *)
(* which fields the result it answers with has.  A parameter that is sent  *)
(* and not read is silently replaced by the handler's default, and a field *)
(* that is read and not returned is undefined: nothing on either side of   *)
(* the HTTP call notices.                                                  *)
(*                                                                         *)
(* An endpoint /bench-<bench>-<target> is <<bench, target>>, all but       *)
(* /bench-benchi-anycable, which runs a binary.  Abstracted:               *)
(* the values and their defaults.                                          *)
(***************************************************************************)

Endpoint ==
       {"jitter", "idle", "whispers"} \X {"anycable", "socketio", "uws"}
  \cup {"throughput"} \X {"anycable", "anycable-cluster", "socketio", "socketio-csr",
                          "socketio-redis", "uws"}
  \cup {"avalanche"} \X {"socketio", "uws"}
  \cup {<<"jitter", "socketio-csr">>, <<"jitter-traced", "anycable">>, <<"trace", "anycable">>,
        <<"deploy-impact", "socketio">>, <<"deploy-impact-standalone", "socketio">>,
        <<"deploy-impact-standalone", "anycable">>}

----------------------------------------------------------------------------
(* What the handlers read. *)

\* paramsFromQuery
JitterParams ==
  {"n", "duration", "jitter", "jitterMs", "msgs", "interval", "ramp", "stream", "samplesCap"}

TraceParams == {"n", "broadcasts", "intervalMs", "rampPerSec", "stream", "includeSpans"}

IdleParams == {"n", "hold", "ramp", "stream", "shard"}

AvalancheParams == {"n", "ramp", "prearm", "recoveryWait", "stream"}

DeployImpactParams == {"n", "ramp", "stream", "pubRate", "preDeploy", "postDeploy", "nodes"}

StandaloneParams == {"n", "ramp", "stream", "duration"}

\* whispersParamsFromQuery
WhispersParams ==
  {"n", "rooms", "ramp", "interval", "duration", "payload", "roomPrefix", "samplesCap"}

\* throughputParamsFromQuery
ThroughputParams ==
  {"n", "total", "intervalMs", "ramp", "stream", "drain", "publisher", "publisherConcurrency"}

BenchParams(bench) ==
  CASE bench = "jitter"                   -> JitterParams
    [] bench = "jitter-traced"            -> JitterParams \cup {"traceSample"}
    [] bench = "trace"                    -> TraceParams
    [] bench = "idle"                     -> IdleParams
    [] bench = "avalanche"                -> AvalancheParams
    [] bench = "deploy-impact"            -> DeployImpactParams
    [] bench = "deploy-impact-standalone" -> StandaloneParams
    [] bench = "whispers"                 -> WhispersParams
    [] bench = "throughput"               -> ThroughputParams

\* The URL a publisher in the bench-runner posts to; other benches need none.
PublishUrls(bench, target) ==
  IF bench \notin {"jitter", "jitter-traced", "trace", "throughput"} THEN {}
  ELSE CASE target \in {"anycable", "anycable-cluster"} -> {"broadcastUrl"}
         [] target = "uws" -> {"httpUrl"}
         [] OTHER -> {}

\* The targets' addresses that override the runner's defaults.
TargetUrls(bench, target) ==
  CASE target = "anycable" -> {"cableUrl"}
    [] target = "anycable-cluster" -> {"cableUrlA", "cableUrlB"}
    [] target = "socketio-redis" -> {"subscriberUrlA", "subscriberUrlB"}
    [] target = "uws" -> {"wsUrl"}
    [] bench = "deploy-impact-standalone" -> {"nodes"}
    [] bench = "deploy-impact" -> {}
    [] OTHER -> {"serverUrl"}

NatsParams(bench, target) ==
  IF bench = "throughput" /\ target \in {"anycable", "anycable-cluster"}
  THEN {"natsUrl", "natsSubject"} ELSE {}

\* Every query parameter that changes what an endpoint does.
Reads(e) ==
  {"async"} \cup BenchParams(e[1]) \cup TargetUrls(e[1], e[2])
            \cup PublishUrls(e[1], e[2]) \cup NatsParams(e[1], e[2])

----------------------------------------------------------------------------
(* What the results have.  A field is the path to it. *)

Group(field, stats) == {field} \X stats

Scalars(fields) == {<<f>> : f \in fields}

Percentiles == {"p50", "p95", "p99", "max"}

\* JitterResult
JitterFields ==
  Scalars({"label", "elapsedMs", "clients", "connectedClients", "publishedMessages",
           "expectedDeliveries", "receivedDeliveries", "lostDeliveries", "deliveryRatePct",
           "deliveryRateOfConnectedPct", "jitterEvents", "avgJittersPerClient", "csrResumes",
           "csrResumeRatePct", "connectFailures", "latencySamples", "runnerPeakRssMb"})
  \cup Group("latencyRawMs", Percentiles \cup {"avg"})
  \cup Group("latencyOverMinMs", Percentiles \cup {"avg", "skewFloor"})

\* WhispersResult
WhispersFields ==
  Scalars({"protocol", "n", "rooms", "initiallyConnected", "whisperIntervalMs", "whispersSent",
           "whispersReceived", "expectedReceived", "deliveryRatePct", "totalElapsedMs"})
  \cup Group("latencyMs", Percentiles)

\* AvalancheResult
AvalancheFields ==
  Scalars({"clients", "initiallyConnected", "disconnected", "reconnected", "reconnectRatePct",
           "neverReconnected", "neverReconnectedPct", "disconnectSpreadMs", "recoveryTimeMs",
           "totalDowntimeMs", "rampElapsedMs", "totalElapsedMs"})
  \cup Group("reconnectMs", Percentiles)

\* IdleResult
IdleFields == Scalars({"connected", "welcomed", "subscribed", "failed"})

\* ThroughputResult
ThroughputFields ==
  JitterFields \cup Scalars({"intervalMs", "targetRateMsgPerSec", "outboundDeliveriesPerSec",
                            "usefulDeliveriesPerSec", "publishingMs"})

BenchFields(bench) ==
  CASE bench = "jitter"     -> JitterFields
    [] bench = "throughput" -> ThroughputFields
    [] bench = "whispers"   -> WhispersFields
    [] bench = "avalanche"  -> AvalancheFields
    [] bench = "idle"       -> IdleFields

\* What a bench answers with: a bench that passes on a samplesCap adds samples.
Returns(bench, params) ==
  BenchFields(bench) \cup
    IF bench \in {"jitter", "whispers"} /\ "samplesCap" \in params
    THEN {<<"latencySamplesSorted">>} ELSE {}

=============================================================================
