------------------------------ MODULE Manifest ------------------------------
(***************************************************************************)
(* The tests of the comparison page, backend/src/bench/tests-manifest.ts:  *)
(* for each the endpoint it runs, the parameters it sends and the baseline *)
(* fields its result is compared with.                                     *)
(*                                                                         *)
(* An id is the sequence of its words, "latency-uws-1k" is                 *)
(* <<"latency", "uws", "1k">>.  Abstracted: the values of the parameters   *)
(* and of the baselines, but for a baseline of 0 (zero), which the         *)
(* comparison treats otherwise; the thresholds.                            *)
(***************************************************************************)
EXTENDS Sequences

\* The names of the address parameters of each setup.
CableAndBroadcast == {"cableUrl", "broadcastUrl"}

WsAndHttp == {"wsUrl", "httpUrl"}

P(stat) == <<"latencyRawMs", stat>>

DeliveryRate == <<"deliveryRatePct">>

\* One entry of the manifest.
Entry(id, target, mode, params, baseline, zero) ==
  [id |-> id, category |-> id[1],
   endpoint |-> <<IF id[1] = "latency" THEN "jitter" ELSE id[1], target>>,
   mode |-> mode, params |-> params, baseline |-> baseline \cup zero, zero |-> zero]

----------------------------------------------------------------------------
LatencyKnobs == {"n", "msgs", "interval", "ramp", "duration", "jitter"}

Latency(setup, target, size, urls) ==
  Entry(<<"latency">> \o setup \o <<size>>, target, "sync", LatencyKnobs \cup urls,
        {P("p50"), P("p99"), DeliveryRate}, {})

LatencyTests ==
  <<Latency(<<"socketio">>, "socketio", "1k", {"serverUrl"}),
    Latency(<<"socketio">>, "socketio", "10k", {"serverUrl"}),
    Latency(<<"socketio", "csr">>, "socketio-csr", "1k", {"serverUrl"}),
    Latency(<<"socketio", "csr">>, "socketio-csr", "10k", {"serverUrl"}),
    Latency(<<"uws">>, "uws", "1k", WsAndHttp),
    Latency(<<"uws">>, "uws", "10k", WsAndHttp),
    Latency(<<"anycable", "oss">>, "anycable", "1k", CableAndBroadcast),
    Latency(<<"anycable", "oss">>, "anycable", "10k", CableAndBroadcast),
    Latency(<<"anycable", "pro">>, "anycable", "1k", CableAndBroadcast),
    Latency(<<"anycable", "pro">>, "anycable", "10k", CableAndBroadcast)>>

JitterKnobs == LatencyKnobs \cup {"jitterMs", "samplesCap"}

Jitter(setup, target, urls, baseline, zero) ==
  Entry(<<"jitter">> \o setup \o <<"10k">>, target, "async", JitterKnobs \cup urls,
        {DeliveryRate, P("p95")} \cup baseline, zero)

JitterTests ==
  <<Jitter(<<"socketio">>, "socketio", {"serverUrl"}, {}, {}),
    Jitter(<<"socketio", "csr">>, "socketio-csr", {"serverUrl"}, {<<"csrResumes">>},
           {<<"lostDeliveries">>}),
    Jitter(<<"uws">>, "uws", WsAndHttp, {<<"lostDeliveries">>}, {}),
    Jitter(<<"anycable", "oss">>, "anycable", CableAndBroadcast, {P("p99")},
           {<<"lostDeliveries">>}),
    Jitter(<<"anycable", "pro">>, "anycable", CableAndBroadcast, {P("p99")},
           {<<"lostDeliveries">>})>>

Whispers(setup, target, urls) ==
  Entry(<<"whispers">> \o setup \o <<"1k">>, target, "sync",
        {"n", "rooms", "ramp", "interval", "duration", "payload"} \cup urls,
        {DeliveryRate, <<"latencyMs", "p50">>, <<"latencyMs", "p99">>}, {})

WhispersTests ==
  <<Whispers(<<"socketio">>, "socketio", {"serverUrl"}),
    Whispers(<<"uws">>, "uws", {"wsUrl"}),
    Whispers(<<"anycable", "oss">>, "anycable", {"cableUrl"}),
    Whispers(<<"anycable", "pro">>, "anycable", {"cableUrl"})>>

\* The knobs with the name the throughput command line sends.
ThroughputKnobs_Interval ==
  {"n", "total", "interval", "ramp", "drain", "publisher", "publisherConcurrency"}

\* THROUGHPUT_10K_1M
ThroughputKnobs ==
  {"n", "total", "intervalMs", "ramp", "drain", "publisher", "publisherConcurrency"}

Throughput(setup, target, urls) ==
  Entry(<<"throughput">> \o setup, target, "async", ThroughputKnobs \cup urls,
        {DeliveryRate, P("p50"), P("p99")}, {})

ThroughputTests ==
  <<Throughput(<<"socketio">>, "socketio", {"serverUrl"}),
    Throughput(<<"socketio", "csr">>, "socketio-csr", {"serverUrl"}),
    Throughput(<<"uws">>, "uws", WsAndHttp),
    Throughput(<<"anycable", "oss">>, "anycable", CableAndBroadcast),
    Throughput(<<"anycable", "pro">>, "anycable", CableAndBroadcast)>>

Idle(setup, target, urls, cpu) ==
  Entry(<<"idle">> \o setup, target, "multi-shard", {"hold", "ramp", "stream"} \cup urls,
        {<<"connected">>, <<"ramKbPerConnected">>} \cup cpu, {})

IdleTests ==
  <<Idle(<<"socketio">>, "socketio", {"serverUrl"}, {}),
    Idle(<<"anycable", "oss">>, "anycable", {"cableUrl"}, {<<"peakCpuPercent">>}),
    Idle(<<"anycable", "pro">>, "anycable", {"cableUrl"}, {<<"peakCpuPercent">>}),
    Idle(<<"uws">>, "uws", {"wsUrl"}, {})>>

Recovery == {<<"recoveryTimeMs">>, <<"reconnectRatePct">>}

Avalanche(target, size, url, baseline, zero) ==
  Entry(<<"avalanche", target, size>>, target, "avalanche",
        {"n", "ramp", "prearm", "recoveryWait", "stream", url}, baseline, zero)

AvalancheTests ==
  <<Avalanche("socketio", "5k", "serverUrl", Recovery \cup {<<"reconnectMs", "p99">>}, {}),
    Avalanche("socketio", "10k", "serverUrl", Recovery, {}),
    Avalanche("socketio", "15k", "serverUrl", Recovery, {}),
    Avalanche("socketio", "20k", "serverUrl", Recovery, {}),
    Avalanche("uws", "10k", "wsUrl", Recovery, {}),
    Avalanche("uws", "20k", "wsUrl", Recovery, {}),
    Avalanche("socketio", "25k", "serverUrl", {}, {<<"reconnectRatePct">>})>>

\* The manifest, in the order in which its tests run.
Tests == LatencyTests \o JitterTests \o WhispersTests \o ThroughputTests \o IdleTests
           \o AvalancheTests

\* How a test is run.
Mode == {"sync", "async", "multi-shard", "avalanche"}

\* The type of an entry.
TestSpec ==
  [id : Seq(STRING), category : STRING, endpoint : Seq(STRING), mode : Mode,
   params : SUBSET STRING, baseline : SUBSET Seq(STRING), zero : SUBSET Seq(STRING)]

\* What rebaseline.ts takes for granted of the table: an id, which also names the
\* file of a result, is the id of one test; the idle tests are those that fan out;
\* no baseline of a delivery rate is 0.
ASSUME ManifestAssumption ==
  /\ Tests \in Seq(TestSpec)
  /\ \A i, k \in DOMAIN Tests : Tests[i].id = Tests[k].id => i = k
  /\ \A i \in DOMAIN Tests :
       /\ Tests[i].mode = "multi-shard" => Tests[i].id[1] = "idle"
       /\ Tests[i].mode # "multi-shard" => Tests[i].id[1] # "idle"
       /\ DeliveryRate \notin Tests[i].zero

=============================================================================
