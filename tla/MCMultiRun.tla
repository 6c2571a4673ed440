----------------------------- MODULE MCMultiRun -----------------------------
(***************************************************************************)
(* Two shards of one client.  The jitter test's three messages are one     *)
(* more than SamplesCap keeps, and the first shard's slowest is its last.  *)
(***************************************************************************)
EXTENDS MultiRun

CONSTANTS r1, r2

MCBench == {r1, r2}

MCSetups == {<<"jitter", "socketio", "serial">>,
             <<"throughput", "anycable", "nats">>, <<"throughput", "uws", "nats">>}

\* The setups of throughput-multi.
MCThroughput == {s \in MCSetups : s[1] = "throughput"}

MCLatencyOf == [r \in MCBench |-> IF r = r1 THEN <<1, 2, 3>> ELSE <<2, 1, 1>>]

=============================================================================
