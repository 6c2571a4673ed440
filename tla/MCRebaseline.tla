---------------------------- MODULE MCRebaseline ----------------------------
(***************************************************************************)
(* FILTER selects by words of an id: "uws-10k" gives a sync, an async and, *)
(* with INCLUDE_AVALANCHE, an avalanche test; the second filter an async   *)
(* test with a baseline of 0, one sent to an old runner, and a multi-shard *)
(* test; "uws-50k" none.  A tick is longer than a poll; deadlines and      *)
(* redeploys are a tick away, so that each comes before the others and     *)
(* after them.                                                             *)
(***************************************************************************)
EXTENDS Rebaseline

CONSTANTS r1, r2

MCShard    == {<<"latency", "uws", "10k">>, <<"jitter", "uws", "10k">>, <<"avalanche", "uws", "10k">>,
               <<"jitter", "socketio", "csr", "10k">>, <<"throughput", "uws">>,
               <<"idle", "anycable", "pro">>}
MCRunner   == {r1, r2}
MCRunnerOf == [t \in MCShard |-> IF t = <<"throughput", "uws">> THEN r2 ELSE r1]
MCOld      == {r2}
MCFilter   == {{<<"uws", "10k">>},
               {<<"idle", "anycable", "pro">>, <<"jitter", "socketio", "csr">>,
                <<"throughput", "uws">>},
               {<<"uws", "50k">>}}

=============================================================================
