------------------------- MODULE MCShardCoordinator -------------------------
(***************************************************************************)
(* Three shards: s1 and s2 share one new bench-runner, s3 goes to an old   *)
(* one that answers with the result.  A tick is longer than a poll cycle:  *)
(* any number of cycles fit before the clock passes TTL, so that a job     *)
(* can be swept, and then ShardTimeout, so that its shard is abandoned.    *)
(***************************************************************************)
EXTENDS ShardCoordinator, TLC

CONSTANTS s1, s2, s3, r1, r2

MCShard    == {s1, s2, s3}
MCRunner   == {r1, r2}
MCRunnerOf == (s1 :> r1) @@ (s2 :> r1) @@ (s3 :> r2)
MCJobId    == 1..2
MCOld      == {r2}

=============================================================================
