------------------------------ MODULE ShardRun ------------------------------
(***************************************************************************)
(* What a driver is promised by runShards, whatever the network and the    *)
(* bench-runners do: every shard gets one outcome and keeps it, "done" is  *)
(* only ever said of a shard whose own bench resolved, and the call        *)
(* returns once every shard has an outcome.  "failed" promises nothing     *)
(* about the bench: it may be running still, or may even have resolved.    *)
(***************************************************************************)
CONSTANTS Shard          \* the shards of one runShards call

VARIABLES
  bench,                 \* what happened to each shard's bench run
  outcome,               \* what the driver was told about each shard
  returned               \* whether the call has returned

vars == <<bench, outcome, returned>>

BenchState == {"none", "running", "resolved", "rejected", "lost"}
Outcome    == {"none", "done", "failed"}

Init ==
  /\ bench = [s \in Shard |-> "none"]
  /\ outcome = [s \in Shard |-> "none"]
  /\ returned = FALSE

\* A bench starts at most once for each shard.
Begin(s) ==
  /\ bench[s] = "none"
  /\ bench' = [bench EXCEPT ![s] = "running"]
  /\ UNCHANGED <<outcome, returned>>

\* A bench ends once; a crash of its process can end several at a time.
End(ended, how) ==
  /\ \A s \in ended : bench[s] = "running"
  /\ bench' = [s \in Shard |-> IF s \in ended THEN how ELSE bench[s]]
  /\ UNCHANGED <<outcome, returned>>

ReportDone(s) ==
  /\ outcome[s] = "none"
  /\ bench[s] = "resolved"
  /\ outcome' = [outcome EXCEPT ![s] = "done"]
  /\ UNCHANGED <<bench, returned>>

\* One poll cycle can abandon several shards at once.
ReportFailed(shards) ==
  /\ \A s \in shards : outcome[s] = "none"
  /\ outcome' = [s \in Shard |-> IF s \in shards THEN "failed" ELSE outcome[s]]
  /\ UNCHANGED <<bench, returned>>

Return ==
  /\ \A s \in Shard : outcome[s] # "none"
  /\ returned' = TRUE
  /\ UNCHANGED <<bench, outcome>>

Next ==
  \/ \E s \in Shard : Begin(s) \/ ReportDone(s)
  \/ \E ended \in SUBSET Shard, how \in {"resolved", "rejected", "lost"} : End(ended, how)
  \/ \E shards \in SUBSET Shard : ReportFailed(shards)
  \/ Return

Spec == Init /\ [][Next]_vars

=============================================================================
