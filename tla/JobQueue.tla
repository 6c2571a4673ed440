------------------------------ MODULE JobQueue ------------------------------
(***************************************************************************)
(* The bench-runner's in-memory job map (backend/src/lib/core/job-queue.ts *)
(* and the /jobs/:id handler of backend/src/bench-runner/server.ts).       *)
(*                                                                         *)
(* Several bench-runner processes are modelled at once: jobs[r] is the     *)
(* `jobs` Map of process r.  A job is the run of one shard's bench; the    *)
(* shard stands for the result that bench returns, so a result that        *)
(* reaches the wrong shard is visible.  bench[s] is the promise of fn():   *)
(* it belongs to no process's map and is what really happened.             *)
(*                                                                         *)
(* Abstracted: the log ring buffer (module LogTail), durations, the body   *)
(* of the error.  A new id is any id never used before: it is 48 random    *)
(* bits, and a collision is left out.  The sweep's 60 s period is left out *)
(* too: a sweep may run at any instant.                                    *)
(***************************************************************************)
EXTENDS Naturals, Functions

CONSTANTS
  Shard,        \* the benches asked for
  Runner,       \* the bench-runner processes
  RunnerOf,     \* the process each shard is sent to; several may share one
  JobId,        \* job ids, as many as there are shards at least
  None,         \* `undefined`: an endedAt that was not set yet
  TTL,          \* TTL_MS, in ticks of the model's clock
  MaxClock,     \* bound: the clock stops there
  MaxRestarts   \* bound: bench-runner crashes and redeploys in one behaviour

ASSUME JobQueueAssumption ==
  /\ RunnerOf \in [Shard -> Runner]
  /\ TTL \in Nat
  /\ MaxClock \in Nat
  /\ MaxRestarts \in Nat
  /\ None \notin Nat \cup JobId

VARIABLES
  now,          \* Date.now(), one clock for every process
  jobs,         \* the `jobs` Map of each process
  used,         \* every id newJobId has ever returned
  bench,        \* the promise of each shard's bench
  restarts      \* how many times a process was restarted

queueVars == <<now, jobs, used, bench, restarts>>

Job == [shard : Shard, status : {"running", "done", "failed"}, endedAt : Nat \cup {None}]

BenchState == {"none", "running", "resolved", "rejected", "lost"}

QueueTypeOK ==
  /\ now \in Nat
  /\ DOMAIN jobs = Runner
  /\ \A r \in Runner :
       /\ DOMAIN jobs[r] \subseteq used
       /\ \A id \in DOMAIN jobs[r] : jobs[r][id] \in Job
  /\ used \subseteq JobId
  /\ bench \in [Shard -> BenchState]
  /\ restarts \in Nat

QueueInit ==
  /\ now = 0
  /\ jobs = [r \in Runner |-> [id \in {} |-> None]]
  /\ used = {}
  /\ bench = [s \in Shard |-> "none"]
  /\ restarts = 0

\* A counter that starts again at 1 in every process, in place of random ids.
NewJobIds_PerProcessCounter(r) ==
  {id \in JobId : id \notin DOMAIN jobs[r] /\ \A i \in JobId \ DOMAIN jobs[r] : id <= i}

NewJobIds(r) == JobId \ used

\* startJob(fn): the job is in the map, running, before its id is returned.
StartJob(s, id) ==
  LET r == RunnerOf[s] IN
  /\ id \in NewJobIds(r)
  /\ jobs' = [jobs EXCEPT ![r] =
       [i \in DOMAIN jobs[r] \cup {id} |->
          IF i = id THEN [shard |-> s, status |-> "running", endedAt |-> None]
          ELSE jobs[r][i]]]
  /\ used' = used \cup {id}
  /\ bench' = [bench EXCEPT ![s] = "running"]
  /\ UNCHANGED <<now, restarts>>

\* The two continuations of fn().then: status and endedAt are set together.
Settle(r, id, ok) ==
  /\ id \in DOMAIN jobs[r]
  /\ jobs[r][id].status = "running"
  /\ jobs' = [jobs EXCEPT ![r][id] =
       [shard |-> @.shard, status |-> IF ok THEN "done" ELSE "failed", endedAt |-> now]]
  /\ bench' = [bench EXCEPT ![jobs[r][id].shard] = IF ok THEN "resolved" ELSE "rejected"]
  /\ UNCHANGED <<now, used, restarts>>

\* The guard on endedAt dropped, an unset endedAt read as 0.
Expired_UnsetIsZero(job) == (IF job.endedAt = None THEN 0 ELSE job.endedAt) + TTL < now

Expired(job) == job.endedAt # None /\ job.endedAt + TTL < now

\* The sweep timer's callback: finished jobs older than TTL leave the map.
Sweep(r) ==
  LET kept == {id \in DOMAIN jobs[r] : ~Expired(jobs[r][id])} IN
  /\ kept # DOMAIN jobs[r]
  /\ jobs' = [jobs EXCEPT ![r] = Restrict(jobs[r], kept)]
  /\ UNCHANGED <<now, used, bench, restarts>>

\* The process dies and a new one takes its address: the map is empty and the
\* benches that ran in it, as jobs or inside a request, are gone.
Restart(r) ==
  /\ restarts < MaxRestarts
  /\ restarts' = restarts + 1
  /\ jobs' = [jobs EXCEPT ![r] = [id \in {} |-> None]]
  /\ bench' = [s \in Shard |->
       IF RunnerOf[s] = r /\ bench[s] = "running" THEN "lost" ELSE bench[s]]
  /\ UNCHANGED <<now, used>>

\* GET /jobs/:id.  res.json drops undefined fields, so `error` is in the body
\* of a failed job and of no other; a 404 becomes the caller's {error}.
JobResponse(r, id) ==
  IF id \notin DOMAIN jobs[r] THEN [error |-> "HTTP 404"]
  ELSE LET job == jobs[r][id] IN
       CASE job.status = "running" -> [status |-> "running"]
         [] job.status = "done"    -> [status |-> "done", result |-> job.shard]
         [] job.status = "failed"  -> [status |-> "failed", error |-> "job"]

Tick ==
  /\ now < MaxClock
  /\ now' = now + 1
  /\ UNCHANGED <<jobs, used, bench, restarts>>

=============================================================================
