-------------------------- MODULE ShardCoordinator --------------------------
(***************************************************************************)
(* runShards of backend/src/lib/core/shard-coordinator.ts, driving the     *)
(* job maps of module JobQueue over HTTP.                                  *)
(*                                                                         *)
(* One fetch per shard is in flight at most: phase[s] says where it is and *)
(* body[s] holds the response on its way back.  Every `await` of the code  *)
(* is a place where other steps come in between: the request on the wire,  *)
(* an old runner that works inside the request, the response on the wire.  *)
(* A fetch fails at any of those places (connection lost, HTTP error, the  *)
(* dispatcher's 30 min timeouts); what the runner did stays done.          *)
(*                                                                         *)
(* runShards starts at tick 0, where every state's startedAt is taken.     *)
(* Abstracted: the progress printing (module LogTail), durations, the      *)
(* query string, the bearer token, the wording of errors.                  *)
(***************************************************************************)
EXTENDS JobQueue

CONSTANTS
  OldRunner,     \* runners that ignore ?async=1 and answer with the result
  PollInterval,  \* pollIntervalMs
  ShardTimeout   \* shardTimeoutMs

ASSUME CoordinatorAssumption ==
  /\ OldRunner \subseteq Runner
  /\ PollInterval \in Nat
  /\ ShardTimeout \in Nat

VARIABLES
  pc,            \* where runShards is
  wakeAt,        \* when the sleep between two cycles ends
  status,        \* ShardState.status
  jobId,         \* ShardState.jobId
  result,        \* ShardState.result
  error,         \* why the shard failed
  phase,         \* the shard's fetch
  body           \* the response on its way, in phase "reply"

stateVars == <<status, jobId, result, error>>
vars == <<queueVars, pc, wakeAt, stateVars, phase, body>>

StartedAt == 0

\* What a fetch comes back with: the shapes of enqueueShard, then of pollShard.
Body ==
       [error : {"fetch", "HTTP 404"}]
  \cup [jobId : JobId]
  \cup [syncResult : Shard]
  \cup [status : {"running"}]
  \cup [status : {"done"}, result : Shard]
  \cup [status : {"failed"}, error : {"job"}]

NoBody == [error |-> "fetch"]

TypeOK ==
  /\ QueueTypeOK
  /\ pc \in {"enqueue", "loop", "sleep", "cycle", "returned"}
  /\ wakeAt \in Nat
  /\ status \in [Shard -> {"pending", "running", "done", "failed"}]
  /\ jobId \in [Shard -> JobId \cup {None}]
  /\ result \in [Shard -> Shard \cup {None}]
  /\ error \in [Shard -> {"", "fetch", "timeout", "job"}]
  /\ phase \in [Shard -> {"idle", "post", "sync", "get", "reply"}]
  /\ body \in [Shard -> Body]

\* The states are built and every enqueue POST is sent before the first await.
Init ==
  /\ QueueInit
  /\ pc = "enqueue"
  /\ wakeAt = 0
  /\ status = [s \in Shard |-> "pending"]
  /\ jobId = [s \in Shard |-> None]
  /\ result = [s \in Shard |-> None]
  /\ error = [s \in Shard |-> ""]
  /\ phase = [s \in Shard |-> "post"]
  /\ body = [s \in Shard |-> NoBody]

----------------------------------------------------------------------------
(* The bench-runner's side of the fetches. *)

\* respondAsync with ?async=1: the job starts and 202 {jobId} is on its way.
PostArrivesAsync(s, id) ==
  /\ phase[s] = "post"
  /\ RunnerOf[s] \notin OldRunner
  /\ StartJob(s, id)
  /\ phase' = [phase EXCEPT ![s] = "reply"]
  /\ body' = [body EXCEPT ![s] = [jobId |-> id]]
  /\ UNCHANGED <<pc, wakeAt, stateVars>>

\* respondAsync of an old runner: `await run()` inside the request.
PostArrivesSync(s) ==
  /\ phase[s] = "post"
  /\ RunnerOf[s] \in OldRunner
  /\ phase' = [phase EXCEPT ![s] = "sync"]
  /\ bench' = [bench EXCEPT ![s] = "running"]
  /\ UNCHANGED <<now, jobs, used, restarts, pc, wakeAt, stateVars, body>>

\* The bench inside the request ends: the result, or a 500, is on its way.  It
\* runs to its end whether or not the driver still waits for the response.
SyncEnds(s, ok) ==
  /\ RunnerOf[s] \in OldRunner
  /\ bench[s] = "running"
  /\ bench' = [bench EXCEPT ![s] = IF ok THEN "resolved" ELSE "rejected"]
  /\ IF phase[s] = "sync"
     THEN /\ phase' = [phase EXCEPT ![s] = "reply"]
          /\ body' = [body EXCEPT ![s] = IF ok THEN [syncResult |-> s] ELSE NoBody]
     ELSE UNCHANGED <<phase, body>>
  /\ UNCHANGED <<now, jobs, used, restarts, pc, wakeAt, stateVars>>

GetArrives(s) ==
  /\ phase[s] = "get"
  /\ phase' = [phase EXCEPT ![s] = "reply"]
  /\ body' = [body EXCEPT ![s] = JobResponse(RunnerOf[s], jobId[s])]
  /\ UNCHANGED <<queueVars, pc, wakeAt, stateVars>>

\* The fetch rejects or answers with an HTTP error; the catch makes it {error}.
FetchFails(s) ==
  /\ phase[s] \in {"post", "sync", "get"} \/ (phase[s] = "reply" /\ body[s] # NoBody)
  /\ phase' = [phase EXCEPT ![s] = "reply"]
  /\ body' = [body EXCEPT ![s] = NoBody]
  /\ UNCHANGED <<queueVars, pc, wakeAt, stateVars>>

----------------------------------------------------------------------------
(* runShards. *)

HasKey(key, response) == key \in DOMAIN response

\* `"error" in r`
EnqueueFailed(s) ==
  /\ HasKey("error", body[s])
  /\ status' = [status EXCEPT ![s] = "failed"]
  /\ error' = [error EXCEPT ![s] = "fetch"]
  /\ UNCHANGED <<jobId, result>>

\* `"syncResult" in r`: done at once, no job to poll.
EnqueueSync(s) ==
  /\ HasKey("syncResult", body[s])
  /\ status' = [status EXCEPT ![s] = "done"]
  /\ result' = [result EXCEPT ![s] = body[s].syncResult]
  /\ UNCHANGED <<jobId, error>>

EnqueueAccepted(s) ==
  /\ HasKey("jobId", body[s])
  /\ jobId' = [jobId EXCEPT ![s] = body[s].jobId]
  /\ status' = [status EXCEPT ![s] = "running"]
  /\ UNCHANGED <<result, error>>

EnqueueReturns(s) ==
  /\ status[s] = "pending"
  /\ phase[s] = "reply"
  /\ phase' = [phase EXCEPT ![s] = "idle"]
  /\ body' = [body EXCEPT ![s] = NoBody]
  /\ EnqueueFailed(s) \/ EnqueueSync(s) \/ EnqueueAccepted(s)
  /\ UNCHANGED <<queueVars, pc, wakeAt>>

\* `await Promise.all(...)`: every shard's fetch of this round has been handled.
AllSettled == \A s \in Shard : phase[s] = "idle"

EnqueueRoundEnds ==
  /\ pc = "enqueue"
  /\ AllSettled
  /\ pc' = "loop"
  /\ UNCHANGED <<queueVars, wakeAt, stateVars, phase, body>>

\* The shards `status === "running"`, which the loop goes on for.
Running == {s \in Shard : status[s] = "running"}

\* `every` where the loop condition says `some`.
Polling_Every == Running = Shard

Polling == Running # {}

\* The loop condition, then the sleep or the return.
LoopTest ==
  /\ pc = "loop"
  /\ IF Polling
     THEN /\ pc' = "sleep"
          /\ wakeAt' = IF now + PollInterval < MaxClock THEN now + PollInterval ELSE MaxClock
     ELSE /\ pc' = "returned"
          /\ UNCHANGED wakeAt
  /\ UNCHANGED <<queueVars, stateVars, phase, body>>

\* The check left out: polling alone decides.
TimedOut_Never == FALSE

\* Every startedAt is the same instant, so the shards time out together.
TimedOut == now - StartedAt > ShardTimeout

\* The synchronous part of a cycle, the same for every running shard: abandon
\* it if its time is up, without a last poll, and otherwise send the poll.
CycleStarts ==
  LET abandoned == IF TimedOut THEN Running ELSE {} IN
  /\ pc = "sleep"
  /\ now >= wakeAt
  /\ pc' = "cycle"
  /\ status' = [s \in Shard |-> IF s \in abandoned THEN "failed" ELSE status[s]]
  /\ error' = [s \in Shard |-> IF s \in abandoned THEN "timeout" ELSE error[s]]
  /\ phase' = [s \in Shard |-> IF s \in Running \ abandoned THEN "get" ELSE phase[s]]
  /\ UNCHANGED <<queueVars, wakeAt, jobId, result, body>>

\* `"error" in r` comes before the look at r.status.
PollError(s) ==
  /\ HasKey("error", body[s])
  /\ UNCHANGED stateVars

\* The response of a job with neither an error nor an end changes nothing.
PollAnswer(s) ==
  LET r == body[s] IN
  /\ ~HasKey("error", r)
  /\ status' = [status EXCEPT ![s] = IF r.status \in {"done", "failed"} THEN r.status ELSE @]
  /\ result' = [result EXCEPT ![s] = IF r.status = "done" THEN r.result ELSE @]
  /\ error'  = [error EXCEPT ![s] = IF r.status = "failed" THEN "job" ELSE @]
  /\ UNCHANGED jobId

PollReturns(s) ==
  /\ status[s] # "pending"
  /\ phase[s] = "reply"
  /\ phase' = [phase EXCEPT ![s] = "idle"]
  /\ body' = [body EXCEPT ![s] = NoBody]
  /\ PollError(s) \/ PollAnswer(s)
  /\ UNCHANGED <<queueVars, pc, wakeAt>>

CycleEnds ==
  /\ pc = "cycle"
  /\ AllSettled
  /\ pc' = "loop"
  /\ UNCHANGED <<queueVars, wakeAt, stateVars, phase, body>>

----------------------------------------------------------------------------
\* A job settles, a map is swept, a process restarts, time passes: none of it
\* touches the driver's state.  A restart also cuts the requests it was serving.
JobSettles(r, id, ok) ==
  /\ Settle(r, id, ok)
  /\ UNCHANGED <<pc, wakeAt, stateVars, phase, body>>

MapSwept(r) ==
  /\ Sweep(r)
  /\ UNCHANGED <<pc, wakeAt, stateVars, phase, body>>

RunnerRestarts(r) ==
  /\ Restart(r)
  /\ UNCHANGED <<pc, wakeAt, stateVars, phase, body>>

TimePasses ==
  /\ Tick
  /\ UNCHANGED <<pc, wakeAt, stateVars, phase, body>>

\* runShards has returned; what still runs on the runners goes on without it.
Finished ==
  /\ pc = "returned"
  /\ UNCHANGED vars

Driver == EnqueueRoundEnds \/ LoopTest \/ CycleStarts \/ CycleEnds

Call(s) ==
  \/ \E id \in JobId : PostArrivesAsync(s, id)
  \/ PostArrivesSync(s)
  \/ GetArrives(s)
  \/ FetchFails(s)
  \/ EnqueueReturns(s)
  \/ PollReturns(s)

Next ==
  \/ Driver
  \/ \E s \in Shard : Call(s)
  \/ \E s \in Shard, ok \in BOOLEAN : SyncEnds(s, ok)
  \/ \E r \in Runner, id \in JobId, ok \in BOOLEAN : JobSettles(r, id, ok)
  \/ \E r \in Runner : MapSwept(r) \/ RunnerRestarts(r)
  \/ TimePasses
  \/ Finished

\* The event loop runs what is ready, the clock advances, and every fetch comes
\* back: undici gives up on one after 30 minutes.  Nothing makes a bench end.
Fairness ==
  /\ WF_vars(Driver)
  /\ \A s \in Shard : WF_vars(Call(s))
  /\ WF_vars(TimePasses)

Spec == Init /\ [][Next]_vars /\ Fairness

----------------------------------------------------------------------------
(* Properties. *)

\* A shard reported done carries the result of its own bench, and that bench
\* really resolved: no restart, reused job id, late answer or lost response
\* hands the merge another shard's numbers (states' `result`, line 245).
DoneIsOwnResult ==
  \A s \in Shard : status[s] = "done" => result[s] = s /\ bench[s] = "resolved"

\* The sweep and the restarts never leave a bench running that its process's
\* map does not show as running: a driver that polls it in time finds it.
RunningIsListed ==
  \A s \in Shard :
    bench[s] = "running" /\ RunnerOf[s] \notin OldRunner =>
      \E id \in DOMAIN jobs[RunnerOf[s]] :
        jobs[RunnerOf[s]][id].shard = s /\ jobs[RunnerOf[s]][id].status = "running"

\* An outcome is final: once done or failed, no late answer of an earlier poll
\* cycle and no timeout changes a shard's status or result.
OutcomeIsFinal ==
  [][\A s \in Shard : status[s] \in {"done", "failed"} =>
       /\ status'[s] = status[s]
       /\ result'[s] = result[s]]_vars

\* runShards returns, even if no bench ever ends and no runner ever answers.
Terminates == <>(pc = "returned")

\* The line after `r.status === "failed"`: a poll whose answer says that the
\* job failed ends the shard.
FailedJobEndsShard ==
  [][\A s \in Shard :
       (PollReturns(s) /\ HasKey("status", body[s]) /\ body[s].status = "failed")
         => status'[s] = "failed"]_vars

\* The abstract specification this driver implements.
Contract == INSTANCE ShardRun WITH
  outcome  <- [s \in Shard |-> IF status[s] \in {"done", "failed"} THEN status[s] ELSE "none"],
  returned <- pc = "returned"

ImplementsShardRun == Contract!Spec

=============================================================================
