----------------------------- MODULE Rebaseline -----------------------------
(***************************************************************************)
(* `npm run bench:rebaseline` (backend/src/bench/rebaseline.ts): the tests *)
(* of module Manifest that a filter selects, one after the other, each     *)
(* against the job map of a bench-runner (module JobQueue) or, for the     *)
(* idle tests, through runShards, whose contract is module ShardRun.       *)
(*                                                                         *)
(* A test ends when its result is judged or when its turn throws; its      *)
(* bench may go on after that.  As in module ShardCoordinator a fetch is   *)
(* somewhere (phase) and fails anywhere.                                   *)
(*                                                                         *)
(* A value of the result is where it lies from its baseline: the same,     *)
(* near (within driftThresholdPct), far, or, for the delivery rate, fallen *)
(* by more than a point.  Abstracted: the report's wording, the progress   *)
(* lines, the history directory, the 5 s between two polls.                *)
(***************************************************************************)
EXTENDS JobQueue, Manifest, BenchApi, SequencesExt

CONSTANTS
  Filter,         \* the values of FILTER: sets of parts, a part is its words
  OldRunner,      \* runners that ignore ?async=1 and answer with the result
  Urls,           \* benchRunnerUrls.length
  NumShards,      \* numShards of the multi-shard tests
  PollDeadline,   \* the 30 minutes a job is polled for, in ticks
  RampTime        \* the delay of the redeploy, in ticks

Substring(part, words) == \E i, j \in DOMAIN words : SubSeq(words, i, j) = part

\* matchesFilter: by id or by category, and no filter means every test.
MatchesFilter(filter, spec) ==
  \/ filter = {}
  \/ \E part \in filter : Substring(part, spec.id) \/ part = <<spec.category>>

\* A test of the manifest is a Shard of the job map if a filter selects it.
ASSUME RebaselineAssumption ==
  /\ Shard = {spec.id : spec \in {s \in ToSet(Tests) : \E f \in Filter : MatchesFilter(f, s)}}
  /\ OldRunner \subseteq Runner
  /\ {Urls, NumShards, PollDeadline, RampTime} \subseteq Nat
  /\ {spec.endpoint : spec \in ToSet(Tests)} \subseteq Endpoint

VARIABLES
  todo,       \* the selected tests whose turn is not over, by their place in Tests
  phase,      \* where the turn, or the program, is
  request,    \* the fetch's endpoint and query parameters
  body,       \* the response on its way
  jobId,      \* the job polled
  deadline,   \* when polling is given up
  timers,     \* the redeploys scheduled, and when
  outcome,    \* what was reported of each test
  absent,     \* baseline fields its result did not have
  fell,       \* history: the tests whose result had a fallen delivery rate
  exitCode

turnVars == <<phase, request, body, jobId, deadline>>
reportVars == <<outcome, absent, fell, exitCode>>
vars == <<queueVars, todo, turnVars, timers, reportVars>>

NoBody == [error |-> "fetch"]

NoRequest == [endpoint |-> None, params |-> {}]

Value(field) ==
  IF field = DeliveryRate THEN {"same", "near", "far", "fallen"} ELSE {"same", "near", "far"}

TypeOK ==
  /\ QueueTypeOK
  /\ todo \subseteq DOMAIN Tests
  /\ phase \in {"start", "next", "post", "sync", "poll", "get", "reply", "shards", "exited"}
  /\ request = NoRequest \/ request.endpoint \in Endpoint
  /\ jobId \in JobId \cup {None}
  /\ deadline \in Nat
  /\ DOMAIN timers \subseteq Shard
  /\ outcome \in [Shard -> {"none", "ok", "drift", "regress", "failed"}]
  /\ absent \in [Shard -> SUBSET UNION {Tests[i].baseline : i \in DOMAIN Tests}]
  /\ fell \subseteq Shard
  /\ exitCode \in {None, 0, 1}

Init ==
  /\ QueueInit
  /\ todo = {}
  /\ phase = "start"
  /\ request = NoRequest
  /\ body = NoBody
  /\ jobId = None
  /\ deadline = 0
  /\ timers = [t \in {} |-> 0]
  /\ outcome = [t \in Shard |-> "none"]
  /\ absent = [t \in Shard |-> {}]
  /\ fell = {}
  /\ exitCode = None

----------------------------------------------------------------------------
(* The selection. *)

\* filter.includes(category)
Named(filter, category) == \E part \in filter : Substring(<<category>>, part)

\* The slow categories need their flag or their name in the filter.
Selected(filter, flags) ==
  {i \in DOMAIN Tests :
     /\ MatchesFilter(filter, Tests[i])
     /\ Tests[i].category \in {"idle", "avalanche"} \ flags => Named(filter, Tests[i].category)}

\* The environment: FILTER, DRY_RUN, INCLUDE_IDLE and INCLUDE_AVALANCHE.
Start(filter, dryRun, flags) ==
  /\ phase = "start"
  /\ todo' = Selected(filter, flags)
  /\ IF todo' = {} THEN phase' = "exited" /\ exitCode' = 1
     ELSE IF dryRun THEN phase' = "exited" /\ exitCode' = 0
     ELSE phase' = "next" /\ UNCHANGED exitCode
  /\ UNCHANGED <<queueVars, request, body, jobId, deadline, timers, outcome, absent, fell>>

\* The tests take their turns in the manifest's order.
Spec0 == Tests[Min(todo)]

----------------------------------------------------------------------------
(* The end of a turn. *)

EndTurn ==
  /\ todo' = todo \ {Min(todo)}
  /\ phase' = "next"
  /\ request' = NoRequest
  /\ body' = NoBody
  /\ jobId' = None
  /\ UNCHANGED <<deadline, exitCode>>

\* The threshold looked at before the drop of the delivery rate.
Status_ThresholdFirst(spec, field, current) ==
  IF field \notin DOMAIN current THEN "missing"
  ELSE IF current[field] = "far" THEN "drift"
  ELSE "ok"

\* classify
Status(spec, field, current) ==
  IF field \notin DOMAIN current THEN "missing"
  ELSE IF field \in spec.zero THEN IF current[field] = "same" THEN "ok" ELSE "drift"
  ELSE IF field = DeliveryRate /\ current[field] = "fallen" THEN "regress"
  ELSE IF current[field] = "far" THEN "drift"
  ELSE "ok"

\* The rows' statuses, and the worst of them.
Verdict(spec, current) ==
  LET statuses == {Status(spec, f, current) : f \in spec.baseline} IN
  IF "regress" \in statuses THEN "regress" ELSE IF "drift" \in statuses THEN "drift" ELSE "ok"

\* The catch: the turn threw.
Fail ==
  /\ outcome' = [outcome EXCEPT ![Spec0.id] = "failed"]
  /\ UNCHANGED <<absent, fell>>
  /\ EndTurn

\* The result is written to disk, which may fail, and compared with the baseline.
Judge(current) ==
  \/ Fail
  \/ /\ outcome' = [outcome EXCEPT ![Spec0.id] = Verdict(Spec0, current)]
     /\ absent' = [absent EXCEPT ![Spec0.id] = Spec0.baseline \ DOMAIN current]
     /\ fell' = fell \cup {t \in {Spec0.id} : \E f \in DOMAIN current : current[f] = "fallen"}
     /\ EndTurn

\* What readPath may find in a result with these fields.
Readings(fields) ==
  {current \in [Spec0.baseline \cap fields -> {"same", "near", "far", "fallen"}] :
     \A f \in DOMAIN current : current[f] \in Value(f)}

JudgeResult == \E current \in Readings(Returns(Spec0.endpoint[1], request.params)) : Judge(current)

----------------------------------------------------------------------------
(* A turn with one bench-runner: runTest, runAvalancheWithRedeploy. *)

\* Non-zero only on a regression or a hard failure.
Failing == \E t \in Shard : outcome[t] \in {"regress", "failed"}

Exit ==
  /\ phase = "next"
  /\ todo = {}
  /\ phase' = "exited"
  /\ exitCode' = IF Failing THEN 1 ELSE 0
  /\ timers' = [t \in {} |-> 0]
  /\ UNCHANGED <<queueVars, todo, request, body, jobId, deadline, outcome, absent, fell>>

Post ==
  /\ phase = "next"
  /\ todo # {}
  /\ Spec0.mode # "multi-shard"
  /\ phase' = "post"
  /\ request' = [endpoint |-> Spec0.endpoint,
                 params |-> Spec0.params \cup IF Spec0.mode = "sync" THEN {} ELSE {"async"}]
  /\ UNCHANGED <<queueVars, todo, body, jobId, deadline, timers, reportVars>>

AnswersAtOnce(t) == "async" \in request.params /\ RunnerOf[t] \notin OldRunner

PostArrivesAsync(id) ==
  /\ phase = "post"
  /\ AnswersAtOnce(Spec0.id)
  /\ StartJob(Spec0.id, id)
  /\ phase' = "reply"
  /\ body' = [jobId |-> id]
  /\ UNCHANGED <<todo, request, jobId, deadline, timers, reportVars>>

PostArrivesSync ==
  /\ phase = "post"
  /\ ~AnswersAtOnce(Spec0.id)
  /\ phase' = "sync"
  /\ bench' = [bench EXCEPT ![Spec0.id] = "running"]
  /\ UNCHANGED <<now, jobs, used, restarts, todo, request, body, jobId, deadline, timers,
                 reportVars>>

\* A bench inside a request ends; its request may be gone.
InRequest(t) ==
  /\ bench[t] = "running"
  /\ \A r \in Runner : \A id \in DOMAIN jobs[r] : jobs[r][id].shard # t

SyncEnds(t, ok) ==
  /\ InRequest(t)
  /\ bench' = [bench EXCEPT ![t] = IF ok THEN "resolved" ELSE "rejected"]
  /\ IF phase = "sync" /\ t = Spec0.id
     THEN phase' = "reply" /\ body' = IF ok THEN [result |-> t] ELSE [error |-> "HTTP 500"]
     ELSE UNCHANGED <<phase, body>>
  /\ UNCHANGED <<now, jobs, used, restarts, todo, request, jobId, deadline, timers, reportVars>>

\* The fetch rejects, or an HTTP error comes back.
FetchFails ==
  /\ phase \in {"post", "sync", "get"} \/ (phase = "reply" /\ "error" \notin DOMAIN body)
  /\ phase' = "reply"
  /\ body' \in {NoBody, [error |-> "HTTP 502"]}
  /\ UNCHANGED <<queueVars, todo, request, jobId, deadline, timers, reportVars>>

\* `!res.ok`, a rejected fetch, or no jobId where one is needed.
PostThrows ==
  /\ \/ "error" \in DOMAIN body
     \/ Spec0.mode # "sync" /\ "jobId" \notin DOMAIN body
  /\ Fail
  /\ UNCHANGED timers

\* Whatever the mode, the first response is the result.
PostGivesResult_AnyMode ==
  /\ "error" \notin DOMAIN body
  /\ JudgeResult
  /\ UNCHANGED timers

PostGivesResult ==
  /\ Spec0.mode = "sync"
  /\ "result" \in DOMAIN body
  /\ JudgeResult
  /\ UNCHANGED timers

\* The job is polled from now on; an avalanche schedules its redeploy.
PostGivesJob ==
  /\ "jobId" \in DOMAIN body
  /\ jobId' = body.jobId
  /\ deadline' = IF now + PollDeadline < MaxClock THEN now + PollDeadline ELSE MaxClock
  /\ timers' = IF Spec0.mode = "avalanche"
               THEN [t \in DOMAIN timers \cup {Spec0.id} |->
                       IF t = Spec0.id THEN now + RampTime ELSE timers[t]]
               ELSE timers
  /\ phase' = "poll"
  /\ body' = NoBody
  /\ UNCHANGED <<todo, request, reportVars>>

PostReturns ==
  /\ phase = "reply"
  /\ jobId = None
  /\ PostThrows \/ PostGivesResult \/ PostGivesJob
  /\ UNCHANGED queueVars

\* The deadline forgotten.
PollTimedOut_Never == FALSE

PollTimedOut == now >= deadline

\* The loop's condition, then the sleep and the next poll.
Poll ==
  /\ phase = "poll"
  /\ IF PollTimedOut THEN Fail
     ELSE phase' = "get" /\ UNCHANGED <<todo, request, body, jobId, deadline, reportVars>>
  /\ UNCHANGED <<queueVars, timers>>

GetArrives ==
  /\ phase = "get"
  /\ phase' = "reply"
  /\ body' = JobResponse(RunnerOf[Spec0.id], jobId)
  /\ UNCHANGED <<queueVars, todo, request, jobId, deadline, timers, reportVars>>

\* `!pollRes.ok` and a job that runs: on to the next poll.
PollGoesOn ==
  /\ \/ "status" \notin DOMAIN body /\ body # NoBody
     \/ "status" \in DOMAIN body /\ body.status = "running"
  /\ phase' = "poll"
  /\ body' = NoBody
  /\ UNCHANGED <<todo, request, jobId, deadline, reportVars>>

\* A fetch that rejects is not caught here, and a failed job is thrown.
PollThrows ==
  /\ body = NoBody \/ ("status" \in DOMAIN body /\ body.status = "failed")
  /\ Fail

\* poll.result of every job that no longer runs.
PollGivesResult_NotRunning ==
  /\ "status" \in DOMAIN body
  /\ body.status # "running"
  /\ JudgeResult

PollGivesResult ==
  /\ "result" \in DOMAIN body
  /\ JudgeResult

PollReturns ==
  /\ phase = "reply"
  /\ jobId # None
  /\ PollGoesOn \/ PollThrows \/ PollGivesResult
  /\ UNCHANGED <<queueVars, timers>>

\* The timer's callback: the Railway CLI redeploys the service under test.
RedeployFires(t) ==
  /\ t \in DOMAIN timers
  /\ timers[t] <= now
  /\ timers' = [u \in DOMAIN timers \ {t} |-> timers[u]]
  /\ UNCHANGED <<queueVars, todo, turnVars, reportVars>>

----------------------------------------------------------------------------
(* A turn of many bench-runners: runMultiShardWithMetrics. *)

FanOut ==
  /\ phase = "next"
  /\ todo # {}
  /\ Spec0.mode = "multi-shard"
  /\ IF Urls < NumShards THEN Fail
     ELSE /\ phase' = "shards"
          /\ request' = [endpoint |-> Spec0.endpoint,
                         params |-> Spec0.params \cup {"n", "shard", "async"}]
          /\ UNCHANGED <<todo, body, jobId, deadline, reportVars>>
  /\ UNCHANGED <<queueVars, timers>>

\* Totals of the shards that are done, were they read off a single shard.
TotalsFields_Renamed == Scalars({"held", "welcomed", "subscribed", "failed"})

\* The totals over the shards that are done.
TotalsFields == IdleFields

\* The fields that Railway's metrics add, when there are any.
MetricFields(connected, memory, cpu) ==
  (IF memory /\ connected THEN {<<"ramKbPerConnected">>} ELSE {})
    \cup (IF cpu THEN {<<"peakCpuPercent">>} ELSE {})

\* runShards returns: done shards, whose results are added up, and failed ones.
ShardsReturn(done, memory, cpu) ==
  LET fields == TotalsFields \cup MetricFields(done > 0, memory, cpu) IN
  /\ phase = "shards"
  /\ \E current \in Readings(fields) :
       /\ done = 0 /\ <<"connected">> \in fields => current[<<"connected">>] = "far"
       /\ Judge(current)
  /\ UNCHANGED <<queueVars, timers>>

----------------------------------------------------------------------------
JobSettles(r, id, ok) ==
  /\ Settle(r, id, ok)
  /\ UNCHANGED <<todo, turnVars, timers, reportVars>>

MapSwept(r) ==
  /\ Sweep(r)
  /\ UNCHANGED <<todo, turnVars, timers, reportVars>>

RunnerRestarts(r) ==
  /\ Restart(r)
  /\ UNCHANGED <<todo, turnVars, timers, reportVars>>

TimePasses ==
  /\ Tick
  /\ UNCHANGED <<todo, turnVars, timers, reportVars>>

Exited ==
  /\ phase = "exited"
  /\ UNCHANGED vars

Program ==
  \/ \E filter \in Filter, dryRun \in BOOLEAN, flags \in SUBSET {"idle", "avalanche"} :
       Start(filter, dryRun, flags)
  \/ Exit \/ Post \/ Poll \/ FanOut

Call ==
  \/ \E id \in JobId : PostArrivesAsync(id)
  \/ PostArrivesSync
  \/ GetArrives
  \/ FetchFails
  \/ PostReturns
  \/ PollReturns

Shards == \E done \in 0..NumShards, memory, cpu \in BOOLEAN : ShardsReturn(done, memory, cpu)

Next ==
  \/ Program
  \/ Call
  \/ Shards
  \/ \E t \in Shard, ok \in BOOLEAN : SyncEnds(t, ok)
  \/ \E t \in Shard : RedeployFires(t)
  \/ \E r \in Runner, id \in JobId, ok \in BOOLEAN : JobSettles(r, id, ok)
  \/ \E r \in Runner : MapSwept(r) \/ RunnerRestarts(r)
  \/ TimePasses
  \/ Exited

\* The event loop runs, a fetch comes back (undici gives up after 30 minutes),
\* runShards returns (its Terminates) and the clock advances.
Fairness == WF_vars(Program) /\ WF_vars(Call) /\ WF_vars(Shards) /\ WF_vars(TimePasses)

Spec == Init /\ [][Next]_vars /\ Fairness

----------------------------------------------------------------------------
(* Properties. *)

\* A test of one bench-runner is only counted as ok, drift or regress when a
\* bench of its own resolved: no answer to another test's request, job of a
\* restarted runner or leftover of a failed turn is compared with its baseline.
CountedTestsResolved ==
  \A t \in Shard :
    outcome[t] \in {"ok", "drift", "regress"} /\ t[1] # "idle" => bench[t] = "resolved"

\* Two benches of this program run at once only if the turn of one of them
\* ended in a failure: the numbers of a counted test are its own load's.
OverlapIsOfAFailure ==
  \A t \in Shard : bench[t] = "running" /\ (todo = {} \/ t # Spec0.id) => outcome[t] = "failed"

\* Every parameter a test sends is one its endpoint reads: none is replaced by
\* a default in silence.
ParamsAreRead ==
  phase \in {"post", "shards"} => request.params \subseteq Reads(request.endpoint)

\* A baseline field is absent from a judged result only when it comes from
\* Railway's metrics: an absent field is reported as missing and counts as ok.
OnlyMetricsAreMissing ==
  \A t \in Shard : absent[t] \subseteq {<<"ramKbPerConnected">>, <<"peakCpuPercent">>}

\* A delivery rate that fell by more than a point in any test makes the exit
\* code 1, however many tests come after it and however wide its threshold is.
FallenRateFailsTheRun == phase = "exited" /\ fell # {} => exitCode = 1

\* The program ends, whatever the runners do.
Terminates == <>(phase = "exited")

=============================================================================
