---------------------------- MODULE DriverProofs ----------------------------
(***************************************************************************)
(* Theorems about the drivers of several bench-runners.  For every set of  *)
(* shards, runners and job ids and every clock: the type invariant of      *)
(* runShards and the job maps, that a shard reported done carries its own  *)
(* resolved bench's result, that an outcome never changes, and that the    *)
(* contract in module ShardRun is met.  For every set of texts, every size *)
(* of the ring buffer and of the tail, and every number of lines: that the *)
(* driver never prints a line of a job's log twice or out of order, and,   *)
(* as long as no text repeats, misses no line of a tail it was given.  For *)
(* every number of benches, clients, messages and faults: that the merged  *)
(* report counts the clients of the done shards, spans their samples, and  *)
(* hides no gap behind an exit with 0.                                     *)
(***************************************************************************)
EXTENDS ShardCoordinator, LogTail, MultiRun, ResultsProofs, TLAPS

\* One step of the system, action by action, for the case splits below.
LEMMA NextCases ==
  ASSUME [Next]_vars
  PROVE
  \/ EnqueueRoundEnds \/ LoopTest \/ CycleStarts \/ CycleEnds
  \/ \E s \in Shard, id \in JobId : PostArrivesAsync(s, id)
  \/ \E s \in Shard : PostArrivesSync(s) \/ GetArrives(s) \/ FetchFails(s)
                        \/ EnqueueReturns(s) \/ PollReturns(s)
  \/ \E s \in Shard, ok \in BOOLEAN : SyncEnds(s, ok)
  \/ \E r \in Runner, id \in JobId, ok \in BOOLEAN : JobSettles(r, id, ok)
  \/ \E r \in Runner : MapSwept(r) \/ RunnerRestarts(r)
  \/ TimePasses
  \/ UNCHANGED vars
BY DEF Next, Driver, Call, Finished

----------------------------------------------------------------------------
\* Every answer of GET /jobs/:id has a shape pollShard expects, whether or not
\* the job is (still) in the map.
LEMMA JobResponseType ==
  ASSUME QueueTypeOK, NEW r \in Runner, NEW id \in JobId \cup {None}
  PROVE  /\ JobResponse(r, id) \in Body
         /\ HasKey("status", JobResponse(r, id)) \/ HasKey("error", JobResponse(r, id))
<1> USE DEF JobResponse, Body, HasKey
<1>1. CASE id \notin DOMAIN jobs[r]
  BY <1>1
<1>2. CASE id \in DOMAIN jobs[r]
  <2>1. jobs[r][id] \in Job
    BY <1>2 DEF QueueTypeOK
  <2>2. /\ jobs[r][id].status \in {"running", "done", "failed"}
        /\ jobs[r][id].shard \in Shard
    BY <2>1 DEF Job
  <2>3. CASE jobs[r][id].status = "running"
    BY <1>2, <2>3
  <2>4. CASE jobs[r][id].status = "done"
    BY <1>2, <2>2, <2>4
  <2>5. CASE jobs[r][id].status = "failed"
    BY <1>2, <2>5
  <2> QED BY <2>2, <2>3, <2>4, <2>5
<1> QED BY <1>1, <1>2

\* What a shape of response tells about the value of its fields.
LEMMA BodyFields ==
  ASSUME NEW b \in Body
  PROVE  /\ HasKey("jobId", b) => b.jobId \in JobId
         /\ HasKey("syncResult", b) => b.syncResult \in Shard
         /\ HasKey("status", b) => b.status \in {"running", "done", "failed"}
         /\ HasKey("status", b) /\ b.status = "done" => b.result \in Shard
         /\ HasKey("error", b) \/ HasKey("jobId", b) \/ HasKey("syncResult", b)
              \/ HasKey("status", b)
         /\ ~ (HasKey("jobId", b) /\ HasKey("status", b))
BY DEF Body, HasKey

\* The job maps keep their type under every action of a bench-runner.
LEMMA QueueTypeStep ==
  ASSUME QueueTypeOK, [Next]_vars
  PROVE  QueueTypeOK'
<1> USE JobQueueAssumption DEF QueueTypeOK
<1>1. ASSUME NEW s \in Shard, NEW id \in JobId, PostArrivesAsync(s, id)
      PROVE  QueueTypeOK'
  BY <1>1 DEF PostArrivesAsync, StartJob, NewJobIds, Job, BenchState
<1>2. ASSUME NEW s \in Shard, PostArrivesSync(s)
      PROVE  QueueTypeOK'
  BY <1>2 DEF PostArrivesSync, BenchState
<1>3. ASSUME NEW s \in Shard, NEW ok \in BOOLEAN, SyncEnds(s, ok)
      PROVE  QueueTypeOK'
  BY <1>3 DEF SyncEnds, BenchState
<1>4. ASSUME NEW r \in Runner, NEW id \in JobId, NEW ok \in BOOLEAN, JobSettles(r, id, ok)
      PROVE  QueueTypeOK'
  BY <1>4 DEF JobSettles, Settle, Job, BenchState
<1>5. ASSUME NEW r \in Runner, MapSwept(r)
      PROVE  QueueTypeOK'
  BY <1>5 DEF MapSwept, Sweep, Restrict, Job
<1>6. ASSUME NEW r \in Runner, RunnerRestarts(r)
      PROVE  QueueTypeOK'
  BY <1>6 DEF RunnerRestarts, Restart, BenchState
<1>7. CASE TimePasses
  BY <1>7 DEF TimePasses, Tick
<1>8. CASE UNCHANGED queueVars
  BY <1>8 DEF queueVars
<1> QED
  BY <1>1, <1>2, <1>3, <1>4, <1>5, <1>6, <1>7, <1>8, NextCases
     DEF EnqueueRoundEnds, LoopTest, CycleStarts, CycleEnds, GetArrives, FetchFails,
         EnqueueReturns, PollReturns, vars

----------------------------------------------------------------------------
(* Type correctness. *)

LEMMA InitTypeOK == Init => TypeOK
<1> SUFFICES ASSUME Init PROVE TypeOK
  OBVIOUS
<1>1. QueueTypeOK
  BY JobQueueAssumption DEF Init, QueueInit, QueueTypeOK, BenchState
<1>2. NoBody \in Body
  BY DEF NoBody, Body
<1> QED BY <1>1, <1>2 DEF Init, TypeOK

\* How far a shard's fetch and its status go together: a shard is polled only
\* while it runs, a response has the shape its request asked for, and between
\* two rounds of fetches none is in flight.
Protocol ==
  \A s \in Shard :
    /\ phase[s] \in {"post", "sync"} => status[s] = "pending"
    /\ phase[s] = "get" => status[s] = "running"
    /\ phase[s] = "reply" =>
         \/ status[s] = "pending" /\ ~HasKey("status", body[s])
         \/ status[s] = "running" /\ (HasKey("status", body[s]) \/ HasKey("error", body[s]))
    /\ phase[s] = "idle" => status[s] # "pending"
    /\ pc \in {"loop", "sleep", "returned"} => phase[s] = "idle"
    /\ pc # "enqueue" => status[s] # "pending"

\* The two times a sleep can be set to end at.
LEMMA SleepBounds ==
  ASSUME NEW t \in Nat PROVE t + PollInterval \in Nat /\ MaxClock \in Nat
BY JobQueueAssumption, CoordinatorAssumption DEF JobQueueAssumption, CoordinatorAssumption

LEMMA StepTypeOK == TypeOK /\ Protocol /\ [Next]_vars => TypeOK'
<1> SUFFICES ASSUME TypeOK, Protocol, [Next]_vars PROVE TypeOK'
  OBVIOUS
<1> USE JobQueueAssumption, CoordinatorAssumption DEF TypeOK, stateVars
<1>0. QueueTypeOK'
  BY QueueTypeStep
<1>b. NoBody \in Body /\ \A id \in JobId : [jobId |-> id] \in Body
  BY DEF NoBody, Body
<1>1. ASSUME NEW s \in Shard, NEW id \in JobId, PostArrivesAsync(s, id)
      PROVE  TypeOK'
  BY <1>0, <1>1, <1>b DEF PostArrivesAsync
<1>2. ASSUME NEW s \in Shard, PostArrivesSync(s)
      PROVE  TypeOK'
  BY <1>0, <1>2 DEF PostArrivesSync
<1>3. ASSUME NEW s \in Shard, NEW ok \in BOOLEAN, SyncEnds(s, ok)
      PROVE  TypeOK'
  <2>1. [syncResult |-> s] \in Body
    BY DEF Body
  <2> QED BY <1>0, <1>3, <1>b, <2>1 DEF SyncEnds
<1>4. ASSUME NEW s \in Shard, GetArrives(s)
      PROVE  TypeOK'
  <2>1. JobResponse(RunnerOf[s], jobId[s]) \in Body
    BY JobQueueAssumption, JobResponseType
  <2> QED BY <1>0, <1>4, <2>1 DEF GetArrives
<1>5. ASSUME NEW s \in Shard, FetchFails(s)
      PROVE  TypeOK'
  BY <1>0, <1>5, <1>b DEF FetchFails
<1>6. ASSUME NEW s \in Shard, EnqueueReturns(s)
      PROVE  TypeOK'
  <2>1. /\ status' \in [Shard -> {"pending", "running", "done", "failed"}]
        /\ jobId' \in [Shard -> JobId \cup {None}]
        /\ result' \in [Shard -> Shard \cup {None}]
        /\ error' \in [Shard -> {"", "fetch", "timeout", "job"}]
    <3>1. body[s] \in Body
      OBVIOUS
    <3>2. CASE EnqueueFailed(s)
      BY <3>2 DEF EnqueueFailed
    <3>3. CASE EnqueueSync(s)
      BY <3>1, <3>3, BodyFields DEF EnqueueSync
    <3>4. CASE EnqueueAccepted(s)
      BY <3>1, <3>4, BodyFields DEF EnqueueAccepted
    <3> QED BY <1>6, <3>2, <3>3, <3>4 DEF EnqueueReturns
  <2> QED BY <1>0, <1>6, <1>b, <2>1 DEF EnqueueReturns
<1>7. ASSUME NEW s \in Shard, PollReturns(s)
      PROVE  TypeOK'
  <2>1. /\ status' \in [Shard -> {"pending", "running", "done", "failed"}]
        /\ jobId' \in [Shard -> JobId \cup {None}]
        /\ result' \in [Shard -> Shard \cup {None}]
        /\ error' \in [Shard -> {"", "fetch", "timeout", "job"}]
    <3>1. CASE PollError(s)
      BY <3>1 DEF PollError
    <3>2. CASE PollAnswer(s)
      <4>1. body[s].status \in {"done", "failed"} =>
              body[s].status \in {"pending", "running", "done", "failed"}
        OBVIOUS
      <4>2. body[s].status = "done" => body[s].result \in Shard \cup {None}
        BY <1>7, <3>2, BodyFields DEF PollAnswer, PollReturns, Protocol
      <4> QED BY <3>2, <4>1, <4>2 DEF PollAnswer
    <3> QED BY <1>7, <3>1, <3>2 DEF PollReturns
  <2> QED BY <1>0, <1>7, <1>b, <2>1 DEF PollReturns
<1>8. CASE CycleStarts
  <2>1. /\ status' \in [Shard -> {"pending", "running", "done", "failed"}]
        /\ error' \in [Shard -> {"", "fetch", "timeout", "job"}]
        /\ phase' \in [Shard -> {"idle", "post", "sync", "get", "reply"}]
    BY <1>8 DEF CycleStarts
  <2>2. UNCHANGED <<wakeAt, jobId, result, body>> /\ pc' = "cycle"
    BY <1>8 DEF CycleStarts
  <2> QED BY <1>0, <2>1, <2>2
<1>9. CASE LoopTest
  <2>1. now \in Nat
    BY DEF QueueTypeOK
  <2>2. wakeAt' \in Nat /\ pc' \in {"sleep", "returned"}
    <3>1. CASE Polling
      <4>1. now + PollInterval \in Nat /\ MaxClock \in Nat
        BY <2>1, SleepBounds
      <4>2. wakeAt' = (IF now + PollInterval < MaxClock THEN now + PollInterval ELSE MaxClock)
        BY <1>9, <3>1 DEF LoopTest
      <4> QED BY <1>9, <3>1, <4>1, <4>2 DEF LoopTest
    <3>2. CASE ~Polling
      BY <1>9, <3>2 DEF LoopTest
    <3> QED BY <3>1, <3>2
  <2> QED BY <1>0, <1>9, <2>2 DEF LoopTest
<1>10. CASE EnqueueRoundEnds \/ CycleEnds
  BY <1>0, <1>10 DEF EnqueueRoundEnds, CycleEnds
<1>11. CASE UNCHANGED <<pc, wakeAt, stateVars, phase, body>>
  BY <1>0, <1>11
<1> QED
  BY <1>1, <1>2, <1>3, <1>4, <1>5, <1>6, <1>7, <1>8, <1>9, <1>10, <1>11, NextCases
     DEF JobSettles, MapSwept, RunnerRestarts, TimePasses, vars

LEMMA InitProtocol == Init => Protocol
BY DEF Init, Protocol

LEMMA StepProtocol == TypeOK /\ Protocol /\ [Next]_vars => Protocol'
<1> SUFFICES ASSUME TypeOK, Protocol, [Next]_vars PROVE Protocol'
  OBVIOUS
<1> USE DEF TypeOK, stateVars
<1>a. \A id \in JobId : ~HasKey("status", [jobId |-> id])
  BY DEF HasKey
<1>b. HasKey("error", NoBody) /\ ~HasKey("status", NoBody)
  BY DEF NoBody, HasKey
<1>1. ASSUME NEW s \in Shard, NEW id \in JobId, PostArrivesAsync(s, id)
      PROVE  Protocol'
  BY <1>1, <1>a DEF PostArrivesAsync, Protocol
<1>2. ASSUME NEW s \in Shard, PostArrivesSync(s)
      PROVE  Protocol'
  BY <1>2 DEF PostArrivesSync, Protocol
<1>3. ASSUME NEW s \in Shard, NEW ok \in BOOLEAN, SyncEnds(s, ok)
      PROVE  Protocol'
  <2>1. ~HasKey("status", [syncResult |-> s])
    BY DEF HasKey
  <2> QED BY <1>3, <1>b, <2>1 DEF SyncEnds, Protocol
<1>4. ASSUME NEW s \in Shard, GetArrives(s)
      PROVE  Protocol'
  <2> DEFINE r == JobResponse(RunnerOf[s], jobId[s])
  <2>1. HasKey("status", r) \/ HasKey("error", r)
    BY JobQueueAssumption, JobResponseType
  <2> QED BY <1>4, <2>1 DEF GetArrives, Protocol
<1>5. ASSUME NEW s \in Shard, FetchFails(s)
      PROVE  Protocol'
  BY <1>5, <1>b DEF FetchFails, Protocol
<1>6. ASSUME NEW s \in Shard, EnqueueReturns(s)
      PROVE  Protocol'
  <2>1. status'[s] # "pending" /\ \A t \in Shard \ {s} : status'[t] = status[t]
    BY <1>6 DEF EnqueueReturns, EnqueueFailed, EnqueueSync, EnqueueAccepted
  <2> QED BY <1>6, <2>1 DEF EnqueueReturns, Protocol
<1>7. ASSUME NEW s \in Shard, PollReturns(s)
      PROVE  Protocol'
  <2>1. status'[s] # "pending" /\ \A t \in Shard \ {s} : status'[t] = status[t]
    BY <1>7 DEF PollReturns, PollError, PollAnswer
  <2> QED BY <1>7, <2>1 DEF PollReturns, Protocol
<1>8. CASE CycleStarts
  <2> SUFFICES ASSUME NEW s \in Shard
               PROVE  /\ phase'[s] \in {"idle", "get"}
                      /\ phase'[s] = "get" => status'[s] = "running"
                      /\ phase'[s] = "idle" => status'[s] # "pending"
                      /\ pc' = "cycle" /\ status'[s] # "pending"
    BY DEF Protocol
  <2> QED BY <1>8 DEF CycleStarts, Protocol, Running
<1>9. CASE LoopTest
  BY <1>9 DEF LoopTest, Protocol
<1>10. CASE EnqueueRoundEnds \/ CycleEnds
  BY <1>10 DEF EnqueueRoundEnds, CycleEnds, Protocol, AllSettled
<1>11. CASE UNCHANGED <<pc, wakeAt, stateVars, phase, body>>
  BY <1>11 DEF Protocol
<1> QED
  BY <1>1, <1>2, <1>3, <1>4, <1>5, <1>6, <1>7, <1>8, <1>9, <1>10, <1>11, NextCases
     DEF JobSettles, MapSwept, RunnerRestarts, TimePasses, vars

\* Every variable keeps the type its declaration names, in every reachable
\* state of the driver and of the bench-runners (TypeOK).
THEOREM TypeCorrect == Spec => []TypeOK
<1>1. Init => TypeOK /\ Protocol
  BY InitTypeOK, InitProtocol
<1>2. TypeOK /\ Protocol /\ [Next]_vars => (TypeOK /\ Protocol)'
  BY StepTypeOK, StepProtocol
<1> QED BY <1>1, <1>2, PTL DEF Spec

\* A shard that has its outcome keeps it: the awaited rounds leave no answer in
\* flight that could still overwrite it, not even that of a poll sent before the
\* timeout (OutcomeIsFinal).
THEOREM FinalOutcomes == Spec => OutcomeIsFinal
<1>1. ASSUME TypeOK, Protocol, [Next]_vars, NEW s \in Shard, status[s] \in {"done", "failed"}
      PROVE  status'[s] = status[s] /\ result'[s] = result[s]
  <2> DEFINE Kept == status'[s] = status[s] /\ result'[s] = result[s]
  <2> USE <1>1 DEF TypeOK, stateVars
  <2>1. ASSUME NEW t \in Shard, EnqueueReturns(t) PROVE Kept
    BY <2>1 DEF EnqueueReturns, EnqueueFailed, EnqueueSync, EnqueueAccepted
  <2>2. ASSUME NEW t \in Shard, PollReturns(t) PROVE Kept
    BY <2>2 DEF PollReturns, PollError, PollAnswer, Protocol
  <2>3. CASE CycleStarts
    BY <2>3 DEF CycleStarts, Running
  <2> QED
    BY <2>1, <2>2, <2>3, NextCases
       DEF PostArrivesAsync, PostArrivesSync, SyncEnds, GetArrives, FetchFails, LoopTest,
           EnqueueRoundEnds, CycleEnds, JobSettles, MapSwept, RunnerRestarts, TimePasses, vars
<1>2. TypeOK /\ Protocol /\ [Next]_vars => (TypeOK /\ Protocol)'
  BY StepTypeOK, StepProtocol
<1>3. Init => TypeOK /\ Protocol
  BY InitTypeOK, InitProtocol
<1>4. TypeOK /\ Protocol /\ [Next]_vars =>
        [\A s \in Shard : status[s] \in {"done", "failed"} =>
           /\ status'[s] = status[s]
           /\ result'[s] = result[s]]_vars
  BY <1>1
<1> QED BY <1>2, <1>3, <1>4, PTL DEF Spec, OutcomeIsFinal

----------------------------------------------------------------------------
(* Whose job is whose. *)

\* A job in the map of r tells the truth about the bench of one shard of r.
JobIsTrue(r, id) ==
  LET j == jobs[r][id] IN
  /\ RunnerOf[j.shard] = r /\ r \notin OldRunner
  /\ j.status = "running" => bench[j.shard] = "running" /\ j.endedAt = None
  /\ j.status = "done" => bench[j.shard] = "resolved"
  /\ j.status = "failed" => bench[j.shard] = "rejected"

JobsAreTrue ==
  /\ \A r \in Runner : \A id \in DOMAIN jobs[r] : JobIsTrue(r, id)
  /\ \A r \in Runner : \A i, k \in DOMAIN jobs[r] : jobs[r][i].shard = jobs[r][k].shard => i = k

\* An id names the job of shard s wherever it still names one.
IdOf(s, id) ==
  id \in used /\ \A r \in Runner : id \in DOMAIN jobs[r] => jobs[r][id].shard = s

AnswerIsOwn(s) ==
  /\ HasKey("jobId", body[s]) => IdOf(s, body[s].jobId)
  /\ HasKey("syncResult", body[s]) => body[s].syncResult = s /\ bench[s] = "resolved"
  /\ HasKey("status", body[s]) /\ body[s].status = "done" =>
       body[s].result = s /\ bench[s] = "resolved"

AnswersAreOwn ==
  \A s \in Shard :
    /\ phase[s] = "post" => bench[s] = "none"
    /\ jobId[s] # None => IdOf(s, jobId[s])
    /\ AnswerIsOwn(s)

Ownership == JobsAreTrue /\ AnswersAreOwn /\ DoneIsOwnResult

LEMMA KnownJob ==
  ASSUME TypeOK, NEW r \in Runner, NEW id \in DOMAIN jobs[r]
  PROVE  /\ jobs[r][id].shard \in Shard
         /\ Ownership => JobIsTrue(r, id)
<1>1. jobs[r][id] \in Job
  BY DEF TypeOK, QueueTypeOK
<1> QED BY <1>1 DEF Job, Ownership, JobsAreTrue

LEMMA InitOwnership == Init => Ownership
<1> SUFFICES ASSUME Init PROVE Ownership
  OBVIOUS
<1>1. JobsAreTrue
  BY DEF Init, QueueInit, JobsAreTrue
<1>2. AnswersAreOwn
  BY DEF Init, QueueInit, AnswersAreOwn, AnswerIsOwn, NoBody, HasKey
<1>3. DoneIsOwnResult
  BY DEF Init, DoneIsOwnResult
<1> QED BY <1>1, <1>2, <1>3 DEF Ownership

\* Until its bench begins, a shard has no job in any map.
LEMMA NoJobBeforePost ==
  ASSUME TypeOK, Ownership, NEW s \in Shard, bench[s] = "none",
         NEW r \in Runner, NEW id \in DOMAIN jobs[r]
  PROVE  jobs[r][id].shard # s
<1>1. jobs[r][id] \in Job
  BY DEF TypeOK, QueueTypeOK
<1>2. JobIsTrue(r, id)
  BY DEF Ownership, JobsAreTrue
<1> QED BY <1>1, <1>2 DEF Job, JobIsTrue

\* startJob: a fresh id names the new job and no other, so every answer and
\* every job known before keeps its meaning.
LEMMA StartOwnership ==
  ASSUME TypeOK, Ownership, NEW s \in Shard, NEW id \in JobId, PostArrivesAsync(s, id)
  PROVE  Ownership'
<1> DEFINE new == [shard |-> s, status |-> "running", endedAt |-> None]
           r0 == RunnerOf[s]
<1>1. /\ r0 \in Runner \ OldRunner /\ id \notin used
      /\ phase[s] = "post" /\ bench[s] = "none"
  BY JobQueueAssumption DEF PostArrivesAsync, StartJob, NewJobIds, Ownership, AnswersAreOwn,
     JobQueueAssumption
<1>2. /\ \A r \in Runner : r # r0 => jobs'[r] = jobs[r]
      /\ DOMAIN jobs'[r0] = DOMAIN jobs[r0] \cup {id}
      /\ jobs'[r0][id] = new
      /\ \A i \in DOMAIN jobs[r0] : jobs'[r0][i] = jobs[r0][i]
  <2>1. \A r \in Runner : DOMAIN jobs[r] \subseteq used
    BY DEF TypeOK, QueueTypeOK
  <2>2. DOMAIN jobs = Runner
    BY DEF TypeOK, QueueTypeOK
  <2> QED BY <1>1, <2>1, <2>2 DEF PostArrivesAsync, StartJob
<1>3. /\ used' = used \cup {id}
      /\ bench' = [bench EXCEPT ![s] = "running"]
      /\ phase' = [phase EXCEPT ![s] = "reply"]
      /\ body' = [body EXCEPT ![s] = [jobId |-> id]]
      /\ UNCHANGED <<status, jobId, result>>
  BY DEF PostArrivesAsync, StartJob, stateVars
<1>4. \A r \in Runner : \A i \in DOMAIN jobs[r] : i # id /\ jobs[r][i].shard # s
  BY <1>1, NoJobBeforePost DEF TypeOK, QueueTypeOK
<1>5. bench'[s] = "running" /\ \A t \in Shard : t # s => bench'[t] = bench[t]
  BY <1>3 DEF TypeOK, QueueTypeOK
<1>6. JobsAreTrue'
  <2>1. ASSUME NEW r \in Runner, NEW i \in DOMAIN jobs'[r] PROVE JobIsTrue(r, i)'
    <3>1. CASE r = r0 /\ i = id
      BY <1>1, <1>2, <1>5, <3>1 DEF JobIsTrue
    <3>2. CASE ~(r = r0 /\ i = id)
      <4>1. i \in DOMAIN jobs[r] /\ jobs'[r][i] = jobs[r][i]
        BY <1>2, <3>2
      <4>2. jobs[r][i].shard \in Shard
        BY <4>1 DEF TypeOK, QueueTypeOK, Job
      <4> QED BY <1>4, <1>5, <4>1, <4>2 DEF JobIsTrue, Ownership, JobsAreTrue
    <3> QED BY <3>1, <3>2
  <2>2. ASSUME NEW r \in Runner, NEW i \in DOMAIN jobs'[r], NEW k \in DOMAIN jobs'[r],
               jobs'[r][i].shard = jobs'[r][k].shard
        PROVE  i = k
    BY <1>2, <1>4, <2>2 DEF Ownership, JobsAreTrue
  <2> QED BY <2>1, <2>2 DEF JobsAreTrue
<1>7. \A t \in Shard : \A i : IdOf(t, i) => IdOf(t, i)'
  BY <1>1, <1>2, <1>3 DEF IdOf
<1>8. IdOf(s, id)'
  BY <1>2, <1>3, <1>4 DEF IdOf
<1>9. ASSUME NEW t \in Shard
      PROVE  /\ phase'[t] = "post" => bench'[t] = "none"
             /\ jobId'[t] # None => IdOf(t, jobId[t])'
             /\ AnswerIsOwn(t)'
  <2>1. CASE t = s
    <3>1. body'[t] = [jobId |-> id] /\ phase'[t] = "reply"
      BY <1>3, <2>1 DEF TypeOK
    <3> QED BY <1>3, <1>7, <1>8, <2>1, <3>1 DEF AnswerIsOwn, HasKey, Ownership, AnswersAreOwn
  <2>2. CASE t # s
    <3>1. body'[t] = body[t] /\ phase'[t] = phase[t] /\ bench'[t] = bench[t]
      BY <1>3, <1>5, <2>2 DEF TypeOK
    <3> QED BY <1>3, <1>7, <3>1 DEF AnswerIsOwn, Ownership, AnswersAreOwn
  <2> QED BY <2>1, <2>2
<1>10. DoneIsOwnResult'
  BY <1>1, <1>3, <1>5 DEF DoneIsOwnResult, Ownership
<1> QED BY <1>6, <1>9, <1>10 DEF Ownership, AnswersAreOwn

\* The two continuations of fn().then.
LEMMA SettleOwnership ==
  ASSUME TypeOK, Ownership, NEW r0 \in Runner, NEW id \in JobId, NEW ok \in BOOLEAN,
         JobSettles(r0, id, ok)
  PROVE  Ownership'
<1> DEFINE j == jobs[r0][id]
           s == j.shard
<1>1. /\ id \in DOMAIN jobs[r0] /\ j.status = "running" /\ s \in Shard
      /\ bench[s] = "running"
  <2>1. id \in DOMAIN jobs[r0] /\ j.status = "running"
    BY DEF JobSettles, Settle
  <2> QED BY <2>1, KnownJob DEF JobIsTrue
<1>2. /\ \A r \in Runner : DOMAIN jobs'[r] = DOMAIN jobs[r]
      /\ \A r \in Runner : \A i : (r # r0 \/ i # id) /\ i \in DOMAIN jobs[r] => jobs'[r][i] = jobs[r][i]
      /\ jobs'[r0][id].shard = s
      /\ jobs'[r0][id].status = IF ok THEN "done" ELSE "failed"
  BY <1>1 DEF JobSettles, Settle, TypeOK, QueueTypeOK
<1>3. /\ bench'[s] = IF ok THEN "resolved" ELSE "rejected"
      /\ \A t \in Shard : t # s => bench'[t] = bench[t]
  BY <1>1 DEF JobSettles, Settle, TypeOK, QueueTypeOK
<1>4. UNCHANGED <<used, status, jobId, result, phase, body>>
  BY DEF JobSettles, Settle, stateVars
<1>5. JobsAreTrue'
  <2>1. ASSUME NEW r \in Runner, NEW i \in DOMAIN jobs'[r] PROVE JobIsTrue(r, i)'
    <3>1. CASE r = r0 /\ i = id
      BY <1>1, <1>2, <1>3, <3>1 DEF JobIsTrue, Ownership, JobsAreTrue
    <3>2. CASE ~(r = r0 /\ i = id)
      <4>1. i \in DOMAIN jobs[r] /\ jobs'[r][i] = jobs[r][i]
        BY <1>2, <3>2
      <4>2. jobs[r][i].shard \in Shard /\ jobs[r][i].shard # s
        <5>1. jobs[r][i].shard \in Shard
          BY <4>1, KnownJob
        <5>2. jobs[r][i].shard = s => r = r0
          BY <1>1, <4>1, KnownJob DEF JobIsTrue
        <5> QED BY <1>1, <3>2, <4>1, <5>1, <5>2 DEF Ownership, JobsAreTrue
      <4> QED BY <1>3, <4>1, <4>2 DEF JobIsTrue, Ownership, JobsAreTrue
    <3> QED BY <3>1, <3>2
  <2>2. ASSUME NEW r \in Runner, NEW i \in DOMAIN jobs'[r] PROVE jobs'[r][i].shard = jobs[r][i].shard
    BY <1>2
  <2> QED BY <1>2, <2>1, <2>2 DEF JobsAreTrue, Ownership
<1>6. \A t \in Shard : \A i : IdOf(t, i) => IdOf(t, i)'
  BY <1>2, <1>4 DEF IdOf
<1>7. \A t \in Shard : bench[t] \in {"none", "resolved"} => bench'[t] = bench[t]
  BY <1>1, <1>3
<1> QED BY <1>4, <1>5, <1>6, <1>7 DEF Ownership, AnswersAreOwn, AnswerIsOwn, DoneIsOwnResult

\* Sweeping, restarting and an old runner's bench ending remove jobs or end
\* benches that no job of a map stands for; no id gets a new meaning.
LEMMA RunnerOwnership ==
  ASSUME TypeOK, Ownership, NEW r0 \in Runner, MapSwept(r0) \/ RunnerRestarts(r0)
  PROVE  Ownership'
<1>1. /\ \A r \in Runner : DOMAIN jobs'[r] \subseteq DOMAIN jobs[r]
      /\ \A r \in Runner : \A i \in DOMAIN jobs'[r] : jobs'[r][i] = jobs[r][i]
  <2>1. DOMAIN jobs = Runner
    BY DEF TypeOK, QueueTypeOK
  <2>2. CASE MapSwept(r0)
    <3> DEFINE kept == {i \in DOMAIN jobs[r0] : ~Expired(jobs[r0][i])}
    <3>1. jobs' = [jobs EXCEPT ![r0] = [i \in kept |-> jobs[r0][i]]]
      BY <2>2 DEF MapSwept, Sweep, Restrict
    <3> QED BY <2>1, <3>1
  <2>3. CASE RunnerRestarts(r0)
    <3>1. jobs' = [jobs EXCEPT ![r0] = [i \in {} |-> None]]
      BY <2>3 DEF RunnerRestarts, Restart
    <3> QED BY <2>1, <3>1
  <2> QED BY <2>2, <2>3
<1>2. UNCHANGED <<used, status, jobId, result, phase, body>>
  BY DEF MapSwept, Sweep, RunnerRestarts, Restart, stateVars
<1>3. \A t \in Shard : bench[t] # "running" => bench'[t] = bench[t]
  BY DEF MapSwept, Sweep, RunnerRestarts, Restart, TypeOK, QueueTypeOK
<1>4. \A r \in Runner : \A i \in DOMAIN jobs'[r] : JobIsTrue(r, i)'
  <2> SUFFICES ASSUME NEW r \in Runner, NEW i \in DOMAIN jobs'[r] PROVE JobIsTrue(r, i)'
    OBVIOUS
  <2>1. jobs'[r][i] = jobs[r][i] /\ JobIsTrue(r, i) /\ jobs[r][i].shard \in Shard
    BY <1>1, KnownJob
  <2>2. bench'[jobs[r][i].shard] = bench[jobs[r][i].shard]
    <3>1. CASE MapSwept(r0)
      BY <3>1 DEF MapSwept, Sweep
    <3>2. CASE RunnerRestarts(r0)
      <4>1. r # r0
        BY <3>2 DEF RunnerRestarts, Restart, TypeOK, QueueTypeOK
      <4> QED BY <2>1, <3>2, <4>1 DEF RunnerRestarts, Restart, JobIsTrue
    <3> QED BY <3>1, <3>2
  <2> QED BY <2>1, <2>2 DEF JobIsTrue
<1>5. JobsAreTrue'
  BY <1>1, <1>4 DEF JobsAreTrue, Ownership
<1>6. \A t \in Shard : \A i : IdOf(t, i) => IdOf(t, i)'
  BY <1>1, <1>2 DEF IdOf
<1> QED BY <1>2, <1>3, <1>5, <1>6 DEF Ownership, AnswersAreOwn, AnswerIsOwn, DoneIsOwnResult

LEMMA OldRunnerOwnership ==
  ASSUME TypeOK, Ownership, NEW s \in Shard,
         PostArrivesSync(s) \/ \E ok \in BOOLEAN : SyncEnds(s, ok)
  PROVE  Ownership'
<1>1. /\ RunnerOf[s] \in OldRunner /\ bench[s] \in {"none", "running"}
      /\ UNCHANGED <<jobs, used, status, jobId, result>>
      /\ \A t \in Shard : t # s => bench'[t] = bench[t] /\ phase'[t] = phase[t] /\ body'[t] = body[t]
  BY DEF PostArrivesSync, SyncEnds, stateVars, Ownership, AnswersAreOwn, TypeOK, QueueTypeOK
<1>2. phase'[s] # "post" \/ bench'[s] = bench[s] \/ bench[s] = "running"
  BY DEF PostArrivesSync, SyncEnds, TypeOK
<1>3. phase'[s] # "post"
  BY DEF PostArrivesSync, SyncEnds, TypeOK, Ownership, AnswersAreOwn
<1>4. AnswerIsOwn(s)'
  <2>1. CASE body'[s] = body[s]
    BY <1>1, <2>1 DEF AnswerIsOwn, Ownership, AnswersAreOwn, IdOf
  <2>2. CASE body'[s] = NoBody
    BY <2>2 DEF AnswerIsOwn, NoBody, HasKey
  <2>3. CASE body'[s] = [syncResult |-> s] /\ bench'[s] = "resolved"
    BY <2>3 DEF AnswerIsOwn, HasKey
  <2> QED
    BY <2>1, <2>2, <2>3 DEF PostArrivesSync, SyncEnds, TypeOK, QueueTypeOK
<1>5. JobsAreTrue'
  <2>1. \A r \in Runner : \A i \in DOMAIN jobs[r] :
          jobs[r][i].shard \in Shard /\ jobs[r][i].shard # s
    BY <1>1, KnownJob DEF JobIsTrue
  <2> QED BY <1>1, <2>1 DEF Ownership, JobsAreTrue, JobIsTrue
<1>6. \A t \in Shard : \A i : IdOf(t, i) => IdOf(t, i)'
  BY <1>1 DEF IdOf
<1>7. DoneIsOwnResult'
  BY <1>1 DEF DoneIsOwnResult, Ownership
<1> QED BY <1>1, <1>3, <1>4, <1>5, <1>6, <1>7 DEF Ownership, AnswersAreOwn, AnswerIsOwn

\* GET /jobs/:id: what the job says of its bench is what the answer says.
LEMMA GetOwnership ==
  ASSUME TypeOK, Ownership, NEW s \in Shard, GetArrives(s)
  PROVE  Ownership'
<1> DEFINE r == RunnerOf[s]
           id == jobId[s]
           b == JobResponse(r, id)
<1>1. /\ UNCHANGED <<now, jobs, used, bench, restarts, status, jobId, result>>
      /\ phase'[s] # "post"
      /\ body'[s] = b
      /\ \A t \in Shard : t # s => phase'[t] = phase[t] /\ body'[t] = body[t]
  BY DEF GetArrives, TypeOK, queueVars, stateVars
<1>2. r \in Runner
  BY JobQueueAssumption DEF JobQueueAssumption
<1>3. ASSUME id \in DOMAIN jobs[r]
      PROVE  /\ jobs[r][id].shard = s
             /\ jobs[r][id].status = "done" => bench[s] = "resolved"
             /\ jobs[r][id].status \in {"running", "done", "failed"}
  <2>1. id \in JobId
    BY <1>2, <1>3 DEF TypeOK, QueueTypeOK
  <2>2. id # None
    BY <2>1, JobQueueAssumption DEF JobQueueAssumption
  <2>3. jobs[r][id].shard = s
    BY <1>2, <1>3, <2>2 DEF Ownership, AnswersAreOwn, IdOf
  <2>4. jobs[r][id] \in Job /\ JobIsTrue(r, id)
    BY <1>2, <1>3 DEF TypeOK, QueueTypeOK, Ownership, JobsAreTrue
  <2> QED BY <2>3, <2>4 DEF Job, JobIsTrue
<1>4. /\ ~HasKey("jobId", b) /\ ~HasKey("syncResult", b)
      /\ HasKey("status", b) /\ b.status = "done" => b.result = s /\ bench[s] = "resolved"
  <2>1. CASE id \notin DOMAIN jobs[r]
    BY <2>1 DEF JobResponse, HasKey
  <2>2. CASE id \in DOMAIN jobs[r] /\ jobs[r][id].status = "running"
    BY <2>2 DEF JobResponse, HasKey
  <2>3. CASE id \in DOMAIN jobs[r] /\ jobs[r][id].status = "done"
    BY <1>3, <2>3 DEF JobResponse, HasKey
  <2>4. CASE id \in DOMAIN jobs[r] /\ jobs[r][id].status = "failed"
    BY <2>4 DEF JobResponse, HasKey
  <2> QED BY <1>3, <2>1, <2>2, <2>3, <2>4
<1>5. AnswerIsOwn(s)'
  BY <1>1, <1>4 DEF AnswerIsOwn, HasKey
<1>6. \A t \in Shard : \A i : IdOf(t, i) => IdOf(t, i)'
  BY <1>1 DEF IdOf
<1>7. ASSUME NEW t \in Shard
      PROVE  /\ phase'[t] = "post" => bench'[t] = "none"
             /\ jobId'[t] # None => IdOf(t, jobId[t])'
             /\ AnswerIsOwn(t)'
  <2>1. CASE t = s
    BY <1>1, <1>5, <1>6, <2>1 DEF Ownership, AnswersAreOwn
  <2>2. CASE t # s
    BY <1>1, <1>6, <2>2 DEF Ownership, AnswersAreOwn, AnswerIsOwn
  <2> QED BY <2>1, <2>2
<1>8. JobsAreTrue' /\ DoneIsOwnResult'
  BY <1>1 DEF Ownership, JobsAreTrue, JobIsTrue, DoneIsOwnResult
<1> QED BY <1>7, <1>8 DEF Ownership, AnswersAreOwn

\* A fetch that fails says nothing, and a response that was handled is gone: in
\* both the answer of s becomes the empty one.
LEMMA EmptyAnswerOwnership ==
  ASSUME TypeOK, Ownership, NEW s \in Shard,
         body' = [body EXCEPT ![s] = NoBody],
         phase' \in [Shard -> {"idle", "post", "sync", "get", "reply"}],
         \A t \in Shard : phase'[t] = "post" => phase[t] = "post",
         UNCHANGED queueVars,
         \A t \in Shard : jobId'[t] = jobId[t] \/ IdOf(t, jobId'[t]),
         DoneIsOwnResult'
  PROVE  Ownership'
<1>1. UNCHANGED <<now, jobs, used, bench, restarts>>
  BY DEF queueVars
<1>2. \A t \in Shard : \A i : IdOf(t, i) => IdOf(t, i)'
  BY <1>1 DEF IdOf
<1>3. \A t \in Shard : body'[t] = body[t] \/ body'[t] = NoBody
  BY DEF TypeOK
<1>4. ASSUME NEW t \in Shard PROVE AnswerIsOwn(t)'
  <2>1. CASE body'[t] = body[t]
    BY <1>1, <1>2, <2>1 DEF AnswerIsOwn, Ownership, AnswersAreOwn
  <2>2. CASE body'[t] = NoBody
    BY <2>2 DEF AnswerIsOwn, NoBody, HasKey
  <2> QED BY <1>3, <2>1, <2>2
<1>5. JobsAreTrue'
  BY <1>1 DEF Ownership, JobsAreTrue, JobIsTrue
<1>6. ASSUME NEW t \in Shard
      PROVE  /\ phase'[t] = "post" => bench'[t] = "none"
             /\ jobId'[t] # None => IdOf(t, jobId[t])'
  BY <1>1, <1>2 DEF Ownership, AnswersAreOwn
<1> QED BY <1>4, <1>5, <1>6 DEF Ownership, AnswersAreOwn

LEMMA FailOwnership ==
  ASSUME TypeOK, Ownership, NEW s \in Shard, FetchFails(s)
  PROVE  Ownership'
<1>1. DoneIsOwnResult'
  BY DEF FetchFails, stateVars, queueVars, Ownership, DoneIsOwnResult
<1> QED
  BY <1>1, EmptyAnswerOwnership DEF FetchFails, TypeOK, stateVars

LEMMA EnqueueOwnership ==
  ASSUME TypeOK, Ownership, NEW s \in Shard, EnqueueReturns(s)
  PROVE  Ownership'
<1>1. \A t \in Shard : t # s =>
        status'[t] = status[t] /\ result'[t] = result[t] /\ jobId'[t] = jobId[t]
  BY DEF EnqueueReturns, EnqueueFailed, EnqueueSync, EnqueueAccepted, TypeOK
<1>2. status'[s] = "done" => HasKey("syncResult", body[s]) /\ result'[s] = body[s].syncResult
  BY DEF EnqueueReturns, EnqueueFailed, EnqueueSync, EnqueueAccepted, TypeOK
<1>3. jobId'[s] = jobId[s] \/ (HasKey("jobId", body[s]) /\ jobId'[s] = body[s].jobId)
  BY DEF EnqueueReturns, EnqueueFailed, EnqueueSync, EnqueueAccepted, TypeOK
<1>4. DoneIsOwnResult'
  BY <1>1, <1>2 DEF DoneIsOwnResult, Ownership, AnswersAreOwn, AnswerIsOwn, EnqueueReturns,
     queueVars
<1>5. \A t \in Shard : jobId'[t] = jobId[t] \/ IdOf(t, jobId'[t])
  BY <1>1, <1>3 DEF Ownership, AnswersAreOwn, AnswerIsOwn
<1> QED
  BY <1>4, <1>5, EmptyAnswerOwnership DEF EnqueueReturns, TypeOK

LEMMA PollOwnership ==
  ASSUME TypeOK, Protocol, Ownership, NEW s \in Shard, PollReturns(s)
  PROVE  Ownership'
<1>1. /\ \A t \in Shard : t # s => status'[t] = status[t] /\ result'[t] = result[t]
      /\ jobId' = jobId
  BY DEF PollReturns, PollError, PollAnswer, TypeOK, stateVars
<1>2. status[s] = "running"
  BY DEF PollReturns, Protocol
<1>3. status'[s] = "done" =>
        HasKey("status", body[s]) /\ body[s].status = "done" /\ result'[s] = body[s].result
  BY <1>2 DEF PollReturns, PollError, PollAnswer, TypeOK, stateVars, Protocol
<1>4. DoneIsOwnResult'
  BY <1>1, <1>3 DEF DoneIsOwnResult, Ownership, AnswersAreOwn, AnswerIsOwn, PollReturns,
     queueVars
<1> QED
  BY <1>1, <1>4, EmptyAnswerOwnership DEF PollReturns, TypeOK

LEMMA StepOwnership == TypeOK /\ Protocol /\ Ownership /\ [Next]_vars => Ownership'
<1> SUFFICES ASSUME TypeOK, Protocol, Ownership, [Next]_vars PROVE Ownership'
  OBVIOUS
<1> DEFINE Same == UNCHANGED <<jobs, used, bench, jobId, result, body>>
<1>1. ASSUME Same, UNCHANGED <<status, phase>> PROVE Ownership'
  BY <1>1 DEF Ownership, JobsAreTrue, JobIsTrue, AnswersAreOwn, AnswerIsOwn, IdOf,
     DoneIsOwnResult
<1>2. CASE CycleStarts
  <2>1. /\ UNCHANGED <<jobs, used, bench, jobId, result, body>>
        /\ \A s \in Shard : phase'[s] = "post" => phase[s] = "post"
        /\ \A s \in Shard : status'[s] = "done" => status[s] = "done"
    BY <1>2 DEF CycleStarts, queueVars
  <2> QED
    BY <2>1 DEF Ownership, JobsAreTrue, JobIsTrue, AnswersAreOwn, AnswerIsOwn, IdOf,
       DoneIsOwnResult
<1>3. CASE EnqueueRoundEnds \/ LoopTest \/ CycleEnds \/ TimePasses \/ UNCHANGED vars
  <2>1. Same /\ UNCHANGED <<status, phase>>
    BY <1>3 DEF EnqueueRoundEnds, LoopTest, CycleEnds, TimePasses, Tick, vars, queueVars,
       stateVars
  <2> QED BY <1>1, <2>1
<1> QED
  BY <1>2, <1>3, NextCases, StartOwnership, OldRunnerOwnership, GetOwnership, FailOwnership,
     EnqueueOwnership, PollOwnership, SettleOwnership, RunnerOwnership

\* A shard reported done carries the result of its own bench, which resolved:
\* over any number of runners, restarts, sweeps, lost and late responses
\* (DoneIsOwnResult).
THEOREM DoneOwn == Spec => []DoneIsOwnResult
<1>1. Init => TypeOK /\ Protocol /\ Ownership
  BY InitTypeOK, InitProtocol, InitOwnership
<1>2. TypeOK /\ Protocol /\ Ownership /\ [Next]_vars => (TypeOK /\ Protocol /\ Ownership)'
  BY StepTypeOK, StepProtocol, StepOwnership
<1>3. Ownership => DoneIsOwnResult
  BY DEF Ownership
<1> QED BY <1>1, <1>2, <1>3, PTL DEF Spec

----------------------------------------------------------------------------
(* No bench runs unlisted. *)

\* s needs a running job in its process's map.
Listed(s) ==
  bench[s] = "running" /\ RunnerOf[s] \notin OldRunner =>
    \E id \in DOMAIN jobs[RunnerOf[s]] :
      jobs[RunnerOf[s]][id].shard = s /\ jobs[RunnerOf[s]][id].status = "running"

LEMMA StepListed ==
  ASSUME TypeOK, Ownership, [Next]_vars, NEW t \in Shard, Listed(t)
  PROVE  Listed(t)'
<1> DEFINE q == RunnerOf[t]
           Lists(id) == id \in DOMAIN jobs[q] /\ jobs[q][id].shard = t
                          /\ jobs[q][id].status = "running"
<1> SUFFICES ASSUME q \notin OldRunner, bench'[t] = "running"
             PROVE  \E id : Lists(id)'
  BY DEF Listed
<1>q. q \in Runner
  BY JobQueueAssumption DEF JobQueueAssumption
<1>k. bench[t] = "running" => \E id : Lists(id)
  BY DEF Listed
<1>d. DOMAIN jobs = Runner
  BY DEF TypeOK, QueueTypeOK
<1>1. ASSUME NEW s \in Shard, NEW id \in JobId, PostArrivesAsync(s, id)
      PROVE  \E i : Lists(i)'
  <2>1. CASE s = t
    <3>1. Lists(id)'
      BY <1>1, <1>q, <1>d, <2>1 DEF PostArrivesAsync, StartJob
    <3> QED BY <3>1
  <2>2. CASE s # t
    <3>1. bench[t] = "running"
      BY <1>1, <2>2 DEF PostArrivesAsync, StartJob, TypeOK, QueueTypeOK
    <3>2. PICK i : Lists(i)
      BY <1>k, <3>1
    <3>3. i # id
      BY <1>1, <1>q, <3>2 DEF PostArrivesAsync, StartJob, NewJobIds, TypeOK, QueueTypeOK
    <3>4. Lists(i)'
      BY <1>1, <1>q, <1>d, <3>2, <3>3 DEF PostArrivesAsync, StartJob
    <3> QED BY <3>4
  <2> QED BY <2>1, <2>2
<1>2. ASSUME NEW r \in Runner, NEW id \in JobId, NEW ok \in BOOLEAN, JobSettles(r, id, ok)
      PROVE  \E i : Lists(i)'
  <2>1. bench[t] = "running" /\ t # jobs[r][id].shard
    BY <1>2 DEF JobSettles, Settle, TypeOK, QueueTypeOK
  <2>2. PICK i : Lists(i)
    BY <1>k, <2>1
  <2>3. ~(r = q /\ i = id)
    BY <2>1, <2>2
  <2>4. DOMAIN jobs'[q] = DOMAIN jobs[q] /\ jobs'[q][i] = jobs[q][i]
    BY <1>2, <1>q, <1>d, <2>2, <2>3 DEF JobSettles, Settle
  <2> QED BY <2>2, <2>4
<1>3. ASSUME NEW r \in Runner, MapSwept(r)
      PROVE  \E i : Lists(i)'
  <2>1. bench[t] = "running"
    BY <1>3 DEF MapSwept, Sweep
  <2>2. PICK i : Lists(i)
    BY <1>k, <2>1
  <2>3. ~Expired(jobs[q][i])
    BY <1>q, <2>2 DEF Expired, Ownership, JobsAreTrue, JobIsTrue
  <2>4. CASE r = q
    <3> DEFINE kept == {j \in DOMAIN jobs[q] : ~Expired(jobs[q][j])}
    <3>1. jobs' = [jobs EXCEPT ![q] = [j \in kept |-> jobs[q][j]]]
      BY <1>3, <2>4 DEF MapSwept, Sweep, Restrict
    <3>2. i \in kept
      BY <2>2, <2>3
    <3>3. Lists(i)'
      BY <1>q, <1>d, <2>2, <3>1, <3>2
    <3> QED BY <3>3
  <2>5. CASE r # q
    <3>1. jobs'[q] = jobs[q]
      BY <1>3, <1>q, <1>d, <2>5 DEF MapSwept, Sweep
    <3> QED BY <2>2, <3>1
  <2> QED BY <2>4, <2>5
<1>4. ASSUME NEW r \in Runner, RunnerRestarts(r)
      PROVE  \E i : Lists(i)'
  <2>1. bench[t] = "running" /\ r # q
    BY <1>4 DEF RunnerRestarts, Restart, TypeOK, QueueTypeOK
  <2>2. jobs'[q] = jobs[q]
    BY <1>4, <1>q, <1>d, <2>1 DEF RunnerRestarts, Restart
  <2> QED BY <1>k, <2>1, <2>2
<1>5. ASSUME UNCHANGED jobs, bench'[t] = bench[t]
      PROVE  \E i : Lists(i)'
  BY <1>5, <1>k
<1>6. ASSUME NEW s \in Shard, PostArrivesSync(s) \/ \E ok \in BOOLEAN : SyncEnds(s, ok)
      PROVE  UNCHANGED jobs /\ bench'[t] = bench[t]
  BY <1>6 DEF PostArrivesSync, SyncEnds, TypeOK, QueueTypeOK
<1> QED
  BY <1>1, <1>2, <1>3, <1>4, <1>5, <1>6, NextCases
     DEF GetArrives, FetchFails, EnqueueReturns, PollReturns, EnqueueRoundEnds, LoopTest,
         CycleStarts, CycleEnds, TimePasses, Tick, vars, queueVars

\* Every bench that runs in a new runner is a running job of that process's map,
\* which neither the TTL sweep nor anything short of the process's death removes
\* before it settles (RunningIsListed).
THEOREM BenchesAreListed == Spec => []RunningIsListed
<1>1. Init => TypeOK /\ Protocol /\ Ownership /\ RunningIsListed
  <2>1. Init => RunningIsListed
    BY DEF Init, QueueInit, RunningIsListed
  <2> QED BY <2>1, InitTypeOK, InitProtocol, InitOwnership
<1>2. TypeOK /\ Ownership /\ RunningIsListed /\ [Next]_vars => RunningIsListed'
  <2> SUFFICES ASSUME TypeOK, Ownership, RunningIsListed, [Next]_vars, NEW t \in Shard
               PROVE  Listed(t)'
    BY DEF RunningIsListed, Listed
  <2>1. Listed(t)
    BY DEF RunningIsListed, Listed
  <2> QED BY <2>1, StepListed
<1>3. TypeOK /\ Protocol /\ Ownership /\ RunningIsListed /\ [Next]_vars =>
        (TypeOK /\ Protocol /\ Ownership /\ RunningIsListed)'
  BY <1>2, StepTypeOK, StepProtocol, StepOwnership
<1> QED BY <1>1, <1>3, PTL DEF Spec

----------------------------------------------------------------------------
(* The driver implements ShardRun. *)

Outcome(st) == IF st \in {"done", "failed"} THEN st ELSE "none"

ContractStep == [Contract!Next]_(Contract!vars)

\* Steps that decide no shard's outcome.
LEMMA SameOutcome ==
  ASSUME UNCHANGED bench, (pc' = "returned") = (pc = "returned"),
         \A s \in Shard : Outcome(status'[s]) = Outcome(status[s])
  PROVE  ContractStep
BY DEF ContractStep, Contract!vars, Outcome

LEMMA BeginStep ==
  ASSUME TypeOK, NEW s \in Shard, bench[s] = "none", bench' = [bench EXCEPT ![s] = "running"],
         UNCHANGED <<status, pc>>
  PROVE  ContractStep
BY DEF ContractStep, Contract!Next, Contract!Begin

LEMMA EndStep ==
  ASSUME TypeOK, NEW over \in SUBSET Shard, NEW how \in {"resolved", "rejected", "lost"},
         \A s \in over : bench[s] = "running",
         bench' = [s \in Shard |-> IF s \in over THEN how ELSE bench[s]],
         UNCHANGED <<status, pc>>
  PROVE  ContractStep
BY DEF ContractStep, Contract!Next, Contract!End

LEMMA EndOneStep ==
  ASSUME TypeOK, NEW s \in Shard, NEW how \in {"resolved", "rejected", "lost"},
         bench[s] = "running", bench' = [bench EXCEPT ![s] = how], UNCHANGED <<status, pc>>
  PROVE  ContractStep
<1> DEFINE over == {s}
<1>1. over \in SUBSET Shard /\ \A t \in over : bench[t] = "running"
  OBVIOUS
<1>2. bench' = [t \in Shard |-> IF t \in over THEN how ELSE bench[t]]
  BY DEF TypeOK, QueueTypeOK
<1> HIDE DEF over
<1> QED BY <1>1, <1>2, EndStep

LEMMA DoneStep ==
  ASSUME TypeOK, NEW s \in Shard, status[s] \in {"pending", "running"}, bench[s] = "resolved",
         status' = [status EXCEPT ![s] = "done"], UNCHANGED <<bench, pc>>
  PROVE  ContractStep
<1>1. Contract!ReportDone(s)
  BY DEF Contract!ReportDone, TypeOK
<1> QED BY <1>1 DEF ContractStep, Contract!Next

LEMMA FailedStep ==
  ASSUME TypeOK, NEW shards \in SUBSET Shard,
         \A s \in shards : status[s] \in {"pending", "running"},
         status' = [s \in Shard |-> IF s \in shards THEN "failed" ELSE status[s]],
         UNCHANGED bench, (pc' = "returned") = (pc = "returned")
  PROVE  ContractStep
<1>1. Contract!ReportFailed(shards)
  BY DEF Contract!ReportFailed, TypeOK
<1> QED BY <1>1 DEF ContractStep, Contract!Next

LEMMA FailedOneStep ==
  ASSUME TypeOK, NEW s \in Shard, status[s] \in {"pending", "running"},
         status' = [status EXCEPT ![s] = "failed"], UNCHANGED <<bench, pc>>
  PROVE  ContractStep
<1> DEFINE shards == {s}
<1>1. shards \in SUBSET Shard /\ \A t \in shards : status[t] \in {"pending", "running"}
  OBVIOUS
<1>2. status' = [t \in Shard |-> IF t \in shards THEN "failed" ELSE status[t]]
  BY DEF TypeOK
<1> HIDE DEF shards
<1> QED BY <1>1, <1>2, FailedStep

LEMMA StepContract ==
  ASSUME TypeOK, Protocol, Ownership, [Next]_vars
  PROVE  ContractStep
<1> USE DEF TypeOK, QueueTypeOK, stateVars
<1>1. ASSUME NEW s \in Shard, NEW id \in JobId, PostArrivesAsync(s, id)
      PROVE  ContractStep
  BY <1>1, BeginStep DEF PostArrivesAsync, StartJob, Ownership, AnswersAreOwn
<1>2. ASSUME NEW s \in Shard, PostArrivesSync(s)
      PROVE  ContractStep
  BY <1>2, BeginStep DEF PostArrivesSync, Ownership, AnswersAreOwn
<1>3. ASSUME NEW s \in Shard, NEW ok \in BOOLEAN, SyncEnds(s, ok)
      PROVE  ContractStep
  <2> DEFINE how == IF ok THEN "resolved" ELSE "rejected"
  <2>1. bench' = [bench EXCEPT ![s] = how]
    BY <1>3 DEF SyncEnds
  <2> QED BY <1>3, <2>1, EndOneStep DEF SyncEnds
<1>4. ASSUME NEW r \in Runner, NEW id \in JobId, NEW ok \in BOOLEAN, JobSettles(r, id, ok)
      PROVE  ContractStep
  <2> DEFINE how == IF ok THEN "resolved" ELSE "rejected"
             s == jobs[r][id].shard
  <2>1. s \in Shard /\ bench[s] = "running"
    <3>1. id \in DOMAIN jobs[r] /\ jobs[r][id].status = "running"
      BY <1>4 DEF JobSettles, Settle
    <3>2. s \in Shard /\ JobIsTrue(r, id)
      BY <3>1, KnownJob
    <3> QED BY <3>1, <3>2 DEF JobIsTrue
  <2>2. bench' = [bench EXCEPT ![s] = how]
    BY <1>4, <2>1 DEF JobSettles, Settle
  <2>3. UNCHANGED <<status, pc>>
    BY <1>4 DEF JobSettles
  <2> HIDE DEF s
  <2> QED BY <2>1, <2>2, <2>3, EndOneStep
<1>5. ASSUME NEW r \in Runner, RunnerRestarts(r)
      PROVE  ContractStep
  <2> DEFINE over == {s \in Shard : RunnerOf[s] = r /\ bench[s] = "running"}
  <2>1. bench' = [s \in Shard |-> IF s \in over THEN "lost" ELSE bench[s]]
    BY <1>5 DEF RunnerRestarts, Restart
  <2>2. over \in SUBSET Shard /\ \A s \in over : bench[s] = "running"
    OBVIOUS
  <2>3. UNCHANGED <<status, pc>>
    BY <1>5 DEF RunnerRestarts
  <2> HIDE DEF over
  <2> QED BY <2>1, <2>2, <2>3, EndStep
<1>6. ASSUME NEW s \in Shard, EnqueueReturns(s)
      PROVE  ContractStep
  <2>1. status[s] = "pending" /\ UNCHANGED <<bench, pc>>
    BY <1>6 DEF EnqueueReturns, queueVars
  <2>2. CASE EnqueueFailed(s)
    <3>1. status' = [status EXCEPT ![s] = "failed"]
      BY <2>2 DEF EnqueueFailed
    <3> QED BY <2>1, <3>1, FailedOneStep
  <2>3. CASE EnqueueSync(s)
    <3>1. bench[s] = "resolved"
      BY <2>3 DEF EnqueueSync, Ownership, AnswersAreOwn, AnswerIsOwn
    <3> QED BY <2>1, <2>3, <3>1, DoneStep DEF EnqueueSync
  <2>4. CASE EnqueueAccepted(s)
    <3>1. \A t \in Shard : Outcome(status'[t]) = Outcome(status[t])
      BY <2>1, <2>4 DEF EnqueueAccepted, Outcome
    <3> QED BY <2>1, <3>1, SameOutcome
  <2> QED BY <1>6, <2>2, <2>3, <2>4 DEF EnqueueReturns
<1>7. ASSUME NEW s \in Shard, PollReturns(s)
      PROVE  ContractStep
  <2>1. status[s] = "running" /\ UNCHANGED <<bench, pc>>
    BY <1>7 DEF PollReturns, Protocol, queueVars
  <2>2. CASE PollError(s)
    BY <2>1, <2>2, SameOutcome DEF PollError
  <2>3. CASE PollAnswer(s)
    <3>1. HasKey("status", body[s])
      BY <1>7, <2>3 DEF PollReturns, PollAnswer, Protocol
    <3>2. CASE body[s].status = "done"
      <4>1. bench[s] = "resolved"
        BY <3>1, <3>2 DEF Ownership, AnswersAreOwn, AnswerIsOwn
      <4> QED BY <2>1, <2>3, <3>2, <4>1, DoneStep DEF PollAnswer
    <3>3. CASE body[s].status = "failed"
      <4>1. status' = [status EXCEPT ![s] = "failed"]
        BY <2>3, <3>3 DEF PollAnswer
      <4> QED BY <2>1, <4>1, FailedOneStep
    <3>4. CASE body[s].status \notin {"done", "failed"}
      BY <2>1, <2>3, <3>4, SameOutcome DEF PollAnswer
    <3> QED BY <3>2, <3>3, <3>4
  <2> QED BY <1>7, <2>2, <2>3 DEF PollReturns
<1>8. CASE CycleStarts
  <2> DEFINE abandoned == IF TimedOut THEN Running ELSE {}
  <2>1. status' = [s \in Shard |-> IF s \in abandoned THEN "failed" ELSE status[s]]
    BY <1>8 DEF CycleStarts
  <2>2. abandoned \in SUBSET Shard /\ \A s \in abandoned : status[s] = "running"
    BY DEF Running
  <2>3. UNCHANGED bench /\ pc = "sleep" /\ pc' = "cycle"
    BY <1>8 DEF CycleStarts, queueVars
  <2> HIDE DEF abandoned
  <2> QED BY <2>1, <2>2, <2>3, FailedStep
<1>9. CASE LoopTest
  <2>1. UNCHANGED <<bench, status>> /\ pc = "loop"
    BY <1>9 DEF LoopTest, queueVars
  <2>2. CASE Polling
    BY <1>9, <2>1, <2>2, SameOutcome DEF LoopTest
  <2>3. CASE ~Polling
    <3>1. \A s \in Shard : status[s] \in {"done", "failed"}
      BY <2>1, <2>3 DEF Polling, Running, Protocol
    <3>2. pc' = "returned"
      BY <1>9, <2>3 DEF LoopTest
    <3>3. Contract!Return
      BY <2>1, <3>1, <3>2 DEF Contract!Return
    <3> QED BY <3>3 DEF ContractStep, Contract!Next
  <2> QED BY <2>2, <2>3
<1>10. CASE UNCHANGED <<bench, status>> /\ (pc' = "returned") = (pc = "returned")
  BY <1>10, SameOutcome
<1> QED
  BY <1>1, <1>2, <1>3, <1>4, <1>5, <1>6, <1>7, <1>8, <1>9, <1>10, NextCases
     DEF GetArrives, FetchFails, EnqueueRoundEnds, CycleEnds, MapSwept, Sweep, TimePasses, Tick,
         vars, queueVars

\* runShards implements ShardRun: every step of the driver and of the runners
\* is a step of that specification or changes nothing in it (ImplementsShardRun).
THEOREM Refinement == Spec => ImplementsShardRun
<1>1. Init => TypeOK /\ Protocol /\ Ownership
  BY InitTypeOK, InitProtocol, InitOwnership
<1>2. TypeOK /\ Protocol /\ Ownership /\ [Next]_vars => (TypeOK /\ Protocol /\ Ownership)'
  BY StepTypeOK, StepProtocol, StepOwnership
<1>3. Init => Contract!Init
  BY DEF Init, QueueInit, Contract!Init
<1>4. TypeOK /\ Protocol /\ Ownership /\ [Next]_vars => [Contract!Next]_(Contract!vars)
  BY StepContract DEF ContractStep
<1> QED BY <1>1, <1>2, <1>3, <1>4, PTL DEF Spec, ImplementsShardRun, Contract!Spec

----------------------------------------------------------------------------
----------------------------------------------------------------------------
(* The log of a job. *)

\* The last line of a window, 0 for an empty one.
EndOf(s) == IF Len(s) = 0 THEN 0 ELSE s[Len(s)]

\* Consecutive lines, without a gap.
Window(s) ==
  /\ Len(s) <= EndOf(s)
  /\ \A i \in 1..Len(s) : s[i] = EndOf(s) - Len(s) + i

Windows ==
  /\ Window(log) /\ EndOf(log) = Len(written)
  /\ Window(lastLogTail) /\ EndOf(lastLogTail) <= Len(written)
  /\ answer.status # "none" =>
       /\ Window(answer.tail)
       /\ EndOf(lastLogTail) <= EndOf(answer.tail)
       /\ EndOf(answer.tail) <= Len(written)

PrintedSoFar ==
  /\ \A i \in 1..Len(printed) : printed[i] <= EndOf(lastLogTail)
  /\ PrintedInOrder

TailInv == TailTypeOK /\ Windows /\ PrintedSoFar

----------------------------------------------------------------------------
LEMMA TailNextCases ==
  ASSUME [TailNext]_tailVars
  PROVE  \/ \E text \in Text : Write(text)
         \/ JobReturns \/ Poll \/ PollFails \/ TailArrives \/ UNCHANGED tailVars
BY DEF TailNext

\* Lines are numbers.
LEMMA Lines ==
  ASSUME NEW s \in Seq(Line)
  PROVE  /\ Len(s) \in Nat /\ EndOf(s) \in Nat
         /\ \A i \in 1..Len(s) : s[i] \in Nat /\ s[i] \in Line
<1>1. Len(s) \in Nat /\ \A i \in 1..Len(s) : s[i] \in Line
  OBVIOUS
<1> QED BY <1>1 DEF EndOf, Line

\* The last n elements are the elements from some place on.
LEMMA LastOfProperties ==
  ASSUME NEW s \in Seq(Line), NEW n \in Nat \ {0}
  PROVE  /\ LastOf(s, n) \in Seq(Line)
         /\ Len(LastOf(s, n)) = IF Len(s) > n THEN n ELSE Len(s)
         /\ Len(LastOf(s, n)) <= n
         /\ \A i \in 1..Len(LastOf(s, n)) :
              LastOf(s, n)[i] = s[i + Len(s) - Len(LastOf(s, n))]
<1> DEFINE from == (IF Len(s) > n THEN Len(s) - n ELSE 0) + 1
<1>1. from \in 1..(Len(s) + 1) /\ Len(s) \in Nat
  OBVIOUS
<1>2. LastOf(s, n) = SubSeq(s, from, Len(s))
  BY DEF LastOf
<1>3. /\ SubSeq(s, from, Len(s)) \in Seq(Line)
      /\ Len(SubSeq(s, from, Len(s))) = Len(s) - from + 1
      /\ \A i \in 1..(Len(s) - from + 1) : SubSeq(s, from, Len(s))[i] = s[from + i - 1]
  <2>1. \A i \in from..Len(s) : s[i] \in Line
    BY <1>1, Lines
  <2>2. from \in Int /\ Len(s) \in Int /\ (from > Len(s) => from = Len(s) + 1)
    BY <1>1
  <2> HIDE DEF from
  <2>3. /\ SubSeq(s, from, Len(s)) \in Seq(Line)
        /\ Len(SubSeq(s, from, Len(s))) = IF from <= Len(s) THEN Len(s) - from + 1 ELSE 0
        /\ \A i \in 1..(Len(s) - from + 1) : SubSeq(s, from, Len(s))[i] = s[from + i - 1]
    BY <2>1, <2>2, SubSeqProperties
  <2> QED BY <2>2, <2>3
<1>4. Len(s) - from + 1 = IF Len(s) > n THEN n ELSE Len(s)
  BY <1>1
<1>5. \A i \in 1..(Len(s) - from + 1) : from + i - 1 = i + Len(s) - (Len(s) - from + 1)
  BY <1>1
<1> HIDE DEF from
<1> QED BY <1>1, <1>2, <1>3, <1>4, <1>5

\* The end of a window is a window with the same last line.
LEMMA LastOfWindow ==
  ASSUME NEW s \in Seq(Line), NEW n \in Nat \ {0}, Window(s)
  PROVE  Window(LastOf(s, n)) /\ EndOf(LastOf(s, n)) = EndOf(s)
<1> DEFINE t == LastOf(s, n)
<1>1. /\ t \in Seq(Line) /\ Len(t) = (IF Len(s) > n THEN n ELSE Len(s))
      /\ \A i \in 1..Len(t) : t[i] = s[i + Len(s) - Len(t)]
  BY LastOfProperties
<1> HIDE DEF t
<1>2. /\ EndOf(s) \in Nat /\ Len(s) \in Nat /\ Len(t) \in Nat
      /\ \A i \in 1..Len(s) : s[i] \in Nat
  BY <1>1, Lines
<1>3. EndOf(t) = EndOf(s)
  <2>1. CASE Len(s) = 0
    BY <1>1, <1>2, <2>1 DEF EndOf
  <2>2. CASE Len(s) # 0
    <3>1. Len(t) # 0 /\ Len(t) \in 1..Len(t)
      BY <1>1, <1>2, <2>2
    <3>2. Len(t) + Len(s) - Len(t) = Len(s)
      BY <1>2
    <3>3. t[Len(t)] = s[Len(t) + Len(s) - Len(t)]
      BY <1>1, <3>1
    <3>4. t[Len(t)] = s[Len(s)]
      BY <3>2, <3>3
    <3> QED BY <2>2, <3>1, <3>4 DEF EndOf
  <2> QED BY <2>1, <2>2
<1>4. \A i \in 1..Len(t) : t[i] = EndOf(t) - Len(t) + i
  <2> TAKE i \in 1..Len(t)
  <2>1. i + Len(s) - Len(t) \in 1..Len(s)
    BY <1>1, <1>2
  <2>2. t[i] = EndOf(s) - Len(s) + (i + Len(s) - Len(t))
    BY <1>1, <2>1 DEF Window
  <2> QED BY <1>2, <1>3, <2>2
<1>5. Len(t) <= EndOf(t)
  BY <1>1, <1>2, <1>3 DEF Window
<1> QED BY <1>3, <1>4, <1>5 DEF Window, t

\* Pushing the next line onto a window.
LEMMA AppendWindow ==
  ASSUME NEW s \in Seq(Line), Window(s)
  PROVE  /\ Append(s, EndOf(s) + 1) \in Seq(Line)
         /\ Window(Append(s, EndOf(s) + 1))
         /\ EndOf(Append(s, EndOf(s) + 1)) = EndOf(s) + 1
<1>1. EndOf(s) \in Nat
  BY DEF EndOf, Line
<1> DEFINE t == Append(s, EndOf(s) + 1)
<1>2. t \in Seq(Line) /\ Len(t) = Len(s) + 1 /\ t[Len(s) + 1] = EndOf(s) + 1
      /\ \A i \in 1..Len(s) : t[i] = s[i]
  BY <1>1 DEF Line
<1> HIDE DEF t
<1>3. EndOf(t) = EndOf(s) + 1
  BY <1>1, <1>2 DEF EndOf
<1>4. \A i \in 1..Len(t) : t[i] = EndOf(t) - Len(t) + i
  <2> TAKE i \in 1..Len(t)
  <2>1. Len(s) \in Nat
    OBVIOUS
  <2>2. CASE i = Len(s) + 1
    BY <1>1, <1>2, <1>3, <2>1, <2>2
  <2>3. CASE i \in 1..Len(s)
    <3>1. s[i] = EndOf(s) - Len(s) + i
      BY <2>3 DEF Window
    <3> QED BY <1>1, <1>2, <1>3, <2>1, <2>3, <3>1
  <2> QED BY <1>2, <2>1, <2>2, <2>3
<1> QED BY <1>1, <1>2, <1>3, <1>4 DEF Window, t

\* What comes after the last occurrence of the text of the last line seen is
\* newer than that line, whatever other lines have the same text.
LEMMA FreshIsNew ==
  ASSUME NEW tail \in Seq(Line), NEW last \in Seq(Line), Window(tail), Window(last),
         EndOf(last) <= EndOf(tail), NEW i \in 0..Len(tail),
         IF last = <<>> THEN i = 0 ELSE IsLastIndexOf(i, tail, TextOf(last[Len(last)])),
         NEW k \in (i + 1)..Len(tail)
  PROVE  tail[k] > EndOf(last)
<1>0. /\ EndOf(last) \in Nat /\ EndOf(tail) \in Nat /\ tail[k] \in Nat \ {0}
      /\ k \in 1..Len(tail) /\ tail[k] = EndOf(tail) - Len(tail) + k
      /\ Len(tail) \in Nat /\ EndOf(last) <= EndOf(tail)
  BY DEF EndOf, Line, Window
<1>1. CASE last = <<>>
  BY <1>0, <1>1 DEF EndOf
<1>2. CASE last # <<>>
  <2> SUFFICES ASSUME tail[k] <= EndOf(last) PROVE FALSE
    BY <1>0
  <2> DEFINE j == k + EndOf(last) - tail[k]
  <2>1. j \in (i + 1)..Len(tail) /\ j \in 1..Len(tail)
    <3>1. i \in Nat /\ k >= i + 1
      OBVIOUS
    <3>2. j = EndOf(last) - EndOf(tail) + Len(tail)
      BY <1>0
    <3>3. j >= k
      BY <1>0
    <3> HIDE DEF j
    <3> QED BY <1>0, <3>1, <3>2, <3>3
  <2>2. tail[j] = EndOf(last)
    <3>1. tail[j] = EndOf(tail) - Len(tail) + j
      BY <2>1 DEF Window
    <3> QED BY <1>0, <3>1
  <2>3. EndOf(last) = last[Len(last)]
    BY <1>2 DEF EndOf
  <2> QED BY <1>2, <2>1, <2>2, <2>3 DEF IsLastIndexOf
<1> QED BY <1>1, <1>2

\* Printing new lines after older ones keeps the order.
LEMMA ConcatOrder ==
  ASSUME NEW p \in Seq(Line), NEW f \in Seq(Line), NEW e \in Nat,
         \A i \in 1..Len(p) : p[i] <= e,
         \A i, k \in 1..Len(p) : i < k => p[i] < p[k],
         \A i \in 1..Len(f) : f[i] > e,
         \A i, k \in 1..Len(f) : i < k => f[i] < f[k]
  PROVE  \A i, k \in 1..Len(p \o f) : i < k => (p \o f)[i] < (p \o f)[k]
<1> DEFINE c == p \o f
<1>1. /\ c \in Seq(Line) /\ Len(c) = Len(p) + Len(f)
      /\ \A i \in 1..Len(p) : c[i] = p[i]
      /\ \A i \in (Len(p) + 1)..Len(c) : c[i] = f[i - Len(p)] /\ i - Len(p) \in 1..Len(f)
  OBVIOUS
<1>2. \A i \in 1..Len(p) : p[i] \in Nat
  BY DEF Line
<1>3. \A i \in 1..Len(f) : f[i] \in Nat
  BY DEF Line
<1> HIDE DEF c
<1>4. ASSUME NEW i \in 1..Len(c), NEW k \in 1..Len(c), i < k PROVE c[i] < c[k]
  <2>0. Len(p) \in Nat /\ Len(f) \in Nat
    OBVIOUS
  <2>1. CASE k <= Len(p)
    <3>1. i \in 1..Len(p) /\ k \in 1..Len(p)
      BY <1>4, <2>0, <2>1
    <3> QED BY <1>1, <1>4, <3>1
  <2>2. CASE i <= Len(p) /\ k > Len(p)
    <3>1. c[i] = p[i] /\ p[i] <= e /\ p[i] \in Nat
      BY <1>1, <1>2, <2>2
    <3>2. c[k] = f[k - Len(p)] /\ f[k - Len(p)] > e /\ f[k - Len(p)] \in Nat
      BY <1>1, <1>3, <2>2
    <3> QED BY <3>1, <3>2
  <2>3. CASE i > Len(p)
    <3>1. i \in (Len(p) + 1)..Len(c) /\ k \in (Len(p) + 1)..Len(c)
      BY <1>1, <1>4, <2>0, <2>3
    <3>2. /\ i - Len(p) \in 1..Len(f) /\ k - Len(p) \in 1..Len(f)
          /\ i - Len(p) < k - Len(p)
      BY <1>1, <1>4, <2>0, <3>1
    <3>3. c[i] = f[i - Len(p)] /\ c[k] = f[k - Len(p)]
      BY <1>1, <3>1
    <3> QED BY <3>2, <3>3
  <2> QED BY <1>1, <2>0, <2>1, <2>2, <2>3
<1> QED BY <1>4 DEF c

----------------------------------------------------------------------------
LEMMA TailInitInv == TailInit => TailInv
<1> SUFFICES ASSUME TailInit PROVE TailInv
  OBVIOUS
<1>1. /\ Len(written) = 0 /\ Len(log) = 0 /\ Len(lastLogTail) = 0 /\ Len(printed) = 0
      /\ answer.status = "none"
  BY DEF TailInit, NoAnswer
<1>2. TailTypeOK
  <2>1. <<>> \in Seq(Line) /\ <<>> \in Seq(Text) /\ -1 \in Int
    OBVIOUS
  <2>2. NoAnswer \in [tail : Seq(Line), status : {"none", "running", "done"}]
    BY <2>1 DEF NoAnswer
  <2>3. 0 <= LOG_CAP /\ Len(NoAnswer.tail) <= LogLines
    BY LogTailAssumption DEF LogTailAssumption, NoAnswer
  <2> QED BY <1>1, <2>1, <2>2, <2>3 DEF TailInit, TailTypeOK
<1>3. Windows /\ PrintedSoFar
  BY <1>1 DEF Windows, PrintedSoFar, PrintedInOrder, Window, EndOf
<1> QED BY <1>2, <1>3 DEF TailInv

LEMMA WriteInv ==
  ASSUME TailInv, NEW text \in Text, Write(text)
  PROVE  TailInv'
<1> USE LogTailAssumption DEF LogTailAssumption
<1> DEFINE pushed == Append(log, Len(written) + 1)
<1>1. /\ written' \in Seq(Text) /\ Len(written') = Len(written) + 1 /\ Len(written) \in Nat
      /\ log' = LastOf(pushed, LOG_CAP)
      /\ UNCHANGED <<ended, answer, lastLogTail, printed, done>>
  BY DEF Write, TailInv, TailTypeOK
<1>2. pushed \in Seq(Line) /\ Window(pushed) /\ EndOf(pushed) = Len(written) + 1
  BY AppendWindow DEF TailInv, TailTypeOK, Windows
<1> HIDE DEF pushed
<1>3. log' \in Seq(Line) /\ Len(log') <= LOG_CAP /\ Window(log') /\ EndOf(log') = Len(written')
  BY <1>1, <1>2, LastOfProperties, LastOfWindow
<1>4. TailTypeOK'
  BY <1>1, <1>3 DEF TailInv, TailTypeOK
<1>5. EndOf(lastLogTail) \in Nat /\ EndOf(answer.tail) \in Nat
  BY DEF TailInv, TailTypeOK, EndOf, Line
<1>6. Windows'
  BY <1>1, <1>3, <1>5 DEF TailInv, Windows, Window, EndOf
<1>7. PrintedSoFar'
  BY <1>1 DEF TailInv, PrintedSoFar, PrintedInOrder, EndOf
<1> QED BY <1>4, <1>6, <1>7 DEF TailInv

LEMMA PollInv ==
  ASSUME TailInv, Poll
  PROVE  TailInv'
<1> USE LogTailAssumption DEF LogTailAssumption
<1> DEFINE tail == LastOf(log, LogLines)
<1>1. /\ tail \in Seq(Line) /\ Len(tail) <= LogLines
      /\ Window(tail) /\ EndOf(tail) = Len(written)
  BY LastOfProperties, LastOfWindow DEF TailInv, TailTypeOK, Windows
<1>2. /\ answer'.tail = tail /\ answer'.status \in {"running", "done"}
      /\ answer' = [tail |-> answer'.tail, status |-> answer'.status]
      /\ UNCHANGED <<written, log, ended, lastLogTail, printed, done>>
  BY DEF Poll
<1> HIDE DEF tail
<1>3. TailTypeOK'
  BY <1>1, <1>2 DEF TailInv, TailTypeOK
<1>4. Windows'
  BY <1>1, <1>2 DEF TailInv, Windows, Window, EndOf
<1>5. PrintedSoFar'
  BY <1>2 DEF TailInv, PrintedSoFar, PrintedInOrder, EndOf
<1> QED BY <1>3, <1>4, <1>5 DEF TailInv

LEMMA ReturnInv ==
  ASSUME TailInv, TailArrives
  PROVE  TailInv'
<1> USE LogTailAssumption DEF LogTailAssumption
<1> DEFINE tail == answer.tail
           e == EndOf(lastLogTail)
<1>1. /\ tail \in Seq(Line) /\ lastLogTail \in Seq(Line) /\ printed \in Seq(Line)
      /\ Window(tail) /\ Window(lastLogTail) /\ e <= EndOf(tail) /\ EndOf(tail) <= Len(written)
  BY DEF TailInv, TailTypeOK, Windows, TailArrives
<1>2. PICK i \in 0..Len(tail) :
        /\ IF lastLogTail = <<>> THEN i = 0
           ELSE IsLastIndexOf(i, tail, TextOf(lastLogTail[Len(lastLogTail)]))
        /\ printed' = printed \o SubSeq(tail, i + 1, Len(tail))
        /\ lastLogTail' = tail
  BY DEF TailArrives, PrintNewLog
<1> DEFINE fresh == SubSeq(tail, i + 1, Len(tail))
<1>3. /\ fresh \in Seq(Line) /\ Len(fresh) = Len(tail) - i
      /\ \A k \in 1..Len(fresh) : fresh[k] = tail[i + k] /\ i + k \in (i + 1)..Len(tail)
  BY <1>1
<1>4. e \in Nat /\ EndOf(tail) \in Nat
  BY <1>1 DEF EndOf, Line
<1>5. \A k \in (i + 1)..Len(tail) : tail[k] > e
  BY <1>1, <1>2, FreshIsNew
<1>6. \A k \in 1..Len(tail) : tail[k] = EndOf(tail) - Len(tail) + k
  BY <1>1 DEF Window
<1>7. UNCHANGED <<written, log, ended>> /\ done' \in BOOLEAN /\ answer' = NoAnswer
  BY DEF TailArrives
<1>8. /\ \A k \in 1..Len(fresh) : fresh[k] > e /\ fresh[k] <= EndOf(tail)
      /\ \A k, m \in 1..Len(fresh) : k < m => fresh[k] < fresh[m]
  <2>1. \A k \in 1..Len(fresh) : fresh[k] = EndOf(tail) - Len(tail) + (i + k)
    BY <1>1, <1>3, <1>6
  <2>2. Len(tail) \in Nat /\ \A k \in 1..Len(fresh) : i + k <= Len(tail)
    BY <1>1, <1>3
  <2>3. \A k \in 1..Len(fresh) : fresh[k] > e
    BY <1>3, <1>5
  <2> HIDE DEF fresh, e
  <2> QED BY <1>4, <2>1, <2>2, <2>3
<1> HIDE DEF fresh
<1>9. printed' \in Seq(Line) /\ Len(printed') = Len(printed) + Len(fresh)
      /\ \A k \in 1..Len(printed') :
           printed'[k] = IF k <= Len(printed) THEN printed[k] ELSE fresh[k - Len(printed)]
  BY <1>1, <1>2, <1>3 DEF fresh
<1>10. TailTypeOK'
  BY <1>1, <1>2, <1>7, <1>9 DEF TailInv, TailTypeOK, NoAnswer
<1>11. Windows'
  BY <1>1, <1>2, <1>7 DEF TailInv, Windows, Window, EndOf, NoAnswer
<1>12. PrintedSoFar'
  <2>1. PrintedInOrder'
    <3>1. printed' = printed \o fresh
      BY <1>2 DEF fresh
    <3> QED BY <1>1, <1>3, <1>4, <1>8, <3>1, ConcatOrder DEF TailInv, PrintedSoFar, PrintedInOrder
  <2>2. EndOf(lastLogTail)' = EndOf(tail)
    BY <1>2 DEF EndOf
  <2>3. ASSUME NEW k \in 1..Len(printed') PROVE printed'[k] <= EndOf(tail)
    <3>1. CASE k <= Len(printed)
      <4>1. printed'[k] = printed[k] /\ printed[k] <= e /\ printed[k] \in Nat
        BY <1>1, <1>9, <3>1 DEF TailInv, PrintedSoFar, Line
      <4> QED BY <1>1, <1>4, <4>1
    <3>2. CASE k > Len(printed)
      <4>1. k - Len(printed) \in 1..Len(fresh)
        BY <1>1, <1>3, <1>9, <3>2
      <4> QED BY <1>8, <1>9, <3>2, <4>1
    <3> QED BY <1>1, <1>9, <3>1, <3>2
  <2> QED BY <2>1, <2>2, <2>3 DEF PrintedSoFar
<1> QED BY <1>10, <1>11, <1>12 DEF TailInv

LEMMA TailStepInv == TailInv /\ [TailNext]_tailVars => TailInv'
<1> SUFFICES ASSUME TailInv, [TailNext]_tailVars PROVE TailInv'
  OBVIOUS
<1>1. CASE JobReturns
  BY <1>1 DEF JobReturns, TailInv, TailTypeOK, Windows, Window, EndOf, PrintedSoFar, PrintedInOrder
<1>2. CASE PollFails
  BY <1>2, LogTailAssumption DEF LogTailAssumption, PollFails, NoAnswer, TailInv, TailTypeOK,
     Windows, Window, EndOf, PrintedSoFar, PrintedInOrder
<1>3. CASE UNCHANGED tailVars
  BY <1>3 DEF tailVars, TailInv, TailTypeOK, Windows, Window, EndOf, PrintedSoFar, PrintedInOrder
<1> QED BY <1>1, <1>2, <1>3, TailNextCases, WriteInv, PollInv, ReturnInv

\* The ring buffer and the tails stay within their sizes, among the types.
THEOREM TailTypeCorrect == TailSpec => []TailTypeOK
<1>1. TailInv => TailTypeOK
  BY DEF TailInv
<1> QED BY <1>1, TailInitInv, TailStepInv, PTL DEF TailSpec

\* The lines on the driver's terminal are each there once and in the order the
\* job wrote them (PrintedInOrder).
THEOREM LogInOrder == TailSpec => []PrintedInOrder
<1>1. TailInv => PrintedInOrder
  BY DEF TailInv, PrintedSoFar
<1> QED BY <1>1, TailInitInv, TailStepInv, PTL DEF TailSpec

----------------------------------------------------------------------------
(* What is complete.  A tail is as long as the buffer, the question and the *)
(* log allow, so that two tails differ only by where they end.              *)

\* Lines that one poll can carry.
Width == IF LOG_CAP < LogLines THEN LOG_CAP ELSE LogLines

\* The last w lines of all that came before the end, or all of them.
Full(s, w) == Len(s) = IF EndOf(s) > w THEN w ELSE EndOf(s)

FullTails ==
  /\ Full(log, LOG_CAP)
  /\ Full(lastLogTail, Width)
  /\ Full(answer.tail, Width)

\* The answer that says done was given after the job's last line, and the tail
\* that came with it, or a later one, is the one that was printed.
Settled ==
  /\ ended <= Len(written)
  /\ answer.status = "done" => ended # -1 /\ ended <= EndOf(answer.tail)
  /\ done => ended # -1 /\ ended <= EndOf(lastLogTail)

Complete == TailInv /\ FullTails /\ Settled /\ HandledTailIsPrinted

LEMMA WidthType == Width \in Nat \ {0} /\ Width <= LOG_CAP /\ Width <= LogLines
BY LogTailAssumption DEF LogTailAssumption, Width

LEMMA InitComplete == TailInit => Complete
<1> SUFFICES ASSUME TailInit PROVE Complete
  OBVIOUS
<1>1. /\ Len(written) = 0 /\ Len(log) = 0 /\ Len(lastLogTail) = 0 /\ Len(answer.tail) = 0
      /\ answer.status = "none" /\ ended = -1 /\ done = FALSE
  BY DEF TailInit, NoAnswer
<1>2. FullTails
  BY <1>1, WidthType, LogTailAssumption DEF LogTailAssumption, FullTails, Full, EndOf
<1>3. Settled /\ HandledTailIsPrinted
  BY <1>1 DEF Settled, HandledTailIsPrinted
<1> QED BY <1>2, <1>3, TailInitInv DEF Complete

LEMMA WriteComplete ==
  ASSUME Complete, NEW text \in Text, Write(text)
  PROVE  Complete'
<1> USE LogTailAssumption DEF LogTailAssumption
<1> DEFINE pushed == Append(log, Len(written) + 1)
<1>1. /\ written' = Append(written, text) /\ written \in Seq(Text)
      /\ Len(written') = Len(written) + 1 /\ Len(written) \in Nat
      /\ log' = LastOf(pushed, LOG_CAP)
      /\ UNCHANGED <<ended, answer, lastLogTail, printed, done>>
  BY DEF Write, Complete, TailInv, TailTypeOK
<1>2. /\ log \in Seq(Line) /\ Window(log) /\ EndOf(log) = Len(written)
      /\ Full(log, LOG_CAP)
  BY DEF Complete, FullTails, TailInv, TailTypeOK, Windows
<1>3. /\ pushed \in Seq(Line) /\ Window(pushed) /\ EndOf(pushed) = Len(written) + 1
      /\ Len(pushed) = Len(log) + 1
  BY <1>2, AppendWindow
<1> HIDE DEF pushed
<1>4. Full(log', LOG_CAP)
  <2>1. /\ EndOf(log') = Len(written) + 1
        /\ Len(log') = IF Len(pushed) > LOG_CAP THEN LOG_CAP ELSE Len(pushed)
    BY <1>1, <1>3, LastOfProperties, LastOfWindow
  <2> QED BY <1>1, <1>2, <1>3, <2>1 DEF Full
<1>5. FullTails'
  BY <1>1, <1>4 DEF Complete, FullTails, Full, EndOf, Width
<1>6. Settled'
  <2>1. ended \in Int /\ ended <= Len(written)
    BY DEF Complete, Settled, TailInv, TailTypeOK
  <2>2. ended' <= Len(written')
    BY <1>1, <2>1
  <2> QED BY <1>1, <2>2 DEF Complete, Settled, EndOf
<1>7. HandledTailIsPrinted'
  <2> SUFFICES ASSUME DistinctTexts' PROVE \A k \in 1..Len(lastLogTail) : Printed(lastLogTail[k])
    BY <1>1 DEF HandledTailIsPrinted, Printed
  <2>1. \A k \in 1..Len(written) : k \in 1..Len(written') /\ written'[k] = written[k]
    BY <1>1
  <2>2. DistinctTexts
    BY <2>1 DEF DistinctTexts
  <2> QED BY <2>2 DEF Complete, HandledTailIsPrinted
<1> QED BY <1>5, <1>6, <1>7, WriteInv DEF Complete

LEMMA PollComplete ==
  ASSUME Complete, Poll
  PROVE  Complete'
<1> USE LogTailAssumption DEF LogTailAssumption
<1> DEFINE tail == LastOf(log, LogLines)
<1>1. /\ log \in Seq(Line) /\ Window(log) /\ EndOf(log) = Len(written)
      /\ Full(log, LOG_CAP) /\ Len(written) \in Nat
  BY DEF Complete, FullTails, TailInv, TailTypeOK, Windows
<1>2. /\ EndOf(tail) = Len(written)
      /\ Len(tail) = IF Len(log) > LogLines THEN LogLines ELSE Len(log)
  BY <1>1, LastOfProperties, LastOfWindow
<1>3. /\ answer'.tail = tail /\ (answer'.status = "done" => ended # -1)
      /\ UNCHANGED <<written, log, ended, lastLogTail, printed, done>>
  BY DEF Poll
<1> HIDE DEF tail
<1>4. Full(tail, Width)
  BY <1>1, <1>2 DEF Full, Width
<1>5. FullTails'
  BY <1>3, <1>4 DEF Complete, FullTails, Full, EndOf, Width
<1>6. Settled'
  <2>1. EndOf(answer'.tail) = Len(written)
    BY <1>2, <1>3
  <2> QED BY <1>3, <2>1 DEF Complete, Settled, EndOf
<1>7. HandledTailIsPrinted'
  BY <1>3 DEF Complete, HandledTailIsPrinted, DistinctTexts, Printed
<1> QED BY <1>5, <1>6, <1>7, PollInv DEF Complete

\* The lines up to the one that was found are lines of the tail handled before.
LEMMA KnownLines ==
  ASSUME NEW tail \in Seq(Line), NEW last \in Seq(Line), Window(tail), Window(last),
         Full(tail, Width), Full(last, Width), NEW i \in 1..Len(tail),
         tail[i] = EndOf(last), NEW k \in 1..i
  PROVE  \E m \in 1..Len(last) : last[m] = tail[k]
<1>1. /\ Len(tail) \in Nat /\ Len(last) \in Nat /\ EndOf(tail) \in Nat /\ EndOf(last) \in Nat
      /\ Width \in Nat \ {0} /\ 1 \in 1..Len(tail) /\ k \in 1..Len(tail)
  BY Lines, WidthType
<1>2. /\ tail[1] \in Nat \ {0} /\ tail[1] = EndOf(tail) - Len(tail) + 1
      /\ tail[k] = EndOf(tail) - Len(tail) + k
      /\ tail[i] = EndOf(tail) - Len(tail) + i
  BY <1>1, Lines DEF Window, Line
<1>3. Len(tail) <= Width
  BY <1>1 DEF Full
<1>4. i <= EndOf(last) /\ i <= Len(last)
  BY <1>1, <1>2, <1>3 DEF Full
<1> DEFINE m == k - i + Len(last)
<1>5. m \in 1..Len(last)
  BY <1>1, <1>4
<1>6. last[m] = EndOf(last) - Len(last) + m
  BY <1>5 DEF Window
<1>7. EndOf(last) - Len(last) + m = tail[k]
  BY <1>1, <1>2
<1> QED BY <1>5, <1>6, <1>7

LEMMA ConcatElements ==
  ASSUME NEW p \in Seq(Line), NEW f \in Seq(Line)
  PROVE  /\ Len(p \o f) = Len(p) + Len(f) /\ Len(p) \in Nat /\ Len(f) \in Nat
         /\ \A j \in 1..Len(p) : (p \o f)[j] = p[j]
         /\ \A j \in 1..Len(f) : (p \o f)[Len(p) + j] = f[j]
<1>1. Len(p \o f) = Len(p) + Len(f) /\ Len(p) \in Nat /\ Len(f) \in Nat
  OBVIOUS
<1>2. \A j \in 1..Len(p) : (p \o f)[j] = p[j]
  OBVIOUS
<1>3. ASSUME NEW j \in 1..Len(f) PROVE (p \o f)[Len(p) + j] = f[j]
  <2>1. Len(p) + j \in 1..(Len(p) + Len(f)) /\ Len(p) + j > Len(p)
    BY <1>1
  <2>2. Len(p) + j - Len(p) = j
    BY <1>1
  <2> QED BY <1>1, <2>1, <2>2
<1> QED BY <1>1, <1>2, <1>3

LEMMA ReturnComplete ==
  ASSUME Complete, TailArrives
  PROVE  Complete'
<1> DEFINE tail == answer.tail
<1>1. /\ tail \in Seq(Line) /\ lastLogTail \in Seq(Line) /\ printed \in Seq(Line)
      /\ Window(tail) /\ Window(lastLogTail)
      /\ EndOf(lastLogTail) <= EndOf(tail) /\ EndOf(tail) <= Len(written)
      /\ Full(tail, Width) /\ Full(lastLogTail, Width) /\ Len(written) \in Nat
  BY DEF Complete, FullTails, TailInv, TailTypeOK, Windows, TailArrives
<1>2. PICK i \in 0..Len(tail) :
        /\ IF lastLogTail = <<>> THEN i = 0
           ELSE IsLastIndexOf(i, tail, TextOf(lastLogTail[Len(lastLogTail)]))
        /\ printed' = printed \o SubSeq(tail, i + 1, Len(tail))
        /\ lastLogTail' = tail
  BY DEF TailArrives, PrintNewLog
<1>3. UNCHANGED <<written, log, ended>> /\ done' = (answer.status = "done") /\ answer' = NoAnswer
  BY DEF TailArrives
<1>4. FullTails'
  <2>1. Len(NoAnswer.tail) = 0
    BY DEF NoAnswer
  <2>2. Full(NoAnswer.tail, Width)
    BY <2>1, WidthType DEF Full, EndOf
  <2> QED BY <1>1, <1>2, <1>3, <2>2 DEF Complete, FullTails, Full, EndOf, Width
<1>5. Settled'
  <2>1. NoAnswer.status = "none"
    BY DEF NoAnswer
  <2> QED BY <1>2, <1>3, <2>1 DEF Complete, Settled, EndOf
<1> DEFINE fresh == SubSeq(tail, i + 1, Len(tail))
<1>6. /\ fresh \in Seq(Line) /\ Len(fresh) = Len(tail) - i
      /\ \A k \in 1..Len(fresh) : fresh[k] = tail[i + k]
  BY <1>1
<1>7. printed' = printed \o fresh
  BY <1>2
<1> HIDE DEF fresh
<1>8. /\ Len(printed') = Len(printed) + Len(fresh)
      /\ Len(printed) \in Nat /\ Len(tail) \in Nat
      /\ \A j \in 1..Len(printed) : printed'[j] = printed[j]
      /\ \A j \in 1..Len(fresh) : printed'[Len(printed) + j] = fresh[j]
  BY <1>1, <1>6, <1>7, ConcatElements
<1>9. ASSUME DistinctTexts, NEW k \in 1..Len(tail)
      PROVE  \E j \in 1..Len(printed') : printed'[j] = tail[k]
  <2>1. CASE k > i
    <3> DEFINE j == k - i
    <3>1. j \in 1..Len(fresh) /\ i + j = k
      BY <1>6, <1>8, <2>1
    <3>2. Len(printed) + j \in 1..Len(printed')
      BY <1>6, <1>8, <3>1
    <3>3. printed'[Len(printed) + j] = tail[k]
      <4>1. printed'[Len(printed) + j] = fresh[j]
        BY <1>8, <3>1
      <4>2. fresh[j] = tail[i + j]
        BY <1>6, <3>1
      <4> QED BY <3>1, <4>1, <4>2
    <3> QED BY <3>2, <3>3
  <2>2. CASE k <= i
    <3>1. i \in 1..Len(tail) /\ lastLogTail # <<>> /\ k \in 1..i
      BY <1>2, <1>8, <2>2
    <3>2. Len(lastLogTail) \in Nat /\ Len(lastLogTail) # 0
          /\ EndOf(lastLogTail) = lastLogTail[Len(lastLogTail)]
      BY <1>1, <3>1 DEF EndOf
    <3>3. written[tail[i]] = written[EndOf(lastLogTail)]
      BY <1>2, <3>1, <3>2 DEF IsLastIndexOf, TextOf
    <3>4. tail[i] \in 1..Len(written)
      <4>1. /\ tail[i] \in Nat \ {0} /\ EndOf(tail) \in Nat
            /\ tail[i] = EndOf(tail) - Len(tail) + i
        BY <1>1, <3>1, Lines DEF Window, Line
      <4> QED BY <1>1, <1>8, <3>1, <4>1
    <3>5. EndOf(lastLogTail) \in 1..Len(written)
      <4>1. EndOf(lastLogTail) \in Nat /\ EndOf(tail) \in Nat
        BY <1>1, Lines
      <4>2. Len(lastLogTail) <= EndOf(lastLogTail)
        BY <1>1 DEF Window
      <4> QED BY <1>1, <3>2, <4>1, <4>2
    <3>6. tail[i] = EndOf(lastLogTail)
      BY <1>9, <3>3, <3>4, <3>5 DEF DistinctTexts
    <3>7. PICK m \in 1..Len(lastLogTail) : lastLogTail[m] = tail[k]
      BY <1>1, <3>1, <3>6, KnownLines
    <3>8. PICK j \in 1..Len(printed) : printed[j] = lastLogTail[m]
      BY <1>9, <3>7 DEF Complete, HandledTailIsPrinted, Printed
    <3>9. j \in 1..Len(printed') /\ printed'[j] = tail[k]
      BY <1>6, <1>8, <3>7, <3>8
    <3> QED BY <3>9
  <2> QED BY <1>8, <2>1, <2>2
<1>10. HandledTailIsPrinted'
  <2>1. DistinctTexts' => DistinctTexts
    BY <1>3 DEF DistinctTexts
  <2>2. lastLogTail' = tail
    BY <1>2
  <2> QED BY <1>9, <2>1, <2>2 DEF HandledTailIsPrinted, Printed
<1> QED BY <1>4, <1>5, <1>10, ReturnInv DEF Complete

LEMMA StepComplete == Complete /\ [TailNext]_tailVars => Complete'
<1> SUFFICES ASSUME Complete, [TailNext]_tailVars PROVE Complete'
  OBVIOUS
<1>1. TailInv'
  BY TailStepInv DEF Complete
<1>2. ASSUME JobReturns PROVE Complete'
  <2>1. /\ ended = -1 /\ ended' = Len(written)
        /\ UNCHANGED <<written, log, answer, lastLogTail, printed, done>>
    BY <1>2 DEF JobReturns
  <2>2. Settled'
    <3>1. Len(written) \in Nat
      BY DEF Complete, TailInv, TailTypeOK
    <3> QED BY <2>1, <3>1 DEF Complete, Settled
  <2>3. FullTails' /\ HandledTailIsPrinted'
    BY <2>1 DEF Complete, FullTails, Full, EndOf, Width, HandledTailIsPrinted, DistinctTexts,
       Printed
  <2> QED BY <1>1, <2>2, <2>3 DEF Complete
<1>3. ASSUME PollFails PROVE Complete'
  <2>1. /\ answer'.tail = <<>> /\ answer'.status = "none"
        /\ UNCHANGED <<written, log, ended, lastLogTail, printed, done>>
    BY <1>3 DEF PollFails, NoAnswer
  <2>2. Settled' /\ HandledTailIsPrinted'
    BY <2>1 DEF Complete, Settled, EndOf, HandledTailIsPrinted, DistinctTexts, Printed
  <2>3. FullTails'
    BY <2>1, WidthType DEF Complete, FullTails, Full, EndOf, Width
  <2> QED BY <1>1, <2>2, <2>3 DEF Complete
<1>4. ASSUME UNCHANGED tailVars PROVE Complete'
  <2>1. UNCHANGED <<written, log, ended, answer, lastLogTail, printed, done>>
    BY <1>4 DEF tailVars
  <2>2. FullTails' /\ HandledTailIsPrinted' /\ Settled'
    BY <2>1 DEF Complete, FullTails, Full, EndOf, Width, HandledTailIsPrinted, DistinctTexts,
       Printed, Settled
  <2> QED BY <1>1, <2>2 DEF Complete
<1> QED BY <1>2, <1>3, <1>4, TailNextCases, WriteComplete, PollComplete, ReturnComplete

\* As long as no text repeats, every line of a tail the driver handled is on its
\* terminal, whatever was overwritten or lost before (HandledTailIsPrinted).
THEOREM NothingShownIsLost == TailSpec => []HandledTailIsPrinted
<1>1. Complete => HandledTailIsPrinted
  BY DEF Complete
<1> QED BY <1>1, InitComplete, StepComplete, PTL DEF TailSpec

\* When the driver learns that the job is done, all the job wrote until then has
\* been printed, if it fits one poll (DoneLogIsComplete).
THEOREM WholeLogPrinted == TailSpec => []DoneLogIsComplete
<1>1. ASSUME Complete PROVE DoneLogIsComplete
  <2> SUFFICES ASSUME done, DistinctTexts, Len(written) <= LogLines, Len(written) <= LOG_CAP,
                      NEW line \in 1..ended
               PROVE  Printed(line)
    BY DEF DoneLogIsComplete
  <2>1. /\ lastLogTail \in Seq(Line) /\ Window(lastLogTail) /\ Full(lastLogTail, Width)
        /\ EndOf(lastLogTail) <= Len(written) /\ ended <= EndOf(lastLogTail)
        /\ ended \in Int /\ Len(written) \in Nat
    BY <1>1 DEF Complete, FullTails, Settled, TailInv, TailTypeOK, Windows
  <2>2. /\ EndOf(lastLogTail) \in Nat /\ Len(lastLogTail) \in Nat
        /\ LOG_CAP \in Nat /\ LogLines \in Nat
    BY <2>1, Lines, LogTailAssumption DEF LogTailAssumption
  <2>3. Len(lastLogTail) = EndOf(lastLogTail)
    BY <2>1, <2>2 DEF Full, Width
  <2>4. line \in 1..Len(lastLogTail)
    BY <2>1, <2>2, <2>3
  <2>5. lastLogTail[line] = line
    BY <2>1, <2>2, <2>3, <2>4 DEF Window
  <2> QED BY <1>1, <2>4, <2>5 DEF Complete, HandledTailIsPrinted
<1>2. Complete => DoneLogIsComplete
  BY <1>1
<1> QED BY <1>2, InitComplete, StepComplete, PTL DEF TailSpec

----------------------------------------------------------------------------
(* Several shards' report. *)

\* One step of the benches and their driver, action by action.
LEMMA MultiNextCases ==
  ASSUME [MultiNext]_multiVars
  PROVE
  \/ \E c \in Client : /\ Connects(c) \/ ConnectFails(c) \/ Retries(c) \/ Receives(c)
                       /\ UNCHANGED driverVars
  \/ \E c \in Client, jitter \in BOOLEAN : Breaks(c, jitter) /\ UNCHANGED driverVars
  \/ \E r \in Bench : /\ \/ CreateClient(r) \/ RampEnds(r) \/ Dispatches(r) \/ KicksOff(r)
                         \/ PublishEnds(r) \/ PublisherThrows(r) \/ BenchReturns(r, Cap)
                      /\ UNCHANGED driverVars
  \/ \E r \in Bench, n \in Seqs : /\ Dies(r, n) \/ Broadcast(r, n, Audience(r))
                                  /\ UNCHANGED driverVars
  \/ \E r \in Bench : ShardDone(r) \/ ShardFails(r)
  \/ Reports
  \/ UNCHANGED multiVars
<1>1. CASE BenchStep /\ UNCHANGED driverVars
  <2>1. CASE Clients
    BY <1>1, <2>1 DEF Clients
  <2>2. CASE \E r \in Bench : Runs(r) \/ BenchReturns(r, Cap)
    BY <1>1, <2>2 DEF Runs
  <2>3. CASE \E r \in Bench, n \in Seqs : Broadcast(r, n, Audience(r))
    BY <1>1, <2>3
  <2> QED BY <1>1, <2>1, <2>2, <2>3 DEF BenchStep
<1>2. CASE RunShards
  BY <1>2 DEF RunShards
<1>3. CASE Reports \/ Exited \/ UNCHANGED multiVars
  BY <1>3 DEF Exited
<1> QED BY <1>1, <1>2, <1>3 DEF MultiNext

\* The setup of a run is chosen once.
LEMMA OneSetup ==
  ASSUME [MultiNext]_multiVars
  PROVE  setup' = setup /\ TotalMessages' = TotalMessages /\ Seqs' = Seqs
<1>1. setup' = setup
  <2> USE DEF benchVars, clientVars, multiVars
  <2>1. ASSUME NEW c \in Client, Connects(c) \/ ConnectFails(c) \/ Retries(c) \/ Receives(c)
        PROVE  setup' = setup
    BY <2>1 DEF Connects, ConnectFails, Retries, Receives
  <2>2. ASSUME NEW c \in Client, NEW jitter \in BOOLEAN, Breaks(c, jitter) PROVE setup' = setup
    BY <2>2 DEF Breaks
  <2>3. ASSUME NEW r \in Bench, \/ CreateClient(r) \/ RampEnds(r) \/ Dispatches(r) \/ KicksOff(r)
                                \/ PublishEnds(r) \/ PublisherThrows(r) \/ BenchReturns(r, Cap)
        PROVE  setup' = setup
    BY <2>3 DEF CreateClient, RampEnds, Dispatches, KicksOff, PublishEnds, PublisherThrows,
                BenchReturns
  <2>4. ASSUME NEW r \in Bench, NEW n \in Seqs, Dies(r, n) \/ Broadcast(r, n, Audience(r))
        PROVE  setup' = setup
    BY <2>4 DEF Dies, Broadcast
  <2>5. ASSUME NEW r \in Bench, ShardDone(r) \/ ShardFails(r) PROVE setup' = setup
    BY <2>5 DEF ShardDone, ShardFails
  <2>6. CASE Reports
    BY <2>6 DEF Reports
  <2>7. CASE UNCHANGED multiVars
    BY <2>7
  <2> QED BY <2>1, <2>2, <2>3, <2>4, <2>5, <2>6, <2>7, MultiNextCases
<1> QED BY <1>1 DEF TotalMessages, Test, Seqs

LEMMA MultiConstants ==
  /\ PerRunner \in Nat /\ Msgs \in Nat /\ TotalMsgs \in Nat /\ MaxFaults \in Nat
  /\ IsFiniteSet(Bench) /\ SamplesCap \in Nat \ {0, 1}
  /\ TotalMessages \in Nat
  /\ \A r \in Bench, n \in Seqs : LatencyOf[r][n] \in Nat
<1>1. /\ PerRunner \in Nat /\ Msgs \in Nat /\ TotalMsgs \in Nat /\ MaxFaults \in Nat
      /\ LatencyOf \in [Bench -> [1..Max({Msgs, TotalMsgs}) -> Nat]]
  BY ThroughputAssumption DEF ThroughputAssumption
<1>2. IsFiniteSet(Bench) /\ SamplesCap \in Nat \ {0, 1}
  BY MultiRunAssumption DEF MultiRunAssumption
<1>3. TotalMessages \in Nat
  BY <1>1 DEF TotalMessages
<1>4. Max({Msgs, TotalMsgs}) \in Nat /\ TotalMessages <= Max({Msgs, TotalMsgs})
  <2> DEFINE Greatest(m) == m \in {Msgs, TotalMsgs} /\ \A y \in {Msgs, TotalMsgs} : m >= y
  <2>1. \E m \in {Msgs, TotalMsgs} : \A y \in {Msgs, TotalMsgs} : m >= y
    <3>1. CASE Msgs >= TotalMsgs
      BY <1>1, <3>1
    <3>2. CASE TotalMsgs >= Msgs
      BY <1>1, <3>2
    <3> QED BY <1>1, <3>1, <3>2
  <2>2. Greatest(Max({Msgs, TotalMsgs}))
    BY <2>1 DEF Max
  <2> QED BY <1>1, <2>2 DEF TotalMessages
<1>5. ASSUME NEW r \in Bench, NEW n \in Seqs PROVE LatencyOf[r][n] \in Nat
  <2>1. n \in 1..Max({Msgs, TotalMsgs})
    BY <1>3, <1>4 DEF Seqs
  <2> HIDE DEF Max
  <2> QED BY <1>1, <2>1
<1> QED BY <1>1, <1>2, <1>3, <1>5

----------------------------------------------------------------------------
\* Where the benches and the driver are.
StagesTypeOK ==
  /\ setup \in Setups
  /\ stage \in [Bench -> {"ramp", "publish", "drain", "returned", "rejected"}]
  /\ seq \in [Bench -> 0..TotalMessages]
  /\ onTheWire \in [Bench -> SUBSET Seqs]
  /\ conn \in [Client -> {"absent", "connecting", "up", "down", "reconnecting", "closed"}]
  /\ inRoom \subseteq Client
  /\ DOMAIN summary = Bench
  /\ faults \in 0..MaxFaults
  /\ outcome \in [Bench -> {"none", "done", "failed"}]
  /\ exitCode \in {NotExited, 0, 1}

LEMMA StagesTypeStep ==
  ASSUME StagesTypeOK, [MultiNext]_multiVars
  PROVE  StagesTypeOK'
<1>1. setup' = setup /\ TotalMessages' = TotalMessages /\ Seqs' = Seqs
  BY OneSetup
<1> USE MultiConstants DEF StagesTypeOK, benchVars, clientVars, driverVars, multiVars, Fault
<1>2. ASSUME NEW c \in Client, UNCHANGED driverVars,
             Connects(c) \/ ConnectFails(c) \/ Retries(c) \/ Receives(c)
      PROVE  StagesTypeOK'
  <2>1. CASE Connects(c)
    BY <1>1, <1>2, <2>1 DEF Connects
  <2>2. CASE ConnectFails(c)
    BY <1>1, <1>2, <2>2 DEF ConnectFails
  <2>3. CASE Retries(c)
    BY <1>1, <1>2, <2>3 DEF Retries
  <2>4. CASE Receives(c)
    BY <1>1, <1>2, <2>4 DEF Receives
  <2> QED BY <1>2, <2>1, <2>2, <2>3, <2>4
<1>3. ASSUME NEW c \in Client, NEW jitter \in BOOLEAN, Breaks(c, jitter), UNCHANGED driverVars
      PROVE  StagesTypeOK'
  BY <1>1, <1>3 DEF Breaks
<1>4. ASSUME NEW r \in Bench, UNCHANGED driverVars,
             \/ CreateClient(r) \/ RampEnds(r) \/ Dispatches(r) \/ KicksOff(r)
             \/ PublishEnds(r) \/ PublisherThrows(r) \/ BenchReturns(r, Cap)
      PROVE  StagesTypeOK'
  <2>1. CASE CreateClient(r)
    BY <1>1, <1>4, <2>1 DEF CreateClient
  <2>2. CASE RampEnds(r)
    BY <1>1, <1>4, <2>2 DEF RampEnds
  <2>3. CASE Dispatches(r)
    <3>1. seq[r] + 1 \in 0..TotalMessages /\ seq[r] + 1 \in Seqs
      BY <2>3 DEF Dispatches, Seqs
    <3> QED BY <1>1, <1>4, <2>3, <3>1 DEF Dispatches
  <2>4. CASE KicksOff(r)
    BY <1>1, <1>4, <2>4 DEF KicksOff
  <2>5. CASE PublishEnds(r) \/ PublisherThrows(r)
    BY <1>1, <1>4, <2>5 DEF PublishEnds, PublisherThrows
  <2>6. CASE BenchReturns(r, Cap)
    <3>1. /\ stage' = [stage EXCEPT ![r] = "returned"] /\ DOMAIN summary' = DOMAIN summary
          /\ conn' = [c \in Client |-> IF c \in ClientsOf(r) THEN "closed" ELSE conn[c]]
          /\ inRoom' = inRoom \ ClientsOf(r) /\ UNCHANGED <<setup, seq, onTheWire, faults>>
      BY <2>6 DEF BenchReturns
    <3> QED BY <1>1, <1>4, <3>1
  <2> QED BY <1>4, <2>1, <2>2, <2>3, <2>4, <2>5, <2>6
<1>5. ASSUME NEW r \in Bench, NEW n \in Seqs, Dies(r, n) \/ Broadcast(r, n, Audience(r)),
             UNCHANGED driverVars
      PROVE  StagesTypeOK'
  BY <1>1, <1>5 DEF Dies, Broadcast
<1>6. ASSUME NEW r \in Bench, ShardDone(r) \/ ShardFails(r) PROVE StagesTypeOK'
  BY <1>1, <1>6 DEF ShardDone, ShardFails
<1>7. CASE Reports
  <2>1. exitCode' \in {NotExited, 0, 1} /\ UNCHANGED <<benchVars, outcome>>
    BY <1>7 DEF Reports
  <2> QED BY <1>1, <2>1
<1>8. CASE UNCHANGED multiVars
  BY <1>1, <1>8
<1> QED BY <1>2, <1>3, <1>4, <1>5, <1>6, <1>7, <1>8, MultiNextCases

----------------------------------------------------------------------------
\* What is on its way to a client: its own runner's messages.
Letters(c) == {c[1]} \X Seqs

WiresAreOwn ==
  /\ DOMAIN wire = Client
  /\ \A c \in Client : wire[c] \in Seq(Letters(c))

LEMMA SeqOps ==
  ASSUME NEW S, NEW s \in Seq(S)
  PROVE  /\ \A x \in S : Append(s, x) \in Seq(S)
         /\ s # <<>> => Head(s) \in S /\ Tail(s) \in Seq(S)
         /\ <<>> \in Seq(S)
         /\ \A T : S \subseteq T => s \in Seq(T)
<1>1. ASSUME s # <<>> PROVE Head(s) \in S /\ Tail(s) \in Seq(S)
  BY <1>1, HeadTailProperties
<1>2. ASSUME NEW x \in S PROVE Append(s, x) \in Seq(S)
  BY AppendProperties
<1>3. ASSUME NEW T, S \subseteq T PROVE s \in Seq(T)
  <2>1. s \in [1..Len(s) -> S] /\ Len(s) \in Nat
    OBVIOUS
  <2>2. s \in [1..Len(s) -> T]
    BY <1>3, <2>1
  <2> QED BY <2>1, <2>2
<1>4. <<>> \in Seq(S)
  OBVIOUS
<1> QED BY <1>1, <1>2, <1>3, <1>4

\* A client is in one bench.
LEMMA ClientsAre ==
  ASSUME NEW c \in Client
  PROVE  /\ c[1] \in Bench /\ c[2] \in 1..PerRunner /\ c = <<c[1], c[2]>>
         /\ \A r \in Bench : c \in ClientsOf(r) <=> c[1] = r
BY DEF Client, ClientsOf

\* A message goes to the clients of its own shard: each has its own stream.
LEMMA AudienceIsOwn ==
  ASSUME NEW r \in Bench, NEW c \in Audience(r)
  PROVE  c[1] = r
BY DEF Audience, StreamOf

LEMMA WiresStep ==
  ASSUME StagesTypeOK, WiresAreOwn, [MultiNext]_multiVars
  PROVE  WiresAreOwn'
<1>1. \A c : Letters(c)' = Letters(c)
  BY OneSetup DEF Letters
<1> SUFFICES /\ DOMAIN wire' = Client
             /\ \A c \in Client : wire'[c] \in Seq(Letters(c))
  BY <1>1 DEF WiresAreOwn
<1> DEFINE Goal == /\ DOMAIN wire' = Client
                   /\ \A c \in Client : wire'[c] \in Seq(Letters(c))
<1>2. DOMAIN wire = Client /\ \A c \in Client : wire[c] \in Seq(Letters(c))
  BY DEF WiresAreOwn
<1>3. ASSUME wire' = wire PROVE Goal
  BY <1>2, <1>3
<1>4. ASSUME NEW c \in Client, Receives(c) PROVE Goal
  <2>1. wire[c] # <<>> /\ wire' = [wire EXCEPT ![c] = Tail(@)]
    BY <1>4 DEF Receives
  <2>2. Tail(wire[c]) \in Seq(Letters(c))
    BY <1>2, <2>1, SeqOps
  <2> QED BY <1>2, <2>1, <2>2
<1>5. ASSUME NEW c \in Client, NEW jitter \in BOOLEAN, Breaks(c, jitter) PROVE Goal
  <2>1. wire' = wire \/ wire' = [wire EXCEPT ![c] = <<>>]
    BY <1>5 DEF Breaks
  <2>2. \A d \in Client : <<>> \in Seq(Letters(d))
    BY <1>2, SeqOps
  <2> DEFINE none == <<>>
  <2>3. (\A d \in Client : none \in Seq(Letters(d))) /\ (wire' = wire \/ wire' = [wire EXCEPT ![c] = none])
    BY <2>1, <2>2
  <2> HIDE DEF none, Letters
  <2> QED BY <1>2, <2>3
<1>6. ASSUME NEW r \in Bench, BenchReturns(r, Cap) PROVE Goal
  <2>1. wire' = [c \in Client |-> IF c \in ClientsOf(r) THEN <<>> ELSE wire[c]]
    BY <1>6 DEF BenchReturns
  <2> QED BY <1>2, <2>1
<1>7. ASSUME NEW r \in Bench, NEW n \in Seqs, Broadcast(r, n, Audience(r)) PROVE Goal
  <2>1. wire' = [c \in Client |-> IF c \in Audience(r) THEN Append(wire[c], <<r, n>>) ELSE wire[c]]
    BY <1>7 DEF Broadcast
  <2>2. ASSUME NEW c \in Client, c \in Audience(r) PROVE Append(wire[c], <<r, n>>) \in Seq(Letters(c))
    <3>1. <<r, n>> \in Letters(c)
      BY <2>2, AudienceIsOwn DEF Letters
    <3> QED BY <1>2, <3>1, SeqOps
  <2>3. \A c \in Client : wire'[c] = IF c \in Audience(r) THEN Append(wire[c], <<r, n>>) ELSE wire[c]
    BY <2>1
  <2>4. DOMAIN wire' = Client
    BY <2>1
  <2> HIDE DEF Letters
  <2>5. ASSUME NEW c \in Client PROVE wire'[c] \in Seq(Letters(c))
    BY <1>2, <2>2, <2>3
  <2> QED BY <2>4, <2>5
<1>8. ASSUME NEW c \in Client, Connects(c) \/ ConnectFails(c) \/ Retries(c) PROVE wire' = wire
  BY <1>8 DEF Connects, ConnectFails, Retries
<1>9. ASSUME NEW r \in Bench, \/ CreateClient(r) \/ RampEnds(r) \/ Dispatches(r) \/ KicksOff(r)
                              \/ PublishEnds(r) \/ PublisherThrows(r)
      PROVE  wire' = wire
  BY <1>9 DEF CreateClient, RampEnds, Dispatches, KicksOff, PublishEnds, PublisherThrows, clientVars
<1>10. ASSUME NEW r \in Bench, NEW n \in Seqs, Dies(r, n) PROVE wire' = wire
  BY <1>10 DEF Dies, clientVars
<1>11. ASSUME NEW r \in Bench, ShardDone(r) \/ ShardFails(r) PROVE wire' = wire
  BY <1>11 DEF ShardDone, ShardFails, benchVars, clientVars
<1>12. ASSUME Reports PROVE wire' = wire
  BY <1>12 DEF Reports, benchVars, clientVars
<1>13. ASSUME UNCHANGED multiVars PROVE wire' = wire
  BY <1>13 DEF multiVars, benchVars, clientVars
<1> HIDE DEF Goal
<1>14. Goal
  BY <1>3, <1>4, <1>5, <1>6, <1>7, <1>8, <1>9, <1>10, <1>11, <1>12, <1>13, MultiNextCases
<1> QED BY <1>14 DEF Goal

----------------------------------------------------------------------------
\* What a client counted is what it got from its own runner.
Stat == [received : SUBSET Nat, highestSeq : Nat, jitterCount : Nat, recoveredCount : Nat,
         failedConnects : Nat, everConnected : BOOLEAN, latencies : Seq(Nat)]

CountsAreOwn ==
  /\ stats \in [Client -> Stat]
  /\ heard \in [Client -> SUBSET (Bench \X Seqs)]
  /\ \A c \in Client : /\ heard[c] = {c[1]} \X stats[c].received
                       /\ stats[c].received \subseteq Seqs
                       /\ \A n \in stats[c].received : n <= stats[c].highestSeq

LEMMA Recorded ==
  ASSUME NEW st \in Stat, NEW n \in Nat, NEW l \in Nat
  PROVE  /\ RecordMsg(st, n, l) \in Stat
         /\ RecordMsg(st, n, l).received = st.received \cup {n}
         /\ RecordMsg(st, n, l).highestSeq \in {st.highestSeq, n}
         /\ RecordMsg(st, n, l).highestSeq >= n
         /\ RecordMsg(st, n, l).highestSeq >= st.highestSeq
<1> DEFINE samples == Append(st.latencies, l)
<1>1. samples \in Seq(Nat)
  BY SeqOps DEF Stat
<1>2. RecordMsg(st, n, l) = [st EXCEPT !.received = st.received \cup {n},
                              !.highestSeq = IF n > st.highestSeq THEN n ELSE st.highestSeq,
                              !.latencies = samples]
  BY DEF RecordMsg
<1> HIDE DEF samples
<1> DEFINE highest == IF n > st.highestSeq THEN n ELSE st.highestSeq
           got == st.received \cup {n}
<1>3. highest \in Nat /\ highest \in {st.highestSeq, n} /\ highest >= n /\ highest >= st.highestSeq
  BY DEF Stat
<1>4. got \in SUBSET Nat
  BY DEF Stat
<1>5. RecordMsg(st, n, l) = [st EXCEPT !.received = got, !.highestSeq = highest, !.latencies = samples]
  BY <1>2
<1> HIDE DEF highest, got
<1>6. /\ RecordMsg(st, n, l) \in Stat /\ RecordMsg(st, n, l).received = got
      /\ RecordMsg(st, n, l).highestSeq = highest
  BY <1>1, <1>3, <1>4, <1>5 DEF Stat
<1> QED BY <1>3, <1>6 DEF got

LEMMA CountsStep ==
  ASSUME StagesTypeOK, WiresAreOwn, CountsAreOwn, [MultiNext]_multiVars
  PROVE  CountsAreOwn'
<1>1. Seqs' = Seqs
  BY OneSetup
<1> DEFINE Goal == CountsAreOwn'
<1>2. ASSUME UNCHANGED <<stats, heard>> PROVE Goal
  BY <1>1, <1>2 DEF CountsAreOwn
<1>3. ASSUME NEW c \in Client, NEW st \in Stat, stats' = [stats EXCEPT ![c] = st], heard' = heard,
             st.received = stats[c].received, st.highestSeq = stats[c].highestSeq
      PROVE  Goal
  <2>1. stats' \in [Client -> Stat]
    BY <1>3 DEF CountsAreOwn
  <2>2. ASSUME NEW d \in Client
        PROVE  stats'[d].received = stats[d].received /\ stats'[d].highestSeq = stats[d].highestSeq
    BY <1>3 DEF CountsAreOwn
  <2> QED BY <1>1, <1>3, <2>1, <2>2 DEF CountsAreOwn
<1>4. ASSUME NEW c \in Client, Connects(c) PROVE Goal
  <2> DEFINE recovered == stats[c].recoveredCount +
                            IF Test = "jitter" /\ Target = "socketio-csr" /\ c \in inRoom THEN 1 ELSE 0
             ever == stats[c].everConnected \/ conn[c] = "connecting"
                                            \/ setup # <<"jitter", "socketio", "serial">>
             st == [stats[c] EXCEPT !.everConnected = ever, !.recoveredCount = recovered]
  <2>1. stats[c] \in Stat
    BY DEF CountsAreOwn
  <2>2. recovered \in Nat
    BY <2>1 DEF Stat
  <2>3. ever \in BOOLEAN
    BY <2>1 DEF Stat
  <2>4. heard' = heard /\ stats' = [stats EXCEPT ![c] = st]
    BY <1>4 DEF Connects, CountsAreOwn
  <2> HIDE DEF ever, recovered
  <2>5. st \in Stat /\ st.received = stats[c].received /\ st.highestSeq = stats[c].highestSeq
    BY <2>1, <2>2, <2>3 DEF Stat
  <2> HIDE DEF st, Goal
  <2> QED BY <1>3, <2>4, <2>5
<1>5. ASSUME NEW c \in Client, ConnectFails(c) PROVE Goal
  <2> DEFINE failed == IF CountsFailures THEN stats[c].failedConnects + 1 ELSE stats[c].failedConnects
             st == [stats[c] EXCEPT !.failedConnects = failed]
  <2>1. stats[c] \in Stat
    BY DEF CountsAreOwn
  <2>2. failed \in Nat
    BY <2>1 DEF Stat
  <2>3. heard' = heard /\ stats' = [stats EXCEPT ![c] = st]
    BY <1>5 DEF ConnectFails, CountsAreOwn
  <2> HIDE DEF failed
  <2>4. st \in Stat /\ st.received = stats[c].received /\ st.highestSeq = stats[c].highestSeq
    BY <2>1, <2>2 DEF Stat
  <2> HIDE DEF st, Goal
  <2> QED BY <1>3, <2>3, <2>4
<1>6. ASSUME NEW c \in Client, NEW jitter \in BOOLEAN, Breaks(c, jitter) PROVE Goal
  <2> DEFINE breaks == IF jitter THEN stats[c].jitterCount + 1 ELSE stats[c].jitterCount
             st == [stats[c] EXCEPT !.jitterCount = breaks]
  <2>1. stats[c] \in Stat
    BY DEF CountsAreOwn
  <2>2. breaks \in Nat
    BY <2>1 DEF Stat
  <2>3. heard' = heard /\ stats' = [stats EXCEPT ![c] = st]
    BY <1>6 DEF Breaks, CountsAreOwn
  <2> HIDE DEF breaks
  <2>4. st \in Stat /\ st.received = stats[c].received /\ st.highestSeq = stats[c].highestSeq
    BY <2>1, <2>2 DEF Stat
  <2> HIDE DEF st, Goal
  <2> QED BY <1>3, <2>3, <2>4
<1>7. ASSUME NEW c \in Client, Receives(c) PROVE Goal
  <2> DEFINE from == Head(wire[c])[1]
             n == Head(wire[c])[2]
             st == RecordMsg(stats[c], n, LatencyOf[from][n])
  <2>1. wire[c] # <<>> /\ stats' = [stats EXCEPT ![c] = st]
        /\ heard' = [heard EXCEPT ![c] = heard[c] \cup {<<from, n>>}]
    BY <1>7 DEF Receives
  <2>2. Head(wire[c]) \in Letters(c)
    BY <2>1, SeqOps DEF WiresAreOwn
  <2>3. from = c[1] /\ n \in Seqs /\ n \in Nat
    BY <2>2, MultiConstants DEF Letters, Seqs
  <2>4. from \in Bench
    BY <2>3, ClientsAre
  <2>5. LatencyOf[from][n] \in Nat
    BY <2>3, <2>4, MultiConstants
  <2>6. stats[c] \in Stat
    BY DEF CountsAreOwn
  <2> HIDE DEF from, n
  <2>7. /\ st \in Stat /\ st.received = stats[c].received \cup {n}
        /\ st.highestSeq >= n /\ st.highestSeq >= stats[c].highestSeq /\ st.highestSeq \in Nat
    <3>1. st \in Stat /\ st.received = stats[c].received \cup {n}
          /\ st.highestSeq >= n /\ st.highestSeq >= stats[c].highestSeq
      BY <2>3, <2>5, <2>6, Recorded
    <3> QED BY <3>1 DEF Stat
  <2> HIDE DEF st
  <2>8. stats' \in [Client -> Stat] /\ heard' \in [Client -> SUBSET (Bench \X Seqs)]
    <3>1. <<from, n>> \in Bench \X Seqs
      BY <2>3, <2>4
    <3> QED BY <2>1, <2>7, <3>1 DEF CountsAreOwn
  <2>9. ASSUME NEW d \in Client
        PROVE  /\ heard'[d] = {d[1]} \X stats'[d].received
               /\ stats'[d].received \subseteq Seqs
               /\ \A m \in stats'[d].received : m <= stats'[d].highestSeq
    <3>1. CASE d # c
      BY <2>1, <3>1 DEF CountsAreOwn
    <3>2. CASE d = c
      <4>1. stats'[c] = st /\ heard'[c] = heard[c] \cup {<<from, n>>}
        BY <2>1 DEF CountsAreOwn
      <4>2. heard[c] \cup {<<from, n>>} = {c[1]} \X (stats[c].received \cup {n})
        BY <2>3 DEF CountsAreOwn
      <4>3. stats[c].received \cup {n} \subseteq Seqs
        BY <2>3 DEF CountsAreOwn
      <4>4. ASSUME NEW m \in stats[c].received \cup {n} PROVE m <= st.highestSeq
        <5>1. CASE m = n
          BY <2>3, <2>7, <5>1
        <5>2. CASE m \in stats[c].received
          <6>1. m <= stats[c].highestSeq /\ m \in Nat /\ stats[c].highestSeq \in Nat
            BY <2>6, <5>2 DEF CountsAreOwn, Stat
          <6> QED BY <2>7, <6>1
        <5> QED BY <5>1, <5>2
      <4> QED BY <2>7, <3>2, <4>1, <4>2, <4>3, <4>4
    <3> QED BY <3>1, <3>2
  <2> QED BY <1>1, <2>8, <2>9 DEF CountsAreOwn
<1>8. ASSUME NEW c \in Client, Retries(c) PROVE UNCHANGED <<stats, heard>>
  BY <1>8 DEF Retries
<1>9. ASSUME NEW r \in Bench, \/ CreateClient(r) \/ RampEnds(r) \/ Dispatches(r) \/ KicksOff(r)
                              \/ PublishEnds(r) \/ PublisherThrows(r) \/ BenchReturns(r, Cap)
      PROVE  UNCHANGED <<stats, heard>>
  BY <1>9 DEF CreateClient, RampEnds, Dispatches, KicksOff, PublishEnds, PublisherThrows,
              BenchReturns, clientVars
<1>10. ASSUME NEW r \in Bench, NEW n \in Seqs, Dies(r, n) \/ Broadcast(r, n, Audience(r))
       PROVE  UNCHANGED <<stats, heard>>
  BY <1>10 DEF Dies, Broadcast, clientVars
<1>11. ASSUME NEW r \in Bench, ShardDone(r) \/ ShardFails(r) PROVE UNCHANGED <<stats, heard>>
  BY <1>11 DEF ShardDone, ShardFails, benchVars, clientVars
<1>12. ASSUME Reports PROVE UNCHANGED <<stats, heard>>
  BY <1>12 DEF Reports, benchVars, clientVars
<1>13. ASSUME UNCHANGED multiVars PROVE UNCHANGED <<stats, heard>>
  BY <1>13 DEF multiVars, benchVars, clientVars
<1> HIDE DEF Goal
<1>14. Goal
  BY <1>2, <1>4, <1>5, <1>6, <1>7, <1>8, <1>9, <1>10, <1>11, <1>12, <1>13, MultiNextCases
<1> QED BY <1>14 DEF Goal

----------------------------------------------------------------------------
\* A bench that returned is at rest: its clients are closed, and its summary is
\* that of their counts as they are.
AtRest(r) ==
  /\ \A c \in ClientsOf(r) : conn[c] = "closed"
  /\ \E st, total, cap : /\ cap \in {0, SamplesCap}
                         /\ st = [c \in ClientsOf(r) |-> stats[c]]
                         /\ summary[r] = Summarize(st, total, cap)

ReturnedAtRest ==
  \A r \in Bench : /\ stage[r] = "returned" => AtRest(r)
                   /\ outcome[r] = "done" => stage[r] = "returned"

LEMMA ReturnedIsFrozen ==
  ASSUME StagesTypeOK, CountsAreOwn, [MultiNext]_multiVars,
         NEW r \in Bench, stage[r] = "returned", \A c \in ClientsOf(r) : conn[c] = "closed"
  PROVE  /\ stage'[r] = "returned" /\ summary'[r] = summary[r]
         /\ \A c \in ClientsOf(r) : conn'[c] = conn[c] /\ stats'[c] = stats[c]
<1> DEFINE Goal == /\ stage'[r] = "returned" /\ summary'[r] = summary[r]
                   /\ \A c \in ClientsOf(r) : conn'[c] = conn[c] /\ stats'[c] = stats[c]
<1>1. ASSUME UNCHANGED <<stage, summary, conn, stats>> PROVE Goal
  BY <1>1
<1>2. ASSUME NEW c \in Client, UNCHANGED <<stage, summary>>, conn[c] # "closed",
             \A d \in Client \ {c} : conn'[d] = conn[d] /\ stats'[d] = stats[d]
      PROVE  Goal
  <2>1. \A d \in ClientsOf(r) : d \in Client \ {c}
    BY <1>2 DEF ClientsOf, Client
  <2> QED BY <1>2, <2>1
<1> USE DEF StagesTypeOK, CountsAreOwn
<1>3. ASSUME NEW c \in Client, Connects(c) \/ ConnectFails(c) \/ Retries(c) \/ Receives(c)
      PROVE  Goal
  <2>1. UNCHANGED <<stage, summary>> /\ conn[c] # "closed"
    BY <1>3 DEF Connects, ConnectFails, Retries, Receives
  <2>2. \A d \in Client \ {c} : conn'[d] = conn[d]
    BY <1>3 DEF Connects, ConnectFails, Retries, Receives
  <2>3. \A d \in Client \ {c} : stats'[d] = stats[d]
    <3>1. CASE Connects(c)
      BY <3>1 DEF Connects
    <3>2. CASE ConnectFails(c)
      BY <3>2 DEF ConnectFails
    <3>3. CASE Retries(c)
      BY <3>3 DEF Retries
    <3>4. CASE Receives(c)
      <4>1. \E st : stats' = [stats EXCEPT ![c] = st]
        BY Zenon, <3>4 DEF Receives
      <4> QED BY <4>1
    <3> QED BY <1>3, <3>1, <3>2, <3>3, <3>4
  <2> HIDE DEF Goal
  <2> QED BY <1>2, <2>1, <2>2, <2>3
<1>4. ASSUME NEW c \in Client, NEW jitter \in BOOLEAN, Breaks(c, jitter) PROVE Goal
  <2>1. UNCHANGED <<stage, summary>> /\ conn[c] # "closed"
    BY <1>4 DEF Breaks
  <2>2. \A d \in Client \ {c} : conn'[d] = conn[d] /\ stats'[d] = stats[d]
    BY <1>4 DEF Breaks
  <2> HIDE DEF Goal
  <2> QED BY <1>2, <2>1, <2>2
<1>5. ASSUME NEW q \in Bench, CreateClient(q) PROVE Goal
  <2>1. UNCHANGED <<stage, summary, stats>> /\ stage[q] = "ramp"
    BY <1>5 DEF CreateClient
  <2>2. PICK i \in 1..PerRunner : conn' = [conn EXCEPT ![<<q, i>>] = "connecting"]
    BY <1>5 DEF CreateClient
  <2>3. \A c \in ClientsOf(r) : c # <<q, i>> /\ c \in Client
    BY <2>1 DEF ClientsOf, Client
  <2> QED BY <2>1, <2>2, <2>3
<1>6. ASSUME NEW q \in Bench, RampEnds(q) \/ PublishEnds(q) \/ PublisherThrows(q) PROVE Goal
  <2>1. stage[q] \in {"ramp", "publish"} /\ UNCHANGED <<summary, conn, stats>>
    BY <1>6 DEF RampEnds, PublishEnds, PublisherThrows, clientVars
  <2>2. \A p \in Bench \ {q} : stage'[p] = stage[p]
    BY <1>6 DEF RampEnds, PublishEnds, PublisherThrows
  <2> QED BY <2>1, <2>2
<1>7. ASSUME NEW q \in Bench, BenchReturns(q, Cap) PROVE Goal
  <2>1. stage[q] = "drain" /\ stats' = stats
    BY <1>7 DEF BenchReturns
  <2>2. stage'[r] = stage[r] /\ summary'[r] = summary[r]
    <3>1. \E x : summary' = [summary EXCEPT ![q] = x]
      BY Zenon, <1>7 DEF BenchReturns
    <3> QED BY <1>7, <2>1, <3>1 DEF BenchReturns
  <2>3. \A c \in Client : conn'[c] = IF c \in ClientsOf(q) THEN "closed" ELSE conn[c]
    BY <1>7 DEF BenchReturns
  <2>4. \A c \in ClientsOf(r) : c \in Client
    BY DEF ClientsOf, Client
  <2> QED BY <2>1, <2>2, <2>3, <2>4
<1>8. ASSUME NEW q \in Bench, Dispatches(q) \/ KicksOff(q)
      PROVE  UNCHANGED <<stage, summary, conn, stats>>
  BY <1>8 DEF Dispatches, KicksOff, clientVars
<1>9. ASSUME NEW q \in Bench, NEW n \in Seqs, Dies(q, n) \/ Broadcast(q, n, Audience(q))
      PROVE  UNCHANGED <<stage, summary, conn, stats>>
  BY <1>9 DEF Dies, Broadcast, clientVars
<1>10. ASSUME NEW q \in Bench, ShardDone(q) \/ ShardFails(q)
       PROVE  UNCHANGED <<stage, summary, conn, stats>>
  BY <1>10 DEF ShardDone, ShardFails, benchVars, clientVars
<1>11. ASSUME Reports PROVE UNCHANGED <<stage, summary, conn, stats>>
  BY <1>11 DEF Reports, benchVars, clientVars
<1>12. ASSUME UNCHANGED multiVars PROVE UNCHANGED <<stage, summary, conn, stats>>
  BY <1>12 DEF multiVars, benchVars, clientVars
<1> HIDE DEF Goal
<1>13. Goal
  BY <1>1, <1>3, <1>4, <1>5, <1>6, <1>7, <1>8, <1>9, <1>10, <1>11, <1>12, MultiNextCases
<1> QED BY <1>13 DEF Goal

\* The bench's summary, when it returns.
LEMMA ReturnsAtRest ==
  ASSUME StagesTypeOK, NEW r \in Bench, BenchReturns(r, Cap)
  PROVE  AtRest(r)'
<1> DEFINE st == [c \in ClientsOf(r) |-> stats[c]]
           cap == IF Test = "jitter" THEN Cap ELSE 0
<1>1. summary' = [summary EXCEPT ![r] = Summarize(st, TotalMessages, cap)] /\ stats' = stats
  BY DEF BenchReturns
<1>2. cap \in {0, SamplesCap}
  BY DEF Cap
<1>3. \A c \in ClientsOf(r) : conn'[c] = "closed"
  BY DEF BenchReturns, ClientsOf, Client
<1>4. st = [c \in ClientsOf(r) |-> stats'[c]]
  BY <1>1
<1> HIDE DEF st, cap
<1>5. summary'[r] = Summarize(st, TotalMessages, cap)
  BY <1>1 DEF StagesTypeOK
<1> QED BY <1>2, <1>3, <1>4, <1>5 DEF AtRest

\* Only a return makes a bench one that returned.
LEMMA ReturnedByReturning ==
  ASSUME StagesTypeOK, [MultiNext]_multiVars, NEW r \in Bench,
         stage[r] # "returned", stage'[r] = "returned"
  PROVE  BenchReturns(r, Cap)
<1> USE DEF StagesTypeOK
<1>1. ASSUME NEW c \in Client, Connects(c) \/ ConnectFails(c) \/ Retries(c) \/ Receives(c)
      PROVE  stage' = stage
  BY <1>1 DEF Connects, ConnectFails, Retries, Receives
<1>2. ASSUME NEW c \in Client, NEW jitter \in BOOLEAN, Breaks(c, jitter) PROVE stage' = stage
  BY <1>2 DEF Breaks
<1>3. ASSUME NEW q \in Bench, CreateClient(q) \/ Dispatches(q) \/ KicksOff(q) PROVE stage' = stage
  BY <1>3 DEF CreateClient, Dispatches, KicksOff
<1>4. ASSUME NEW q \in Bench, RampEnds(q) \/ PublishEnds(q) \/ PublisherThrows(q) PROVE FALSE
  BY <1>4 DEF RampEnds, PublishEnds, PublisherThrows
<1>5. ASSUME NEW q \in Bench, BenchReturns(q, Cap) PROVE q = r
  BY <1>5 DEF BenchReturns
<1>6. ASSUME NEW q \in Bench, NEW n \in Seqs, Dies(q, n) \/ Broadcast(q, n, Audience(q))
      PROVE  stage' = stage
  BY <1>6 DEF Dies, Broadcast
<1>7. ASSUME NEW q \in Bench, ShardDone(q) \/ ShardFails(q) PROVE stage' = stage
  BY <1>7 DEF ShardDone, ShardFails, benchVars
<1>8. ASSUME Reports PROVE stage' = stage
  BY <1>8 DEF Reports, benchVars
<1>9. ASSUME UNCHANGED multiVars PROVE stage' = stage
  BY <1>9 DEF multiVars, benchVars
<1> QED BY <1>1, <1>2, <1>3, <1>4, <1>5, <1>6, <1>7, <1>8, <1>9, MultiNextCases

LEMMA DriverSteps ==
  ASSUME [MultiNext]_multiVars
  PROVE  \/ UNCHANGED driverVars
         \/ \E r \in Bench : ShardDone(r) \/ ShardFails(r)
         \/ Reports
BY DEF MultiNext, RunShards, Exited, multiVars

LEMMA AtRestStep ==
  ASSUME StagesTypeOK, CountsAreOwn, ReturnedAtRest, [MultiNext]_multiVars
  PROVE  ReturnedAtRest'
<1> SUFFICES ASSUME NEW r \in Bench
             PROVE  /\ stage'[r] = "returned" => AtRest(r)'
                    /\ outcome'[r] = "done" => stage'[r] = "returned"
  BY DEF ReturnedAtRest
<1>1. ASSUME stage[r] = "returned" PROVE stage'[r] = "returned" /\ AtRest(r)'
  <2>1. AtRest(r)
    BY <1>1 DEF ReturnedAtRest
  <2>2. \A c \in ClientsOf(r) : conn[c] = "closed"
    BY <2>1 DEF AtRest
  <2>3. /\ stage'[r] = "returned" /\ summary'[r] = summary[r]
        /\ \A c \in ClientsOf(r) : conn'[c] = conn[c] /\ stats'[c] = stats[c]
    BY <1>1, <2>2, ReturnedIsFrozen
  <2>4. [c \in ClientsOf(r) |-> stats'[c]] = [c \in ClientsOf(r) |-> stats[c]]
    BY <2>3
  <2> QED BY <2>1, <2>2, <2>3, <2>4 DEF AtRest
<1>2. ASSUME stage[r] # "returned", stage'[r] = "returned" PROVE AtRest(r)'
  BY <1>2, ReturnedByReturning, ReturnsAtRest
<1>3. ASSUME outcome'[r] = "done" PROVE stage[r] = "returned"
  <2>1. CASE outcome[r] = "done"
    BY <2>1 DEF ReturnedAtRest
  <2>2. CASE outcome[r] # "done"
    <3>1. CASE UNCHANGED driverVars \/ Reports
      BY <1>3, <2>2, <3>1 DEF driverVars, Reports
    <3>2. ASSUME NEW q \in Bench, ShardDone(q) PROVE stage[r] = "returned"
      BY <1>3, <2>2, <3>2 DEF ShardDone, StagesTypeOK
    <3>3. ASSUME NEW q \in Bench, ShardFails(q) PROVE FALSE
      BY <1>3, <2>2, <3>3 DEF ShardFails, StagesTypeOK
    <3> QED BY <3>1, <3>2, <3>3, DriverSteps
  <2> QED BY <2>1, <2>2
<1> QED BY <1>1, <1>2, <1>3

----------------------------------------------------------------------------
\* The report is the merge of the results of the shards that are done, which no
\* later step changes.
ReportIsMerge ==
  /\ exitCode # NotExited => \A r \in Bench : outcome[r] # "none"
  /\ merged # NoMerge =>
       /\ exitCode # NotExited
       /\ \E res : res = Results /\ CanMerge(res) /\ merged = Merge(res)
       /\ exitCode = 0 => ~ (merged.lostDeliveries > 0)

LEMMA ReportStep ==
  ASSUME StagesTypeOK, CountsAreOwn, ReturnedAtRest, ReportIsMerge, [MultiNext]_multiVars
  PROVE  ReportIsMerge'
<1> USE DEF StagesTypeOK
<1>1. ASSUME outcome' = outcome, exitCode # NotExited PROVE Results' = Results
  <2>1. ASSUME NEW r \in Successes PROVE summary'[r] = summary[r]
    <3>1. stage[r] = "returned" /\ r \in Bench /\ AtRest(r)
      BY DEF Successes, ReturnedAtRest
    <3> QED BY <3>1, ReturnedIsFrozen DEF AtRest
  <2> QED BY <1>1, <2>1 DEF Results, Successes
<1>2. CASE UNCHANGED driverVars
  <2>1. merged' = merged /\ exitCode' = exitCode /\ outcome' = outcome
    BY <1>2 DEF driverVars
  <2> QED BY <1>1, <2>1 DEF ReportIsMerge
<1>3. ASSUME NEW r \in Bench, ShardDone(r) \/ ShardFails(r) PROVE ReportIsMerge'
  <2>1. outcome[r] = "none" /\ merged' = merged /\ exitCode' = exitCode
    BY <1>3 DEF ShardDone, ShardFails
  <2>2. exitCode = NotExited
    BY <2>1 DEF ReportIsMerge
  <2>3. merged = NoMerge
    BY <2>2 DEF ReportIsMerge
  <2> QED BY <2>1, <2>2, <2>3 DEF ReportIsMerge
<1>4. CASE Reports
  <2>1. exitCode = NotExited /\ (\A r \in Bench : outcome[r] # "none") /\ outcome' = outcome
        /\ summary' = summary
    BY <1>4 DEF Reports, benchVars
  <2>2. merged = NoMerge
    BY <2>1 DEF ReportIsMerge
  <2>3. Results' = Results
    BY <2>1 DEF Results, Successes
  <2>4. CASE UNCHANGED merged
    BY <2>1, <2>2, <2>4 DEF ReportIsMerge
  <2>5. CASE /\ CanMerge(Results) /\ merged' = Merge(Results)
             /\ exitCode' = IF merged'.lostDeliveries > 0 THEN 1 ELSE 0
    <3>1. exitCode' # NotExited
      BY <2>5 DEF NotExited
    <3>2. exitCode' = 0 => ~ (merged'.lostDeliveries > 0)
      BY <2>5
    <3> QED BY <2>1, <2>3, <2>5, <3>1, <3>2 DEF ReportIsMerge
  <2> QED BY <1>4, <2>4, <2>5 DEF Reports
<1> QED BY <1>2, <1>3, <1>4, DriverSteps

----------------------------------------------------------------------------
MultiInv == StagesTypeOK /\ WiresAreOwn /\ CountsAreOwn /\ ReturnedAtRest /\ ReportIsMerge

LEMMA MultiInitInv == MultiInit => MultiInv
<1> SUFFICES ASSUME MultiInit PROVE MultiInv
  OBVIOUS
<1> USE DEF MultiInit, BenchInit
<1>1. StagesTypeOK
  <2>1. 0 \in 0..TotalMessages /\ 0 \in 0..MaxFaults
    BY MultiConstants
  <2> QED BY <2>1 DEF StagesTypeOK, NotExited
<1>2. WiresAreOwn
  <2> HIDE DEF Letters
  <2>1. \A S : <<>> \in Seq(S)
    OBVIOUS
  <2>2. DOMAIN wire = Client /\ \A c \in Client : wire[c] = <<>>
    OBVIOUS
  <2> QED BY <2>1, <2>2 DEF WiresAreOwn
<1>3. CountsAreOwn
  <2>1. NewStat \in Stat /\ NewStat.received = {}
    BY DEF NewStat, Stat
  <2>2. stats = [c \in Client |-> NewStat] /\ heard = [c \in Client |-> {}]
    OBVIOUS
  <2> QED BY <2>1, <2>2 DEF CountsAreOwn
<1>4. ReturnedAtRest
  BY DEF ReturnedAtRest
<1>5. ReportIsMerge
  BY DEF ReportIsMerge
<1> QED BY <1>1, <1>2, <1>3, <1>4, <1>5 DEF MultiInv

LEMMA MultiStepInv == MultiInv /\ [MultiNext]_multiVars => MultiInv'
BY StagesTypeStep, WiresStep, CountsStep, AtRestStep, ReportStep DEF MultiInv

LEMMA MultiTyped == MultiInv => MultiTypeOK
<1> SUFFICES ASSUME MultiInv PROVE MultiTypeOK
  OBVIOUS
<1>1. ASSUME NEW c \in Client
      PROVE  wire[c] \in Seq(Bench \X Seqs) /\ stats[c].received \subseteq Seqs
  <2>1. c[1] \in Bench
    BY ClientsAre
  <2>2. Letters(c) \subseteq Bench \X Seqs
    BY <2>1 DEF Letters
  <2>3. wire[c] \in Seq(Letters(c))
    BY DEF MultiInv, WiresAreOwn
  <2>4. wire[c] \in Seq(Bench \X Seqs)
    BY <2>2, <2>3, SeqOps
  <2>5. stats[c].received \subseteq Seqs
    BY DEF MultiInv, CountsAreOwn
  <2> QED BY <2>4, <2>5
<1>2. heard \in [Client -> SUBSET (Bench \X Seqs)]
  BY DEF MultiInv, CountsAreOwn
<1>3. StagesTypeOK
  BY DEF MultiInv
<1>4. BenchTypeOK
  BY <1>1, <1>2, <1>3 DEF BenchTypeOK, StagesTypeOK
<1> QED BY <1>3, <1>4 DEF MultiTypeOK, StagesTypeOK

\* The type invariant of the benches and their driver.
THEOREM MultiTypeCorrect == MultiSpec => []MultiTypeOK
<1>1. MultiSpec => []MultiInv
  BY MultiInitInv, MultiStepInv, PTL DEF MultiSpec
<1> QED BY <1>1, MultiTyped, PTL

----------------------------------------------------------------------------
\* The merged shards and their results.
LEMMA ClientsFinite ==
  /\ IsFiniteSet(Client)
  /\ \A r \in Bench : ClientsOf(r) \in SUBSET Client /\ IsFiniteSet(ClientsOf(r))
<1>1. IsFiniteSet(Bench) /\ IsFiniteSet(1..PerRunner)
  BY MultiConstants, UpTo
<1>2. IsFiniteSet(Client)
  BY <1>1, FS_Product DEF Client
<1>3. ASSUME NEW r \in Bench PROVE ClientsOf(r) \in SUBSET Client
  BY DEF ClientsOf, Client
<1> QED BY <1>2, <1>3, FS_Subset

LEMMA MergedShards ==
  ASSUME MultiInv, merged # NoMerge
  PROVE  /\ IsFiniteSet(Successes) /\ Successes \subseteq Bench /\ DOMAIN Results = Successes
         /\ CanMerge(Results) /\ merged = Merge(Results)
         /\ exitCode = 0 => ~ (merged.lostDeliveries > 0)
<1>1. Successes \subseteq Bench /\ DOMAIN Results = Successes
  BY DEF Successes, Results
<1>2. IsFiniteSet(Successes)
  BY <1>1, MultiConstants, FS_Subset
<1> QED BY <1>1, <1>2 DEF MultiInv, ReportIsMerge

LEMMA ShardResult ==
  ASSUME MultiInv, merged # NoMerge, NEW s \in Successes
  PROVE  LET C == ClientsOf(s)
         IN /\ Results[s].clients = Cardinality(C)
            /\ Results[s].receivedDeliveries = Total([c \in C |-> ReceivedBy(stats[c])], C)
            /\ Results[s].lostDeliveries = Total([c \in C |-> LostBy(stats[c])], C)
            /\ Results[s].latencySamplesSorted =
                 DownsampleSorted(Sorted(Joined([c \in C |-> stats[c].latencies], C)), SamplesCap)
<1> DEFINE C == ClientsOf(s)
<1>1. s \in Bench /\ outcome[s] = "done"
  BY DEF Successes
<1>2. AtRest(s)
  BY <1>1 DEF MultiInv, ReturnedAtRest
<1>3. PICK st, total, cap : /\ cap \in {0, SamplesCap} /\ st = [c \in C |-> stats[c]]
                            /\ summary[s] = Summarize(st, total, cap)
  BY <1>2 DEF AtRest
<1>4. Results[s] = Summarize(st, total, cap)
  BY <1>3 DEF Results
<1>5. "latencySamplesSorted" \in DOMAIN Results[s]
  BY MergedShards DEF CanMerge
<1> HIDE DEF C
<1>6. DOMAIN st = C /\ \A c \in C : st[c] = stats[c]
  BY <1>3
<1>7. cap \in Nat
  BY <1>3, MultiConstants
<1> DEFINE D == DOMAIN st
           sum == Summarize(st, total, cap)
<1>11. /\ sum.clients = Cardinality(D)
       /\ sum.receivedDeliveries = Total([c \in D |-> ReceivedBy(st[c])], D)
       /\ sum.lostDeliveries = Total([c \in D |-> LostBy(st[c])], D)
       /\ "latencySamplesSorted" \in DOMAIN sum =>
            /\ cap > 0
            /\ sum.latencySamplesSorted =
                 DownsampleSorted(Sorted(Joined([c \in D |-> st[c].latencies], D)), cap)
  BY Zenon, <1>7, SummaryIs
<1>12. D = C /\ Results[s] = sum
  BY <1>4, <1>6
<1> HIDE DEF D, sum
<1>8. /\ Results[s].clients = Cardinality(C)
      /\ Results[s].receivedDeliveries = Total([c \in C |-> ReceivedBy(st[c])], C)
      /\ Results[s].lostDeliveries = Total([c \in C |-> LostBy(st[c])], C)
      /\ cap > 0
      /\ Results[s].latencySamplesSorted =
           DownsampleSorted(Sorted(Joined([c \in C |-> st[c].latencies], C)), cap)
  BY Zenon, <1>5, <1>11, <1>12
<1>9. cap = SamplesCap
  BY <1>3, <1>8
<1>10. /\ [c \in C |-> ReceivedBy(st[c])] = [c \in C |-> ReceivedBy(stats[c])]
       /\ [c \in C |-> LostBy(st[c])] = [c \in C |-> LostBy(stats[c])]
       /\ [c \in C |-> st[c].latencies] = [c \in C |-> stats[c].latencies]
  BY <1>6
<1> QED BY Zenon, <1>8, <1>9, <1>10 DEF C

LEMMA ClientCounts ==
  ASSUME MultiInv, NEW c \in Client
  PROVE  /\ IsFiniteSet(stats[c].received) /\ IsFiniteSet(heard[c])
         /\ ReceivedBy(stats[c]) \in Nat /\ LostBy(stats[c]) \in Nat
         /\ ReceivedBy(stats[c]) = Cardinality(heard[c])
         /\ stats[c].highestSeq - ReceivedBy(stats[c]) <= LostBy(stats[c])
<1>1. /\ stats[c] \in Stat /\ heard[c] = {c[1]} \X stats[c].received
      /\ stats[c].received \subseteq Seqs
  BY DEF MultiInv, CountsAreOwn
<1>2. IsFiniteSet(Seqs)
  BY MultiConstants, UpTo DEF Seqs
<1>3. IsFiniteSet(stats[c].received)
  BY <1>1, <1>2, FS_Subset
<1>4. ReceivedBy(stats[c]) \in Nat
  BY <1>3, FS_CardinalityType DEF ReceivedBy
<1>5. IsFiniteSet({c[1]}) /\ Cardinality({c[1]}) = 1
  BY FS_Singleton
<1>6. IsFiniteSet(heard[c]) /\ Cardinality(heard[c]) = Cardinality({c[1]}) * Cardinality(stats[c].received)
  BY <1>1, <1>3, <1>5, FS_Product
<1>7. ReceivedBy(stats[c]) = Cardinality(heard[c])
  BY <1>4, <1>5, <1>6 DEF ReceivedBy
<1>8. stats[c].highestSeq - ReceivedBy(stats[c]) \in Int
  BY <1>1, <1>4 DEF Stat
<1>9. /\ LostBy(stats[c]) \in Nat
      /\ stats[c].highestSeq - ReceivedBy(stats[c]) <= LostBy(stats[c])
  BY <1>8, LargestOf DEF LostBy
<1> QED BY <1>3, <1>4, <1>6, <1>7, <1>9

----------------------------------------------------------------------------
LEMMA NoGap ==
  ASSUME MultiInv, exitCode = 0, merged # NoMerge, NEW r \in Successes, NEW c \in ClientsOf(r)
  PROVE  LostBy(stats[c]) = 0
<1> DEFINE S == Successes
           lost == [s \in S |-> Results[s].lostDeliveries]
           of(s) == [d \in ClientsOf(s) |-> LostBy(stats[d])]
<1>1. IsFiniteSet(S) /\ S \subseteq Bench /\ DOMAIN Results = S /\ merged = Merge(Results)
      /\ ~ (merged.lostDeliveries > 0)
  BY MergedShards
<1>2. merged.lostDeliveries = Total(lost, S)
  BY Zenon, <1>1, MergeIs
<1>3. ASSUME NEW s \in S
      PROVE  /\ IsFiniteSet(ClientsOf(s)) /\ \A d \in ClientsOf(s) : of(s)[d] \in Nat
             /\ lost[s] = Total(of(s), ClientsOf(s)) /\ lost[s] \in Nat
  <2>1. IsFiniteSet(ClientsOf(s)) /\ ClientsOf(s) \in SUBSET Client
    BY <1>1, ClientsFinite
  <2>2. \A d \in ClientsOf(s) : of(s)[d] \in Nat
    BY <2>1, ClientCounts
  <2>3. lost[s] = Total(of(s), ClientsOf(s))
    BY ShardResult
  <2> HIDE DEF of, lost
  <2>4. Total(of(s), ClientsOf(s)) \in Nat
    BY <2>1, <2>2, TotalIsPairs
  <2> QED BY <2>1, <2>2, <2>3, <2>4
<1> HIDE DEF lost, of
<1>4. \A s \in S : lost[s] \in Nat
  BY <1>3
<1>5. Total(lost, S) \in Nat
  BY <1>1, <1>4, TotalIsPairs
<1>6. Total(lost, S) = 0
  BY <1>1, <1>2, <1>5
<1>7. lost[r] = 0
  BY <1>1, <1>4, <1>6, TotalOfNone
<1>8. Total(of(r), ClientsOf(r)) = 0
  BY <1>3, <1>7
<1>9. of(r)[c] = 0
  BY <1>3, <1>8, TotalOfNone
<1> QED BY <1>9 DEF of

LEMMA GapFree == MultiInv => ExitZeroMeansNoGap
<1> SUFFICES ASSUME MultiInv, exitCode = 0, merged # NoMerge, NEW r \in Successes,
                    NEW c \in ClientsOf(r), NEW n \in Own(c)
             PROVE  1..n \subseteq Own(c)
  BY DEF ExitZeroMeansNoGap
<1> DEFINE got == stats[c].received
           highest == stats[c].highestSeq
<1>1. c \in Client
  BY ClientsFinite, MergedShards
<1>2. /\ highest \in Nat /\ got \subseteq Seqs /\ heard[c] = {c[1]} \X got
      /\ \A m \in got : m <= highest
  BY <1>1 DEF MultiInv, CountsAreOwn, Stat
<1>3. Own(c) = got
  BY <1>2 DEF Own
<1>4. LostBy(stats[c]) = 0
  BY NoGap
<1>5. Cardinality(got) \in Nat /\ highest - Cardinality(got) <= 0 /\ IsFiniteSet(got)
  BY <1>1, <1>4, ClientCounts DEF ReceivedBy
<1> HIDE DEF got, highest
<1>6. got \in SUBSET (1..highest)
  BY <1>2, MultiConstants DEF Seqs
<1>7. IsFiniteSet(1..highest) /\ Cardinality(1..highest) = highest
  BY <1>2, UpTo
<1>8. /\ Cardinality(got) <= Cardinality(1..highest)
      /\ Cardinality(got) = Cardinality(1..highest) => got = 1..highest
  BY <1>6, <1>7, FS_Subset
<1>9. Cardinality(got) = highest
  BY <1>2, <1>5, <1>7, <1>8
<1>10. got = 1..highest
  BY <1>7, <1>8, <1>9
<1> QED BY <1>2, <1>3, <1>10

\* A run that exits with 0 hides no gap: a count that adds up over shards, and
\* per client from a set and a maximum, leaves room for none.
THEOREM ExitZeroIsGapFree == MultiSpec => []ExitZeroMeansNoGap
<1>1. MultiSpec => []MultiInv
  BY MultiInitInv, MultiStepInv, PTL DEF MultiSpec
<1> QED BY <1>1, GapFree, PTL

----------------------------------------------------------------------------
LEMMA CountsOfDone == MultiInv => MergedIsOfDoneShards
<1> DEFINE S == Successes
           all == S \X (1..PerRunner)
           size == [s \in S |-> Results[s].clients]
           got == [s \in S |-> Results[s].receivedDeliveries]
           part == [s \in S |-> ClientsOf(s)]
           h == [c \in all |-> Cardinality(heard[c])]
<1> SUFFICES ASSUME MultiInv, merged # NoMerge
             PROVE  merged.clients = Cardinality(all) /\ merged.receivedDeliveries = Total(h, all)
  BY DEF MergedIsOfDoneShards, Successes
<1>1. IsFiniteSet(S) /\ S \subseteq Bench /\ DOMAIN Results = S /\ merged = Merge(Results)
  BY MergedShards
<1>2. merged.clients = Total(size, S) /\ merged.receivedDeliveries = Total(got, S)
  BY Zenon, <1>1, MergeIs
<1>3. /\ all \subseteq Client /\ IsFiniteSet(all)
      /\ \A s \in S : part[s] = ClientsOf(s) /\ part[s] \in SUBSET all /\ IsFiniteSet(part[s])
      /\ \A c \in all : \E s \in S : c \in part[s]
      /\ \A s, t \in S : s # t => part[s] \cap part[t] = {}
  <2>1. all \subseteq Client
    BY <1>1 DEF Client
  <2>2. IsFiniteSet(all)
    BY <2>1, ClientsFinite, FS_Subset
  <2>3. \A s \in S : part[s] = ClientsOf(s) /\ part[s] \in SUBSET all
    BY DEF ClientsOf
  <2>4. \A s \in S : IsFiniteSet(part[s])
    BY <1>1, ClientsFinite
  <2>5. \A c \in all : c[1] \in S /\ c \in part[c[1]]
    BY DEF ClientsOf
  <2>6. \A s, t \in S : s # t => part[s] \cap part[t] = {}
    BY DEF ClientsOf
  <2> QED BY <2>1, <2>2, <2>3, <2>4, <2>5, <2>6
<1>4. merged.clients = Cardinality(all)
  <2>1. \A s \in S : size[s] = Cardinality(part[s])
    BY <1>3, ShardResult
  <2>2. Together(part, S) = all
    BY <1>3 DEF Together
  <2> HIDE DEF size, part, all
  <2>3. Total(size, S) = Cardinality(Together(part, S))
    BY <1>1, <1>3, <2>1, TotalOfSizes
  <2> QED BY <1>2, <2>2, <2>3
<1>5. Total(got, S) = Total(h, all)
  <2>1. \A c \in all : h[c] \in Nat /\ h[c] = ReceivedBy(stats[c])
    BY <1>3, ClientCounts
  <2>2. ASSUME NEW s \in S PROVE got[s] = Total(h, part[s])
    <3> DEFINE own == [c \in part[s] |-> ReceivedBy(stats[c])]
    <3>1. got[s] = Total(own, part[s])
      <4>1. got[s] = Total([c \in ClientsOf(s) |-> ReceivedBy(stats[c])], ClientsOf(s))
        BY ShardResult
      <4> QED BY <1>3, <4>1
    <3>2. \A c \in part[s] : h[c] \in Nat /\ own[c] = h[c]
      BY <1>3, <2>1
    <3> HIDE DEF own, part, h, got
    <3>3. Total(own, part[s]) = Total(h, part[s])
      BY <1>3, <3>2, TotalSame
    <3> QED BY <3>1, <3>3
  <2> HIDE DEF got, part, all, h
  <2>3. Total(got, S) = Total(h, all)
    BY <1>1, <1>3, <2>1, <2>2, TotalOfParts
  <2> QED BY <2>3
<1> QED BY <1>2, <1>4, <1>5

\* The merged counts are those of the clients of the shards that are done, as
\* they are at any later time, whatever the other shards' benches go on doing.
THEOREM MergedCounts == MultiSpec => []MergedIsOfDoneShards
<1>1. MultiSpec => []MultiInv
  BY MultiInitInv, MultiStepInv, PTL DEF MultiSpec
<1> QED BY <1>1, CountsOfDone, PTL

----------------------------------------------------------------------------
LEMMA SpansAll == MultiInv => MergedSpansSamples
<1> DEFINE S == Successes
           all == UNION {ToSet(stats[c].latencies) : c \in S \X (1..PerRunner)}
           own(s) == Joined([c \in ClientsOf(s) |-> stats[c].latencies], ClientsOf(s))
           sent == [s \in S |-> Results[s].latencySamplesSorted]
           J == Joined(sent, S)
           t == Sorted(J)
           n == Len(t)
<1> SUFFICES ASSUME MultiInv, merged # NoMerge, all # {}
             PROVE  /\ merged.latencyRawMs.max = Max(all)
                    /\ merged.latencyRawMs.skewFloor = Min(all)
  BY DEF MergedSpansSamples
<1>1. IsFiniteSet(S) /\ S \subseteq Bench /\ DOMAIN Results = S /\ merged = Merge(Results)
  BY MergedShards
<1>2. merged.latencyRawMs = Latencies(J)
  BY Zenon, <1>1, MergeIs
<1>3. \A v : v \in all <=> \E s \in S : \E c \in ClientsOf(s) : Has(stats[c].latencies, v)
  <2>1. \A v : v \in all <=> \E c \in S \X (1..PerRunner) : Has(stats[c].latencies, v)
    BY DEF ToSet, Has
  <2>2. \A c : c \in S \X (1..PerRunner) <=> \E s \in S : c \in ClientsOf(s)
    BY DEF ClientsOf
  <2> HIDE DEF all
  <2> QED BY <2>1, <2>2
<1>4. ASSUME NEW s \in S
      PROVE  /\ own(s) \in Seq(Nat)
             /\ \A v : Has(own(s), v) <=> \E c \in ClientsOf(s) : Has(stats[c].latencies, v)
  <2> DEFINE f == [c \in ClientsOf(s) |-> stats[c].latencies]
  <2>1. IsFiniteSet(ClientsOf(s)) /\ ClientsOf(s) \in SUBSET Client
    BY <1>1, ClientsFinite
  <2>2. \A c \in ClientsOf(s) : f[c] = stats[c].latencies /\ f[c] \in Seq(Nat)
    BY <2>1 DEF MultiInv, CountsAreOwn, Stat
  <2> HIDE DEF f
  <2>3. /\ Joined(f, ClientsOf(s)) \in Seq(Nat)
        /\ \A v : Has(Joined(f, ClientsOf(s)), v) <=> \E c \in ClientsOf(s) : Has(f[c], v)
    BY <2>1, <2>2, JoinedIs
  <2> QED BY <2>2, <2>3 DEF f
<1>5. \A v : v \in all <=> \E s \in S : Has(own(s), v)
  <2> HIDE DEF all, own
  <2> QED BY <1>3, <1>4
<1>6. ASSUME NEW s \in S
      PROVE  /\ sent[s] \in Seq(Nat)
             /\ \A v : Has(sent[s], v) => Has(own(s), v)
             /\ \A v : Has(own(s), v) =>
                  \E low, high \in Nat : Has(sent[s], low) /\ Has(sent[s], high) /\ low <= v /\ v <= high
  <2>1. sent[s] = DownsampleSorted(Sorted(own(s)), SamplesCap)
    BY ShardResult
  <2>2. own(s) \in Seq(Nat)
    BY <1>4
  <2>3. SamplesCap \in Nat \ {0, 1}
    BY MultiConstants
  <2> DEFINE x == own(s)
             d == DownsampleSorted(Sorted(x), SamplesCap)
  <2> HIDE DEF own, sent
  <2>4. /\ d \in Seq(Nat)
        /\ \A v : Has(d, v) => Has(x, v)
        /\ \A v : Has(x, v) =>
             \E low, high \in Nat : Has(d, low) /\ Has(d, high) /\ low <= v /\ v <= high
    <3> HIDE DEF x
    <3> QED BY Zenon, <2>2, <2>3, SentSamples DEF x
  <2>5. sent[s] = d
    BY <2>1
  <2> HIDE DEF d
  <2> QED BY Zenon, <2>4, <2>5
<1> HIDE DEF all, own, sent
<1>7. J \in Seq(Nat) /\ \A v : Has(J, v) <=> \E s \in S : Has(sent[s], v)
  BY <1>1, <1>6, JoinedIs
<1> HIDE DEF J
<1>8. \A v : Has(J, v) => v \in all
  BY <1>5, <1>6, <1>7
<1>9. ASSUME NEW v \in all
      PROVE  \E low, high \in Nat : Has(J, low) /\ Has(J, high) /\ low <= v /\ v <= high
  <2>1. PICK s \in S : Has(own(s), v)
    BY <1>5
  <2>2. PICK low \in Nat, high \in Nat :
          Has(sent[s], low) /\ Has(sent[s], high) /\ low <= v /\ v <= high
    BY <1>6, <2>1
  <2> QED BY <1>7, <2>2
<1>10. all \subseteq Nat
  <2>1. \A v : Has(J, v) => v \in Nat
    BY <1>7 DEF Has
  <2> SUFFICES ASSUME NEW v \in all PROVE v \in Nat
    OBVIOUS
  <2>2. PICK s \in S : Has(own(s), v)
    BY <1>5
  <2> QED BY <1>4, <2>2 DEF Has
<1>11. /\ t \in Seq(Nat) /\ DOMAIN t = 1..n /\ n \in Nat
       /\ \A k, l \in 1..n : k <= l => t[k] <= t[l]
       /\ \A v : Has(t, v) <=> Has(J, v)
  BY <1>7, SortedIs
<1> HIDE DEF t, n
<1>12. /\ Has(J, t[1]) /\ Has(J, t[n]) /\ t[1] \in Nat /\ t[n] \in Nat
       /\ \A v : Has(J, v) => t[1] <= v /\ v <= t[n]
  <2>1. PICK v : Has(J, v)
    BY <1>9
  <2>2. PICK i \in 1..n : t[i] = v
    BY <1>11, <2>1 DEF Has
  <2>3. 1 \in 1..n /\ n \in 1..n
    BY <1>11
  <2>4. Has(J, t[1]) /\ Has(J, t[n])
    BY <1>11, <2>3 DEF Has
  <2>5. ASSUME NEW w, Has(J, w) PROVE t[1] <= w /\ w <= t[n]
    <3>1. PICK j \in 1..n : t[j] = w
      BY <1>11, <2>5 DEF Has
    <3> QED BY <1>11, <2>3, <3>1
  <2> QED BY <1>11, <2>3, <2>4, <2>5
<1>13. Latencies(J).max = t[n] /\ Latencies(J).skewFloor = t[1]
  BY <1>7, <1>12, LatenciesAre
<1>14. /\ t[n] \in all /\ \A v \in all : v <= t[n]
       /\ t[1] \in all /\ \A v \in all : t[1] <= v
  <2>1. t[n] \in all /\ t[1] \in all
    BY <1>8, <1>12
  <2>2. ASSUME NEW v \in all PROVE t[1] <= v /\ v <= t[n]
    <3>1. PICK low \in Nat, high \in Nat : Has(J, low) /\ Has(J, high) /\ low <= v /\ v <= high
      BY <1>9
    <3>2. t[1] <= low /\ high <= t[n] /\ v \in Nat
      BY <1>10, <1>12, <3>1
    <3> QED BY <1>12, <3>1, <3>2
  <2> QED BY <2>1, <2>2
<1>15. Max(all) = t[n]
  <2>1. t[n] \in all /\ \A v \in all : t[n] >= v
    BY <1>10, <1>12, <1>14
  <2>2. Max(all) \in all /\ \A v \in all : Max(all) >= v
    BY <2>1 DEF Max
  <2> DEFINE m == Max(all)
  <2>3. m \in all /\ m \in Nat /\ \A v \in all : m >= v
    BY <1>10, <2>2
  <2> HIDE DEF m
  <2>4. m = t[n]
    BY <1>12, <2>1, <2>3
  <2> QED BY <2>4 DEF m
<1>16. Min(all) = t[1]
  <2>1. t[1] \in all /\ \A v \in all : t[1] <= v
    BY <1>14
  <2>2. Min(all) \in all /\ \A v \in all : Min(all) <= v
    BY <2>1 DEF Min
  <2> DEFINE m == Min(all)
  <2>3. m \in all /\ m \in Nat /\ \A v \in all : m <= v
    BY <1>10, <2>2
  <2> HIDE DEF m
  <2>4. m = t[1]
    BY <1>12, <2>1, <2>3
  <2> QED BY <2>4 DEF m
<1> QED BY <1>2, <1>13, <1>15, <1>16

\* The extremes survive the shards' sampling: each sends its first and its last
\* sample, whatever the cap and however many samples there are.
THEOREM MergedExtremes == MultiSpec => []MergedSpansSamples
<1>1. MultiSpec => []MultiInv
  BY MultiInitInv, MultiStepInv, PTL DEF MultiSpec
<1> QED BY <1>1, SpansAll, PTL

=============================================================================
