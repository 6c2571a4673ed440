# A TLA+ model of nodejs-websocket-bench

The repository benchmarks five WebSocket setups: clients in a *bench-runner* connect to a server
under test, a publisher broadcasts numbered messages, and the runner counts what arrives while it
severs connections or while the server is redeployed. A *driver* on the operator's machine spreads
one test over many bench-runners and merges their results. The published numbers are only as good
as these programs, which are concurrent, retry what fails, and count events. This project models
them in TLA+, checks the models with TLC, and proves the most important properties with TLAPS.

Paths below are relative to `backend/src/`.

## 1. The system

| Component | State | Operations | Correct when |
| --- | --- | --- | --- |
| Shard coordinator, `lib/core/shard-coordinator.ts` | one `ShardState` per shard: status, jobId, result, error, last log tail | enqueue all, poll every running shard each cycle, time out, return outcomes | every shard ends exactly once, with its own result; it always returns |
| Job queue, `lib/core/job-queue.ts` | the `jobs` map and each job's log ring buffer, in process memory | start, settle, sweep after 30 min, read; lost on a restart | a running job is listed; an id means one job |
| Bench-runner, `bench-runner/server.ts` | none of its own | `?async=1` starts a job, otherwise the request lasts as long as the bench; `GET /jobs/:id` | answers with the status and tail of one instant |
| Publishers, `lib/throughput.ts` | a counter, waiters, open requests | serial, fireforget, pool, nats | bounded load, order in serial mode, nothing open at the end |
| Throughput runners, `lib/throughput.ts` | clients, statistics | ramp, publish, drain, summarize | the result states what the clients received |
| uWS client, `lib/jitter-uws.ts` | socket, timer, `closed`, statistics | connect, subscribe, record, retry, sever, close | one connection at a time, subscribed again after each failure, silent after close |
| uWS and Socket.io servers, `uws/server.ts`, `socketio/server.ts` | topics or rooms | subscribe or join, broadcast | each subscriber gets each message once, in order |
| Jitter tests, `lib/jitter-runners.ts` | sockets, statistics per client | ramp, sever, fresh socket or recovery, record | statistics mean what the result says |
| Avalanche runners, `lib/avalanche-runner.ts`, `avalanche-uws.ts` | counters and times of a restart | ramp, arm, detect, recover, tear down | the counters agree with the clients |
| Deploy impact runners, `lib/*deploy-impact*.ts`, `standalone-publisher/server.ts` | phases of each client, gaps, counters | like the avalanche, with a publisher running | the gaps and losses are those of the deploy |
| Whispers, `lib/whispers-runner.ts`, `bench/whispers-multi.ts` | per client sent and received, rooms of all shards | ramp, join, whisper, settle, add up | no more received than expected; nothing counted twice |
| Idle, trace, `lib/idle-runner.ts`, `anycable-trace.ts` | statistics | one scenario each | counts and percentiles |
| Results, `lib/core/stats.ts` | none, pure | record, summarize, downsample, merge | a merged result states what the shards' clients received |
| Multi-shard drivers, `bench/jitter-multi.ts`, `throughput-multi.ts` | one result per shard | build the shards' queries, `runShards`, merge, exit code | exit code 0 hides no gap |
| Rebaseline, `bench/rebaseline.ts`, `tests-manifest.ts` | the test whose turn it is, its job, timers, the reports | select, post, poll, redeploy, fan out, judge | only a test's own result is judged; a fallen rate fails the run; it ends |
| Other drivers, `bench/*.ts`, Railway API | none | parse, call, print, redeploy | |

**Interactions.** Drivers call bench-runners over HTTP (a POST per shard, then polls). A bench-runner
calls a runner function, which opens WebSockets to the server under test and POSTs messages to it.
All code is single-threaded JavaScript: every `await` and every callback is a place where other steps
come in between, and the modules make exactly these places the boundaries of their actions. Between
processes there are requests that get lost before or after they were handled, processes that restart
and lose their memory, and timeouts.

**What is hard to test.** Answers that arrive after a timeout settled the matter; a barrier
(`Promise.all`) that one hanging request holds up; a map emptied by a redeploy or a sweep between two
polls; log lines found by their text in a window of a ring buffer; a counter of permits changed from
three places; a reconnecting client asked to reconnect twice, or closed while it does; counters of
events that stand for counts of clients; a parameter that one program sends and the other does not read,
which neither notices; shards that run apart though they share a room or add up to one result. `PROJECT.json` lists each hazard with its line and the
properties that would catch it.

## 2. Modules

| Module | Models | Proofs |
| --- | --- | --- |
| `ShardRun` | the contract of a sharded run, abstract | |
| `JobQueue` | the job maps of the bench-runners | |
| `ShardCoordinator` | `runShards` with the fetches to them; EXTENDS `JobQueue`, refines `ShardRun` | `DriverProofs` |
| `LogTail` | ring buffer, window of a poll, `printNewLog` | `DriverProofs` |
| `Publisher` | the HTTP publishers | `StreamProofs` |
| `ReconnectingWs` | one uWS jitter client with server, publisher and jitter loop | `StreamProofs` |
| `JitterClient` | one client of the Socket.io and AnyCable jitter tests, with room and publisher | `JitterClientProofs` |
| `Avalanche` | both avalanche runners | `AvalancheProofs` |
| `DeployImpact` | a rolling deploy of the Socket.io cluster: runner, publisher and driver | `DeployImpactProofs` |
| `BenchApi` | what each POST endpoint reads and what its result has | |
| `Manifest` | the tests of the comparison page, as data | |
| `Rebaseline` | the program that runs them; EXTENDS `JobQueue`, `Manifest`, `BenchApi` | `RebaselineProofs` |
| `Results` | `core/stats.ts`, as operators | `ResultsProofs` (lemmas) |
| `StreamBench` | benches whose clients listen to a stream; EXTENDS `Results` | |
| `MultiRun` | `jitter-multi` and `throughput-multi` over such benches; EXTENDS `StreamBench`, `BenchApi` | `DriverProofs` |
| `Whispers` | the whispers runners and their driver; EXTENDS `Results` | `WhispersProofs` |

`DriverProofs` and `StreamProofs` each extend more than one model, as their arguments share lemmas, so that
the names of those models differ: `TailInit`, `TailSpec` and `TailTypeOK` are `LogTail`'s initial states,
specification and type invariant, `PublisherSpec` is `Publisher`'s, `MultiSpec` is `MultiRun`'s.

`MC<module>` gives the constants of the TLC runs. A definition named `X_Something` beside a
definition `X` is `X` with a plausible bug; no specification uses it. Putting it in the place of `X`
makes TLC find the property listed with it in `PROJECT.json` violated, which shows that the property
depends on the code.

### ShardRun, JobQueue and ShardCoordinator

`ShardRun` says what a caller of `runShards` relies on: each shard's fate is settled at most once, to
done only if its bench ended, and the run returns only after all are settled.

`JobQueue` holds the map of every bench-runner process (`jobs[r]`). A job's result is the shard it
was started for, so that a result at the wrong shard is visible. `bench[s]` is the promise of the
bench itself: it is what really happened, whatever the maps say. `Restart` empties a process's map
and loses the benches that ran in it. `JobResponse` is the body of `GET /jobs/:id`; that an
undefined field is not in it, and `error` is in that of a failed job, matters and is modelled.

`ShardCoordinator` has one request in flight per shard. `phase[s]` is where it is (`post`, `sync`
inside an old bench-runner that works in the request, `get`, `reply`), `body[s]` the answer on its way.
`FetchFails` can strike at each of these places; what the runner did before stays done. A cycle's
synchronous part (time out or send the poll, for every shard) is the action `CycleStarts`, the
handling of each answer is `PollReturns`, and `AllSettled` is the `Promise.all`. `pc` is where
`runShards` is: in the enqueue round, at the loop test, asleep, in a cycle, returned.

### LogTail

A line is its number, its text is `written[line]`; texts repeat, because the code compares texts.
`Write` is the tee with its `shift`, `Poll` takes the last `LogLines`, `PrintNewLog` is the search of the
last line seen. `printed` is what is on the driver's terminal.

### Publisher

`pc` is the place of the loop, `open` the fetches that did not settle, `sent` the requests that the
server has yet to handle. A fetch and its request are two things: the first may give up
(`Settles`) while the second is still to arrive (`abandoned`). `runAnycablePublisher` and
`runSocketioRedisHttpPublisher` are the same loop. One waiter is all there can be, as the loop awaits
its place. The nats mode, which awaits nothing, and the publishing of `/publish-local` are in `StreamBench`.

### ReconnectingWs

Every socket the client ever made is an entry of `conns`, with the messages on its wire; the current
one is the last. Sockets end in two steps, as in the ws library: first they are dead (or refused),
then `close` is emitted. `answered` is the state of a socket whose handshake got an HTTP response:
with a listener for `unexpected-response` the library leaves it CONNECTING, and emits no `close`. The
uWS server sends a message to who is subscribed and open at that time.

### JitterClient

`variant` is the test: `runJitterSocketio` without reconnection, where the jitter loop opens a fresh
socket itself and waits for it (`loop`), and the two whose libraries reconnect. Every attempt is an
entry of `conns`, `current` the one in use (`entry.current`); a fresh socket that was given up on
stays in `conns` and may connect later. `kept` stands for what the server keeps of a session
(connection state recovery, AnyCable's broker): a resumed connection gets the messages after the
last one received. `terminate` may or may not find a `ws` on a connection that has ended; both are
in the model.

### Avalanche

`variant` chooses Socket.io or uWS, which differ in what a listener counts: Socket.io counts every
connect of the ramp and every disconnect after it; uWS counts a client's first connect, and a `close`
of clients that were connected once, including the `close` of a failed attempt. `drops`, `back` and
`flapped` record what happened to the clients, which the code's counters only stand for.

### DeployImpact

Two programs and a platform. The runner ramps, publishes, stops its publisher, settles and returns
(`pc`); the driver's `trigger` redeploys one node after the other (`driver`, `i`) and polls until the
platform says how the deployment ended (`deploy`), gives up (`PollTimesOut`) or throws, which ends the
driver, and with it the result. `Swapped` is the moment the new instance takes over and the old one's
connections die. `received`, `publishedAt` and the times hold what the loss analysis reads; `Lost` is
that analysis, strict comparisons included. `outage` is what really was published while a client was
away for the first time, and `cycles` how often it was: the code knows neither.

`OneCycle` and the two-node heuristic of `docs/methodology.md:167` rest on `PerNode`: the default URLs
name one node each, and a client comes back to the node it left. With a URL that is balanced, a
client can be bounced to the node that is redeployed next, and `OneCycle` fails, as that page says.
`Rejoined` says `cycles[c] <= 1` because the code joins again only on the first return.

### BenchApi and Manifest

Two tables. `BenchApi` is the interface of `bench-runner/server.ts`: `Reads(endpoint)` are the query
parameters its handler reads, `Returns(bench, params)` the fields of its result. A parameter that is not
read is replaced by a default and a field that is not there is `undefined`, so nothing fails at either
side; the properties of `Rebaseline` and `MultiRun` compare the two sides. `Manifest` is every entry of
`tests-manifest.ts`: id, endpoint, mode, parameters sent, baseline fields, and those whose baseline is 0,
which `classify` treats otherwise. The values are left out.

### Rebaseline

`todo` is the tests still to run, by their place in the manifest; the first of them has its turn (`Spec0`). `phase` and `body` are
used as in `ShardCoordinator`: a fetch is somewhere and fails anywhere, and what the runner did before
stays done. The job maps are those of `JobQueue`, so a job may be swept, lost in a restart, or outlive
its turn (`Fail` ends the turn, not the bench). The four kinds of turn are `PostGivesResult` (sync),
`PostGivesJob` and the polls (async), the same with a timer for the redeploy (avalanche), and `FanOut` and
`ShardsReturn` (multi-shard), where `runShards` is its contract: it returns, with some shards done.
A value of a result is where it lies from its baseline; the actions pick it, `Status` and `Verdict`
judge it. `absent` and `fell` remember what a report cannot be asked later.

### Results, StreamBench and MultiRun

`Results` translates `recordMsg`, `summarize`, `percentile`, `downsampleSorted` and
`mergeJitterResults`, with the arithmetic of indices and rates; a rate is in hundredths of a percent.
`StreamBench` is the behaviour behind the statistics: in each bench-runner clients ramp, join, receive,
break and come back while a publisher dispatches numbered messages, which arrive in any order or not at
all (HTTP), in order (nats, `/publish-local`), to whoever is in the room at that time. `Publisher` and
`JitterClient` have publisher and client in detail; here they are known by what those modules show of
them. `heard` is what a client really got, with the runner that published it; `stats` is what the code
keeps, where the number is all that is left. `MultiRun` puts a driver over several of them: the
query it builds, the cap that reaches the bench if the endpoint reads it, the contract of `runShards`
(done only after the bench returned; failed at any time, and the bench goes on), the merge and the exit code.

### Whispers

Clients of several shards share rooms, `RoomOf(c)` is `i % rooms` as in the code. A whisper is forwarded
to who is in the room then, the sender left out; whispers on their way are a number per client. The
protocols differ as they do in the code: a plain WebSocket does not come back, Socket.io comes back but
joins only on its first connect, and holds back what it emits while it is away; AnyCable subscribes again.
`Reports` is `whispers-multi.ts`: the sums over the shards that are done, the expectation from their
clients, the exit code.

## 3. Runs

| Run | Checks | Bounds |
| --- | --- | --- |
| `shards` | `DoneIsOwnResult`, `RunningIsListed`, `Terminates`, `ImplementsShardRun` | three shards: two share a new bench-runner, so that ids and sweeps can mix them up, the third has an old one; a clock that passes the TTL and then the shard timeout; one restart |
| `shard_failed_job` | violation of `FailedJobEndsShard` | as `shards` |
| `log_tail` | `PrintedInOrder`, `HandledTailIsPrinted`, `DoneLogIsComplete` | five lines of four texts, a buffer of three and a window of two: repeats, overflow and lines no window shows |
| `publisher` | `BoundedConcurrency`, `NoIdleWaiter`, `ReturnsSettled`, `SerialInOrder`, `Returns` | four messages, a pool of two: the pool fills twice over |
| `uws_client` | `OneConnection`, `RecordedInOrder`, `QuietAfterClose`, `Resubscribes` | see `MCReconnectingWs.cfg`: enough faults for a second connection to fail too |
| `jitter_client` | `RecordedOnce`, `ResumesWithinJitters`, `EndsClean`, `Returns` | three messages, two jitters, two faults: a resume with something to replay; a fresh socket that hangs, is given up on and connects beside the next |
| `avalanche` | `CountsServerDrops`, `ReconnectedAreBack`, `RecoveryCoversNinetyFive`, `Terminates` | two clients, three faults: both restart and one fails again; 95% of two are both |
| `deploy_impact` | `OneCycle`, `OneNodeAtATime`, `Rejoined`, `OutageIsCounted`, `Terminates` | two nodes, three messages and three instants: one before an outage, one in it, one after; one fault. One client is enough: clients share only the counters, and the driver does not know them |
| `rebaseline` | `CountedTestsResolved`, `OverlapIsOfAFailure`, `ParamsAreRead`, `OnlyMetricsAreMissing`, `FallenRateFailsTheRun`, `Terminates` | three filters, which select six tests of all four modes, or none; two bench-runners, one old; one restart; a poll deadline and a redeploy one tick away, so that each comes before and after the others |
| `multi_run` | `ExitZeroMeansNoGap`, `MergedSpansSamples`, `MergedIsOfDoneShards` | two shards of one client, one fault. The jitter test has three messages, of which a sample keeps two: a message that a client misses in the middle, a shard given up while it goes on. The throughput tests have one: their shards are never merged (see below), so that the three properties are about the jitter test |
| `throughput_samples` | violation of `ShardsIncludeSamples` | as `multi_run`, two messages |
| `whispers` | `ReceivedWithinExpected`, `PeersAreClients` | two shards of one client in one room, two whispers each, two faults: a client breaks, comes back and breaks again, or both are away |

`TypeOK` of each module (`TailTypeOK`, `PublisherTypeOK`, `MultiTypeOK`) is its type invariant, and is proved for
every value of the constants (`TypeCorrect`, `TailTypeCorrect`, `PublisherTypeCorrect`, `MultiTypeCorrect`).

The two violations are disagreements between the code and what is written about it:

1. **A failed job does not end its shard.** The poll's answer for a failed job contains `error`, and
   `"error" in r` (`shard-coordinator.ts:232`) is tested before the status. The shard is polled until its
   timeout, and reported as timed out. `bench/rebaseline.ts:520`, with its own loop, does it right.
2. **throughput-multi never gets samples.** It sends `samplesCap` and `interval`
   (`throughput-multi.ts:132-143`), the endpoint reads neither (`bench-runner/server.ts:541-557`), and the
   runners summarize without a cap. Every merge of a done shard throws; the driver catches that and exits
   with 0, whatever was lost.

More divergences were met while modelling. The models follow the code; no run is spent on these:

- `jitter-uws.ts:92` leaves the counting of a failed connect to the `close` listener (95-98), which does not
  count.
- `stats.ts:13` says that `everConnected` is set by the client's first connect; the fresh socket of
  `jitter-runners.ts:310` does not set it, so that messages are counted of a client that `connectedClients`
  leaves out.
- `bench-runner/server.ts:331` says that the avalanche returns once 95% are back; `avalanche-runner.ts:95`
  counts events, so that a client that flaps, or whose first connect is late, is counted in another one's place.
- The merged `deliveryRateOfConnectedPct` (`stats.ts:286-292`) divides by the highest number seen, that of one
  shard (`stats.ts:152-160`) by the messages sent.
- `rebaseline.ts:22` says that a drift sets the exit code, line 599 sets it for a regression or a failure only.
  When every shard of an idle test failed, the totals are 0, which is a drift, and the exit code 0.
- `rebaseline.ts:502` takes a poll that fails for transient; a fetch that rejects (500) ends the test. The
  redeploy's timer (440) is not cancelled when its test ends, and may fire in the next one's turn.
- The manifest's `throughput-socketio-csr` addresses the plain Socket.io service.
- `throughput.ts:18-24` and `356-358` say that `serial` is published from inside the server; the runners at
  575-602 and 676-697 publish it over HTTP.
- `whispers-multi.ts:169-172` announces the clients of all shards; line 186 counts those of the shards that
  are done. Whispers of a failed shard are received by the others all the same, and nothing makes the shards
  start whispering together, so that those of a shard that is early are lost on the others.
- A Socket.io whispers client that reconnects never joins its room again.
- A merge that throws in `jitter-multi` is not caught, other than in `throughput-multi`.

Deadlock is checked in `shards`, `publisher`, `jitter_client`, `avalanche`, `deploy_impact`, `rebaseline`,
`multi_run` and `whispers`, where the end of the program is an explicit stuttering step (`Finished`,
`Exited`). It is not in `log_tail`, which stops when its bound of lines is written and the job done, nor in
`uws_client`, which stops when the client is closed.

### Bounds

Bounds on the environment are constants: `MaxRestarts`, `MaxClock`, `MaxFaults`, `MaxJitters`, `MaxWritten`, `Total`, `TotalMessages`,
`MaxSeq`, `MaxWhispers`, `Msgs`, `TotalMsgs`. They limit how often something outside goes wrong and how long a behaviour is, never what the code
does. Constants of the code (timeouts, sizes of buffers, concurrency) are parameters and get small
values that keep their order (`PollDeadline`, `RampTime`). `SamplesCap` is at least 2, because
`downsampleSorted` divides by one less.

### Fairness

Weak fairness of the code's own steps: the event loop runs a continuation that is ready and a timer
that is due. A fetch comes back in the end, as undici gives up after `headersTimeout` and `bodyTimeout`
(`shard-coordinator.ts:26`; 5 minutes by default elsewhere). The clock advances. In `ReconnectingWs`
also a handshake ends and a frame arrives on a connection that stays; without that no client ever
resubscribes, and a connection that does not stay is `Fails`, which is bounded. No fairness makes a
bench end, a job settle, the network fail, an operator restart a server or a client come back.

`Rebaseline` assumes that its program runs on, that a fetch comes back, that `runShards` returns (which is
`Terminates` of `ShardCoordinator`) and that time passes; no bench has to end. `MultiRun` and `Whispers` are
checked for safety only and state no fairness: what makes them end is that of their parts.

`JitterClient` assumes less: only the test's own continuations and the publisher go on, and no connection
attempt ever has to end. `DeployImpact` likewise: the runner, the driver and a fetch go on; a hold or a poll
ends because its time passes, no deployment has to end and no client to come back.

`Resubscribes` names its two exceptions: a client that was closed, and one whose handshake got an HTTP
answer. The second is a real one: that client is stuck until the jitter loop severs it.

## 4. Proofs

All theorems hold for every value of the constants that satisfies the modules' assumptions (numbers
are numbers, `RunnerOf` is a function to runners, `None` is no number and no id). `ManifestAssumption` is
about the table of tests, a definition, and TLC evaluates it on the whole of it.

**DriverProofs, the coordinator.** `TypeOK` alone is not inductive: that a reply's body fits the question
needs `Protocol`, which relates `phase`, `status`, `pc` and `body` (a poll is in flight only for a
running shard in a cycle; nothing is in flight between rounds). From it follow `TypeCorrect` and
`FinalOutcomes`: an answer is applied only to a shard that is pending or running. `DoneOwn` needs
`Ownership`: a job that is in a map as done belongs to a bench that resolved, the id a shard polls is,
in its own process's map, either absent or its own job, and an answer under way carries the shard's own
result. It rests on ids never being used twice. `BenchesAreListed` is inductive beside these.
`Refinement` maps each step to one of `ShardRun` or to a stutter, under the same invariant; the
answers of several shards are handled one at a time, and so settle one at a time, except a timeout,
which settles all the running shards at once as one abstract step.

**DriverProofs, the log.** `PrintedInOrder` needs the invariant that the buffer, and each tail taken from it,
is an interval of line numbers, that a tail under way does not end before the last one handled, and
that nothing after that one's end was printed. The heart is `FreshIsNew`: if the last line seen, `l`,
is still in the new tail, then the last occurrence of its text is at `l` or after it, so what is printed
is later than `l`; and if its text is not in the tail, then `l` has left it, and all of it is later.
What is not missed needs one more fact, `FullTails`: each tail is as long as the buffer, the question and the
log allow. A later tail then never begins before an earlier one, so that the lines up to the one that was
found were all in the tail handled before (`KnownLines`), and `NothingShownIsLost` follows by induction;
while the log fits one poll a tail is the whole log, which with `Settled` gives `WholeLogPrinted`.

**StreamProofs, the publisher.** `PoolCounts` says that the counter is the number of open fetches plus the place
just granted, and is full while the loop waits; the bound, the absence of a lost wakeup and
`ReturnsSettled` follow. `InOrder` adds that what the server has handled and what is on the wire are
ordered as long as no fetch gave up.

**StreamProofs, the client.** One inductive invariant: at most one socket is not closed, and it is the last;
a timer excludes it; after `close()` there is no timer and no live socket. With it come the bounds on the
wires: on the last socket the messages are in order, after all that was received and not after `lastSeq`;
the other wires are empty.

**JitterClientProofs.** `Places` says that the socket in use is the only one that receives or may come
to: while the loop replaces it, it is closed, and a fresh socket that was given up on never joins.
`WireInOrder` says that what is on the way is later than all that was received, so that a message
handled is a new one; `RecordedOnce` and, with `done`, `EndsClean` follow. `Accounts` says that the next
resume is paid for: a connection that is closed, or a later one that is still opening, has cost a
jitter counted or a failure that no resume counted yet stands for.

**AvalancheProofs.** `CountersCountClients` is about counters that know no clients. `Clock` ties the
deadlines to the clock and says that a restart is detected exactly when something was counted. `Causes`
says who can have been dropped, and that a client that was connected once and not dropped is up and not back.
`Counters` then holds the two cardinalities: the connects of the ramp are the clients connected once while
nobody flapped, and the reconnects are those who are back while everybody goes through one cycle.
`DropsAreCounted` needs no such condition: the Socket.io listener counts connections, and each step adds as many
pairs of a client and a number to `ServerDrops` as it adds to the counter. For `RecoveryTimeCovers`, `Recovery` says that
the times pushed so far are not after the present one, so that when the loop sees 95% of the
reconnects, all of them lie within the time it then writes down (`BackWithin`); `reconnectTimes` is never sorted
or cut, and a prefix of a sequence never has more members below a bound than the whole.

**DeployImpactProofs.** `DriverPlace` ties the driver's place to the nodes: those after its own are still
old, and one that is being rebuilt is its own, unless a poll gave up; that is `OneAtATime`. `Presence`
relates a client's connection to what its handlers recorded, from which `BackInTheRoom` follows. `Bounced`
says that without failures a client that lost its connection was at a node that has been redeployed, and
stays at that node, so that it is not bounced twice. For `NoLossIsMissed`, `HeardNothing` says that nothing is received
between a client's first disconnect and its return, and `OutageSpan` that its outage was published in that
time; so the gap that the code draws, from the last message before to the first after, is at least as
wide (`GapIsWide`), and what was published in it and not received is counted.

**RebaselineProofs.** Of the manifest they use `ManifestAssumption` only: ids are distinct and the tests
that fan out are the idle ones. `Report` is what every end of a turn has in common, and `StepCases` sorts the
steps: a turn ends, goes on, the program starts or exits, the job maps change, or neither does. `Turns`
says that the tests to come have no outcome, so that a bench that has not begun begins once;
`JobsAreTrue` that a job tells what its bench did and is its bench's only one; `Answers` that the id
polled names no other test's job, now or later, as ids are not used twice, and that a result under way is that of the
current test's bench, which resolved. With them `Benches` is inductive, of which `OwnResults` and
`OverlapAfterFailure` are two readings; `Fallen` says that a test whose rate fell is reported as a
regression, whatever else is wrong with it, and stays reported until the exit (`FallenFails`).
`SentIsRead` and `OnlyMetricsMissing` are about the manifest as it stands: its entries are taken apart one
by one against the table of the endpoint they address, and `Requests` says that what is under way is the current
test's entry with what the mode adds. No selection of tests and no answer can make them fail.

**ResultsProofs.** The lemmas about statistics that the next two rest on, for every set and function. The
library's induction theorems cannot be used here, so what would be an induction is a least counterexample:
among the sets for which a sum depends on the order, one of least cardinality loses an element and is
none. In this way a sum of sums is the sum over the union (`TotalOfParts`), a sum of sizes is the size of the disjoint
union, and sorting by rank puts each sample at the number of smaller ones (`SortPlaces`), so that the first
and last are the least and the greatest. `downsampleSorted` keeps both (`DownsampleIs`), for any cap of two or more.
`Results` defines `Sorted` by rank, `Joined` as a fold and `WithSamples` as a function because the prover does not
unfold TLC's `SortSeq` and `@@`.

**DriverProofs, the merge.** `MultiInv` has five parts. `StagesTypeOK` says where benches and driver are.
`WiresAreOwn` says that what is on its way to a client is from its own runner, which is what `AudienceIsOwn`
finds of every dispatch: rooms and streams are named after the shard. `CountsAreOwn` says that what a client heard is, number by
number, what its `ClientStats` has, and that none is above `highestSeq`. `ReturnedAtRest` says that the summary of a bench that returned is
`summarize` of its clients as they are now, whatever the other benches do (`ReturnedIsFrozen`);
`ReportIsMerge` that the report is the merge of those summaries, and that exit code 0 follows a merge without a
loss. With them `ExitZeroIsGapFree` is: a sum of losses that is 0 has no term above 0, and a client whose set
of numbers is as large as its highest number has all of them. `MergedCounts` adds clients up per shard and over shards, and
`MergedExtremes` follows the least and the greatest sample through sorting, thinning out, joining and sorting again.
They assume that the benches are finitely many: a list of shards.

**WhispersProofs.** `Counted` and `Merged` give `PeersCounted`: a client is counted when it enters
`connected`, which it leaves never. `NoSurplus` needs a bound on what clients receive that survives breaks, joins
and flushes: `Whispered` says that what a client received or has under way is no more than what left the
others of its room, over all shards. At the end this is counted twice (`DoubleCounting`): added up at the
receivers it is the whispers of each sender times its peers, and with rooms of one size each client has as
many peers (`PeersOfAClient`), which is the mean that the driver computes. Its conditions are those of the
run's property: without them the mean of the driver is not the number of peers, which is the code's own limit.

Left to TLC: liveness (`Terminates`, `Returns`, `Resubscribes`) and everything under fairness, whose
ENABLED the prover does not handle, and the two violations. Every safety property of a passing run is a theorem.
`ShardRun`'s part of `Refinement` is its safety part, which is all it has.

## 5. Abstractions

Durations; the values of latencies (but for their order in `MultiRun`, where samples are thinned out
and merged) and of parameters; the wording of logs, errors and URLs; authentication; memory
sampling. Clocks are a counter, shared by driver and runners, because the code compares only times of
one process. Reconnect delays and poll periods are left out: whatever is scheduled may happen at any
later time, which covers every delay. A collision of two job ids (48 random bits) is left out.
Messages are their numbers.

## 6. Plan

What is left, in order of weight:

1. `StandaloneDeploy`: the two runners whose publisher is a service of its own, that publisher with its
   restart, and the sequence that starts again at 1, which makes distinct numbers the wrong thing to count; the
   runner's second return of a client, which does not join again.
2. A publisher of the `nats` kind in the detail of `Publisher`, and a refinement that shows `StreamBench`'s
   publisher to be an abstraction of it.
3. Theorems about the abstractions of `Rebaseline` and `MultiRun`: that the contract of `runShards` which they
   state is the one that `Refinement` proves.

## 7. Not modelled

- The standalone deploy impact runners and `standalone-publisher/server.ts`: planned, see above.
- The idle runner: a ramp, a wait and four counters. Its parameters and fields are in `BenchApi`, its
  baselines in `Manifest`; of the counters there is nothing to say that their assignments do not.
- `avalanche-multi*.ts` and `idle-multi.ts`: they add up and print what `runShards` returns.
- The traced AnyCable jitter and the latency traces: what they compute are durations.
- `/bench-benchi-anycable`, which runs a binary.
- The Redis adapters of the Socket.io cluster: a pair of nodes is one server in `StreamBench`.
- `/publish` of the servers, which nothing calls, and their body readers.
- Charts, CSV output, `rebaseline-history.ts`, the metrics scripts and the GraphQL requests of the Railway API:
  I/O and formatting.
- The entry points under `bench/` that parse their environment and call one runner.
- The libraries (socket.io, ws, uWebSockets.js, anycable-go, undici), of which the modules state what the code
  relies on, mapped as external.
