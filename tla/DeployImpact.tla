---------------------------- MODULE DeployImpact ----------------------------
(***************************************************************************)
(* The rolling deploy of a Socket.io cluster under load:                   *)
(* runDeployImpactSocketio (backend/src/lib/deploy-impact-runner.ts) with  *)
(* its publisher and its clients, and the driver                           *)
(* (backend/src/bench/deploy-impact-socketio-redis.ts) that redeploys one  *)
(* node after the other.                                                   *)
(*                                                                         *)
(* A redeploy is the platform's: a new instance is built, replaces the old *)
(* one, and the old one's connections die.  The Redis adapter takes every  *)
(* broadcast to every node.  Durations are left out: whoever waits may go  *)
(* on at any time.  cycles and outage are history.                         *)
(***************************************************************************)
EXTENDS Integers, Sequences, FiniteSets, FiniteSetsExt

CONSTANTS
  N,           \* p.n
  NumNodes,    \* RAILWAY_SERVICES
  PerNode,     \* whether serverUrls has a URL for each, or one that is balanced
  MaxSeq,      \* bound: messages published before the runner stops
  MaxClock,    \* bound: Date.now()
  MaxFaults    \* bound: connections, publishes and redeploys that fail

ASSUME DeployImpactAssumption ==
  /\ N \in Nat
  /\ NumNodes \in Nat \ {0}
  /\ PerNode \in BOOLEAN
  /\ {MaxSeq, MaxFaults} \subseteq Nat
  /\ MaxClock \in Nat \ {0}

Clients == 0..(N - 1)
Nodes == 0..(NumNodes - 1)

VARIABLES
  now,           \* Date.now(); 0 is "never"
  pc,            \* where the runner is
  conn, node,    \* each client's connection, and the node it is to
  joining, room, \* clients whose "join" is under way, or handled
  wire,          \* the messages on their way to each client
  initialConnectComplete, disconnectedAt, reconnectedAt, received,  \* ClientState
  firstDisconnectAt, reconnectedCount, allReconnectedAt,
  publishedAt,   \* publishedAt[seq], in the order of publishing
  request,       \* the publish under way
  driver, i,     \* where trigger() is, and its node
  deploy,        \* what the platform says of each node's new deployment
  timedOut,      \* whether a deployment was not waited for to its end
  cycles,        \* how often each client lost its connection
  outage,        \* what was published while a client was away for the first time
  faults

connVars == <<conn, node, joining, room, wire>>
clientVars == <<initialConnectComplete, disconnectedAt, reconnectedAt, received>>
counters == <<firstDisconnectAt, reconnectedCount, allReconnectedAt>>
driverVars == <<driver, i, deploy, timedOut>>
history == <<cycles, outage>>
vars == <<now, pc, connVars, clientVars, counters, publishedAt, request, driverVars,
          history, faults>>

publishSeq == Len(publishedAt)
Times == 0..MaxClock
Seqs == 1..MaxSeq
initiallyConnected == Cardinality(initialConnectComplete)

TypeOK ==
  /\ now \in 1..MaxClock
  /\ pc \in {"ramp", "publish", "stop", "settle", "done"}
  /\ conn \in [Clients -> {"off", "up", "dead"}]
  /\ node \in [Clients -> Nodes]
  /\ joining \subseteq Clients
  /\ room \subseteq Clients
  /\ DOMAIN wire = Clients /\ \A c \in Clients : wire[c] \in Seq(Seqs)
  /\ initialConnectComplete \subseteq Clients
  /\ disconnectedAt \in [Clients -> Times]
  /\ reconnectedAt \in [Clients -> Times]
  /\ DOMAIN received = Clients
  /\ \A c \in Clients : \E S \in SUBSET Seqs : received[c] \in [S -> Times]
  /\ firstDisconnectAt \in Times
  /\ reconnectedCount \in 0..N
  /\ allReconnectedAt \in Times
  /\ publishedAt \in Seq(Times) /\ publishSeq <= MaxSeq
  /\ request \in {"none", "sent", "answered"}
  /\ driver \in {"wait", "redeploy", "poll", "buffer", "finished", "failed"}
  /\ i \in Nodes
  /\ deploy \in [Nodes -> {"old", "building", "success", "failed"}]
  /\ timedOut \in BOOLEAN
  /\ cycles \in [Clients -> Nat]
  /\ outage \in [Clients -> SUBSET Seqs]
  /\ faults \in 0..MaxFaults

Init ==
  /\ now = 1
  /\ pc = "ramp"
  /\ conn = [c \in Clients |-> "off"]
  /\ node = [c \in Clients |-> 0]
  /\ joining = {}
  /\ room = {}
  /\ wire = [c \in Clients |-> <<>>]
  /\ initialConnectComplete = {}
  /\ disconnectedAt = [c \in Clients |-> 0]
  /\ reconnectedAt = [c \in Clients |-> 0]
  /\ received = [c \in Clients |-> <<>>]
  /\ firstDisconnectAt = 0
  /\ reconnectedCount = 0
  /\ allReconnectedAt = 0
  /\ publishedAt = <<>>
  /\ request = "none"
  /\ driver = "wait"
  /\ i = 0
  /\ deploy = [n \in Nodes |-> "old"]
  /\ timedOut = FALSE
  /\ cycles = [c \in Clients |-> 0]
  /\ outage = [c \in Clients |-> {}]
  /\ faults = 0

OneFault == faults < MaxFaults /\ faults' = faults + 1

----------------------------------------------------------------------------
(* The clients of the runner. *)

\* The library always connects to the URL it was given.
UrlNodes(c) == IF PerNode THEN {c % NumNodes} ELSE Nodes

\* A reconnect that is counted, but does not join again.
JoinsAgain_Not == FALSE

JoinsAgain == TRUE

\* "connect" for the first time.
InitialConnect(c) ==
  /\ c \notin initialConnectComplete
  /\ initialConnectComplete' = initialConnectComplete \cup {c}
  /\ joining' = joining \cup {c}
  /\ UNCHANGED <<reconnectedAt, counters>>

FirstReturn(c) == disconnectedAt[c] > 0 /\ reconnectedAt[c] = 0

\* "connect" after the first disconnect, and 95% of the clients are back.
Reconnect(c) ==
  /\ c \in initialConnectComplete
  /\ FirstReturn(c)
  /\ reconnectedAt' = [reconnectedAt EXCEPT ![c] = now]
  /\ reconnectedCount' = reconnectedCount + 1
  /\ joining' = IF JoinsAgain THEN joining \cup {c} ELSE joining
  /\ allReconnectedAt' =
       IF allReconnectedAt = 0 /\ reconnectedCount' >= (initiallyConnected * 95) \div 100
       THEN now ELSE allReconnectedAt
  /\ UNCHANGED <<initialConnectComplete, firstDisconnectAt>>

\* "connect" after a later one, of which nothing is made.
LaterConnect(c) ==
  /\ c \in initialConnectComplete
  /\ ~FirstReturn(c)
  /\ UNCHANGED <<initialConnectComplete, joining, reconnectedAt, counters>>

Connects(c) ==
  /\ pc # "done"
  /\ conn[c] = "off"
  /\ conn' = [conn EXCEPT ![c] = "up"]
  /\ \E n \in UrlNodes(c) : node' = [node EXCEPT ![c] = n]
  /\ InitialConnect(c) \/ Reconnect(c) \/ LaterConnect(c)
  /\ UNCHANGED <<now, pc, room, wire, disconnectedAt, received, publishedAt, request,
                 driverVars, history, faults>>

AlreadyCounted(c) == disconnectedAt[c] > 0

\* "disconnect"
Disconnects(c) ==
  /\ pc # "done"
  /\ conn[c] = "dead"
  /\ conn' = [conn EXCEPT ![c] = "off"]
  /\ IF AlreadyCounted(c)
     THEN UNCHANGED <<disconnectedAt, firstDisconnectAt>>
     ELSE /\ disconnectedAt' = [disconnectedAt EXCEPT ![c] = now]
          /\ firstDisconnectAt' = IF firstDisconnectAt = 0 THEN now ELSE firstDisconnectAt
  /\ cycles' = [cycles EXCEPT ![c] = @ + 1]
  /\ UNCHANGED <<now, pc, node, joining, room, wire, initialConnectComplete,
                 reconnectedAt, received, reconnectedCount, allReconnectedAt, publishedAt,
                 request, driverVars, outage, faults>>

\* "message"
Message(c) ==
  /\ pc # "done"
  /\ wire[c] # <<>>
  /\ wire' = [wire EXCEPT ![c] = Tail(@)]
  /\ received' = [received EXCEPT ![c] =
       [s \in DOMAIN received[c] \cup {Head(wire[c])} |->
          IF s = Head(wire[c]) THEN now ELSE received[c][s]]]
  /\ UNCHANGED <<now, pc, conn, node, joining, room, initialConnectComplete,
                 disconnectedAt, reconnectedAt, counters, publishedAt, request, driverVars,
                 history, faults>>

----------------------------------------------------------------------------
(* The nodes and the network. *)

\* The connections of these clients die, and with them their place in the room.
Die(C) ==
  /\ conn' = [c \in Clients |-> IF c \in C /\ conn[c] = "up" THEN "dead" ELSE conn[c]]
  /\ joining' = joining \ C
  /\ room' = room \ C
  /\ wire' = [c \in Clients |-> IF c \in C THEN <<>> ELSE wire[c]]

JoinArrives(c) ==
  /\ c \in joining
  /\ joining' = joining \ {c}
  /\ room' = room \cup {c}
  /\ UNCHANGED <<now, pc, conn, node, wire, clientVars, counters, publishedAt,
                 request, driverVars, history, faults>>

Breaks(c) ==
  /\ OneFault
  /\ conn[c] = "up"
  /\ Die({c})
  /\ UNCHANGED <<now, pc, node, clientVars, counters, publishedAt, request,
                 driverVars, history>>

\* The new instance takes over.
Swapped(n) ==
  /\ deploy[n] = "building"
  /\ deploy' = [deploy EXCEPT ![n] = "success"]
  /\ Die({c \in Clients : node[c] = n})
  /\ UNCHANGED <<now, pc, node, clientVars, counters, publishedAt, request, driver, i,
                 timedOut, history, faults>>

\* The new instance does not come up, and the old one stays.
DeployFails(n) ==
  /\ OneFault
  /\ deploy[n] = "building"
  /\ deploy' = [deploy EXCEPT ![n] = "failed"]
  /\ UNCHANGED <<now, pc, connVars, clientVars, counters, publishedAt, request,
                 driver, i, timedOut, history>>

\* POST /_broadcast at the first node, and the adapter.
Broadcast ==
  /\ request = "sent"
  /\ request' = "answered"
  /\ wire' = [c \in Clients |-> IF c \in room THEN Append(wire[c], publishSeq) ELSE wire[c]]
  /\ UNCHANGED <<now, pc, conn, node, joining, room, clientVars, counters,
                 publishedAt, driverVars, history, faults>>

PublishFails ==
  /\ OneFault
  /\ request = "sent"
  /\ request' = "answered"
  /\ UNCHANGED <<now, pc, connVars, clientVars, counters, publishedAt, driverVars,
                 history>>

TimePasses ==
  /\ pc # "done"
  /\ now < MaxClock
  /\ now' = now + 1
  /\ UNCHANGED <<pc, connVars, clientVars, counters, publishedAt, request,
                 driverVars, history, faults>>

----------------------------------------------------------------------------
(* The runner: ramp, publish and hold, stop, settle, return. *)

RampEnds ==
  /\ pc = "ramp"
  /\ pc' = "publish"
  /\ UNCHANGED <<now, connVars, clientVars, counters, publishedAt, request,
                 driverVars, history, faults>>

Away(c) == c \in initialConnectComplete /\ conn[c] = "off" /\ cycles[c] = 1

\* One turn of the publisher's loop, up to its await.
PublishNext ==
  /\ pc = "publish"
  /\ request = "none"
  /\ publishSeq < MaxSeq
  /\ publishedAt' = Append(publishedAt, now)
  /\ request' = "sent"
  /\ outage' = [c \in Clients |-> IF Away(c) THEN outage[c] \cup {publishSeq'} ELSE outage[c]]
  /\ UNCHANGED <<now, pc, connVars, clientVars, counters, driverVars, cycles, faults>>

PublishReturns ==
  /\ request = "answered"
  /\ request' = "none"
  /\ UNCHANGED <<now, pc, connVars, clientVars, counters, publishedAt, driverVars,
                 history, faults>>

\* The holds before and after the deploy end.
StopPublisher ==
  /\ pc = "publish"
  /\ pc' = "stop"
  /\ UNCHANGED <<now, connVars, clientVars, counters, publishedAt, request,
                 driverVars, history, faults>>

AwaitPublisher ==
  /\ pc = "stop"
  /\ request = "none"
  /\ pc' = "settle"
  /\ UNCHANGED <<now, connVars, clientVars, counters, publishedAt, request,
                 driverVars, history, faults>>

\* The analysis, and the tear down, after which no handler does anything.
Return ==
  /\ pc = "settle"
  /\ pc' = "done"
  /\ allReconnectedAt' = IF allReconnectedAt = 0 THEN now ELSE allReconnectedAt
  /\ conn' = [c \in Clients |-> "off"]
  /\ wire' = [c \in Clients |-> <<>>]
  /\ joining' = {}
  /\ room' = {}
  /\ UNCHANGED <<now, node, clientVars, firstDisconnectAt, reconnectedCount,
                 publishedAt, request, driverVars, history, faults>>

\* A client's gap, from its last message before to its first message after.
Received(c) == {received[c][s] : s \in DOMAIN received[c]}

Before_Any(c) == Received(c)

Before(c) == {t \in Received(c) : t < disconnectedAt[c]}

After(c) == {t \in Received(c) : t > disconnectedAt[c]}

GapStart(c) == IF Before(c) = {} THEN disconnectedAt[c] ELSE Max(Before(c))

GapEnd(c) ==
  IF After(c) # {} THEN Min(After(c))
  ELSE IF reconnectedAt[c] > 0 THEN reconnectedAt[c] ELSE now

Lost(c) ==
  {s \in 1..publishSeq :
     /\ disconnectedAt[c] > 0
     /\ publishedAt[s] \in GapStart(c)..GapEnd(c)
     /\ s \notin DOMAIN received[c]}

----------------------------------------------------------------------------
(* The driver: trigger(). *)

DriverUnchanged ==
  UNCHANGED <<now, pc, connVars, clientVars, counters, publishedAt, request, history>>

FirstRedeploy ==
  /\ driver = "wait"
  /\ driver' = "redeploy"
  /\ DriverUnchanged /\ UNCHANGED <<i, deploy, timedOut, faults>>

\* All nodes at once: the deployment is not waited for.
AfterRedeploy_NoWait == IF i < NumNodes - 1 THEN "buffer" ELSE "finished"

AfterRedeploy == IF i < NumNodes - 1 THEN "poll" ELSE "finished"

\* `railway redeploy`, which may fail.
Redeploy ==
  /\ driver = "redeploy"
  /\ driver' = AfterRedeploy
  /\ \/ deploy' = [deploy EXCEPT ![i] = "building"] /\ UNCHANGED faults
     \/ OneFault /\ UNCHANGED deploy
  /\ DriverUnchanged /\ UNCHANGED <<i, timedOut>>

\* waitForNewSuccessfulDeployment returns, throws, or gives up.
PollSucceeds ==
  /\ driver = "poll"
  /\ deploy[i] = "success"
  /\ driver' = "buffer"
  /\ DriverUnchanged /\ UNCHANGED <<i, deploy, timedOut, faults>>

PollThrows ==
  /\ driver = "poll"
  /\ deploy[i] = "failed"
  /\ driver' = "failed"
  /\ DriverUnchanged /\ UNCHANGED <<i, deploy, timedOut, faults>>

\* The platform is polled for as long as it takes.
PollIsOver_Never == FALSE

PollIsOver == driver = "poll"

PollTimesOut ==
  /\ PollIsOver
  /\ driver' = "buffer"
  /\ timedOut' = TRUE
  /\ DriverUnchanged /\ UNCHANGED <<i, deploy, faults>>

\* A node whose deployment was not waited for to its end is tried again.
NextNode_Retries == IF deploy[i] = "success" THEN i + 1 ELSE i

NextNode == i + 1

BufferEnds ==
  /\ driver = "buffer"
  /\ driver' = "redeploy"
  /\ i' = NextNode
  /\ DriverUnchanged /\ UNCHANGED <<deploy, timedOut, faults>>

----------------------------------------------------------------------------

DriverEnded == driver \in {"finished", "failed"}

Finished ==
  /\ pc = "done"
  /\ DriverEnded
  /\ UNCHANGED vars

Runner == RampEnds \/ PublishNext \/ PublishReturns \/ StopPublisher \/ AwaitPublisher \/ Return

Trigger == FirstRedeploy \/ Redeploy \/ PollSucceeds \/ PollThrows \/ PollTimesOut \/ BufferEnds

Fetch == Broadcast \/ PublishFails

Client(c) == Connects(c) \/ Disconnects(c) \/ Message(c)

Cluster ==
  \/ \E c \in Clients : JoinArrives(c) \/ Breaks(c)
  \/ \E n \in Nodes : Swapped(n) \/ DeployFails(n)
  \/ TimePasses

Next ==
  \/ \E c \in Clients : Client(c)
  \/ Runner \/ Trigger \/ Fetch \/ Cluster
  \/ Finished

\* The event loops of the runner and the driver go on, and a fetch comes back.
\* Holds that end, and polls that give up, do so because time passes.
Fairness == WF_vars(Runner) /\ WF_vars(Trigger) /\ WF_vars(Fetch)

Spec == Init /\ [][Next]_vars /\ Fairness

----------------------------------------------------------------------------
(* Properties. *)

\* With one URL per node, each node is redeployed once, so that a client loses its
\* connection once but for the network: "exactly one disconnect-reconnect cycle",
\* on which the runner's accounting rests.
OneCycle == PerNode /\ faults = 0 => \A c \in Clients : cycles[c] <= 1

\* No two nodes are being redeployed, unless a poll gave up: "otherwise we'd have
\* zero serving capacity briefly".
OneNodeAtATime ==
  timedOut \/ \A m, n \in Nodes : deploy[m] = "building" /\ deploy[n] = "building" => m = n

\* A client that is connected, and went away once at most, is or will be in the room.
Rejoined ==
  \A c \in Clients : conn[c] = "up" /\ cycles[c] <= 1 => c \in room \cup joining

\* What was published while a client was away for the first time, and never reached
\* it, is counted as lost, however the gap was drawn.
OutageIsCounted ==
  pc = "done" => \A c \in Clients : outage[c] \ DOMAIN received[c] \subseteq Lost(c)

\* The bench and the driver end, whatever failed.
Terminates == <>(pc = "done" /\ DriverEnded)

=============================================================================
