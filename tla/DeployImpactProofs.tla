------------------------ MODULE DeployImpactProofs ------------------------
(***************************************************************************)
(* Theorems about a rolling deploy, for any number of clients, nodes,      *)
(* messages and failures: nodes are redeployed one at a time, each client  *)
(* once, clients that come back are in the room, and what they missed is   *)
(* counted.                                                                *)
(***************************************************************************)
EXTENDS DeployImpact, FiniteSetTheorems, SequenceTheorems, WellFoundedInduction, TLAPS

\* The nodes after the driver's are still old; between two polls nothing is built.
DriverPlace ==
  /\ \A n \in Nodes : n > i => deploy[n] = "old"
  /\ driver \in {"wait", "redeploy"} => deploy[i] = "old"
  /\ driver \in {"poll", "buffer"} => i < NumNodes - 1
  /\ \/ timedOut
     \/ \A n \in Nodes : deploy[n] = "building" => n = i /\ driver \in {"poll", "finished"}

\* What a client's connection says of what its handlers have recorded.
Presence(c) ==
  /\ conn[c] # "up" => c \notin joining \cup room /\ wire[c] = <<>>
  /\ conn[c] # "off" \/ cycles[c] > 0 => c \in initialConnectComplete
  /\ conn[c] = "off" /\ c \in initialConnectComplete => cycles[c] > 0 \/ pc = "done"
  /\ conn[c] = "off" /\ cycles[c] = 1 => reconnectedAt[c] = 0 \/ pc = "done"
  /\ conn[c] = "up" /\ cycles[c] <= 1 => c \in room \cup joining
  /\ IF cycles[c] = 0 THEN disconnectedAt[c] = 0 /\ reconnectedAt[c] = 0
     ELSE disconnectedAt[c] > 0 /\ (conn[c] # "off" => reconnectedAt[c] > 0)

\* Without failures, who lost its connection was at a node that is redeployed.
Bounced(c) ==
  PerNode /\ faults = 0 =>
    /\ conn[c] # "off" => node[c] = c % NumNodes
    /\ cycles[c] + (IF conn[c] = "dead" THEN 1 ELSE 0) <= 1
    /\ cycles[c] > 0 \/ conn[c] = "dead" => deploy[c % NumNodes] = "success"

\* Nothing is received between a client's first disconnect and its return, and what
\* is in its outage was published between them.
HeardNothing(c) ==
  cycles[c] > 0 =>
    /\ disconnectedAt[c] <= now
    /\ reconnectedAt[c] > 0 => disconnectedAt[c] <= reconnectedAt[c]
    /\ \A s \in DOMAIN received[c] :
         \/ received[c][s] <= disconnectedAt[c]
         \/ reconnectedAt[c] > 0 /\ reconnectedAt[c] <= received[c][s]

OutageSpan(c) ==
  \A s \in outage[c] :
    /\ cycles[c] > 0
    /\ s \in 1..publishSeq
    /\ disconnectedAt[c] <= publishedAt[s]
    /\ reconnectedAt[c] > 0 => publishedAt[s] <= reconnectedAt[c]

Past ==
  /\ \A s \in 1..publishSeq : publishedAt[s] <= now
  /\ \A c \in Clients : reconnectedAt[c] <= now
  /\ \A c \in Clients : \A s \in DOMAIN received[c] : received[c][s] <= now

Returned == {c \in Clients : reconnectedAt[c] > 0}

Counted == reconnectedCount = Cardinality(Returned)

\* A request under way carries the last message.
Requested == request = "sent" => publishSeq > 0

DriverInv == TypeOK /\ DriverPlace /\ Requested

ClientInv == DriverInv /\ \A c \in Clients : Presence(c) /\ Bounced(c)

Inv ==
  /\ ClientInv
  /\ Counted
  /\ Past
  /\ \A c \in Clients : HeardNothing(c) /\ OutageSpan(c)

----------------------------------------------------------------------------
\* Every nonempty set of naturals has a least element, and a bounded one a greatest.
LEMMA Least ==
  ASSUME NEW T \in SUBSET Nat, T # {}
  PROVE  \E x \in T : \A y \in T : x <= y
<1>1. \E x \in T : \A y \in T : ~ (<<y, x>> \in OpToRel(<, Nat))
  BY WFMin, NatLessThanWellFounded
<1>2. PICK x \in T : \A y \in T : ~ (<<y, x>> \in OpToRel(<, Nat))
  BY <1>1
<1>3. ASSUME NEW y \in T PROVE x <= y
  <2>1. <<y, x>> \notin OpToRel(<, Nat)
    BY <1>2
  <2>2. x \in Nat /\ y \in Nat
    OBVIOUS
  <2>3. ~ (y < x)
    BY <2>1, <2>2 DEF OpToRel
  <2> QED BY <2>2, <2>3
<1> QED BY <1>3

LEMMA Greatest ==
  ASSUME NEW b \in Nat, NEW T \in SUBSET (0..b), T # {}
  PROVE  \E x \in T : \A y \in T : x >= y
<1> DEFINE U == {b - y : y \in T}
<1>1. U \in SUBSET Nat
  OBVIOUS
<1>0. U # {}
  <2>1. PICK y \in T : TRUE
    OBVIOUS
  <2>2. b - y \in U
    BY <2>1
  <2> QED BY <2>2
<1>2. PICK u \in U : \A v \in U : u <= v
  BY <1>0, <1>1, Least
<1>3. PICK x \in T : u = b - x
  OBVIOUS
<1>4. \A y \in T : b - y \in U
  OBVIOUS
<1>5. ASSUME NEW y \in T PROVE x >= y
  <2>1. b - y \in U
    BY <1>4
  <2>3. u <= b - y
    BY <1>2, <2>1
  <2>2. x \in 0..b /\ y \in 0..b
    OBVIOUS
  <2> HIDE DEF U
  <2> QED BY <2>2, <2>3, <1>3
<1> QED BY <1>5

LEMMA MaxOf ==
  ASSUME NEW b \in Nat, NEW T \in SUBSET (0..b), T # {}
  PROVE  Max(T) \in T
<1> QED BY Greatest DEF Max

LEMMA MinOf ==
  ASSUME NEW T \in SUBSET Nat, T # {}
  PROVE  Min(T) \in T
<1> QED BY Least DEF Min

----------------------------------------------------------------------------
LEMMA NextCases ==
  ASSUME [Next]_vars
  PROVE  \/ \E c \in Clients : \/ Connects(c) \/ Disconnects(c) \/ Message(c)
                               \/ JoinArrives(c) \/ Breaks(c)
         \/ \E n \in Nodes : Swapped(n) \/ DeployFails(n)
         \/ Broadcast \/ PublishFails \/ TimePasses
         \/ RampEnds \/ PublishNext \/ PublishReturns \/ StopPublisher
         \/ AwaitPublisher \/ Return
         \/ FirstRedeploy \/ Redeploy \/ PollSucceeds \/ PollThrows \/ PollTimesOut \/ BufferEnds
         \/ UNCHANGED vars
BY DEF Next, Client, Runner, Trigger, Fetch, Cluster, Finished

LEMMA Constants ==
  /\ N \in Nat /\ NumNodes \in Nat \ {0} /\ PerNode \in BOOLEAN
  /\ MaxSeq \in Nat /\ MaxFaults \in Nat /\ MaxClock \in Nat \ {0}
BY DeployImpactAssumption DEF DeployImpactAssumption

LEMMA OneMoreFault ==
  ASSUME TypeOK, OneFault
  PROVE  faults' \in 0..MaxFaults /\ faults' # 0
BY Constants DEF TypeOK, OneFault

----------------------------------------------------------------------------
(* The driver. *)

\* Steps of the runner, its clients and the network leave the driver alone.
LEMMA DriverStep ==
  ASSUME TypeOK, DriverPlace, [Next]_vars
  PROVE  DriverPlace'
<1> USE Constants DEF Nodes
<1>0. i \in Nodes /\ deploy \in [Nodes -> {"old", "building", "success", "failed"}]
  BY DEF TypeOK
<1>1. CASE UNCHANGED driverVars
  BY <1>1 DEF DriverPlace, driverVars
<1>2. ASSUME NEW n \in Nodes, Swapped(n) \/ DeployFails(n) PROVE DriverPlace'
  <2>1. /\ deploy[n] = "building" /\ UNCHANGED <<driver, i, timedOut>>
        /\ \/ deploy' = [deploy EXCEPT ![n] = "success"]
           \/ deploy' = [deploy EXCEPT ![n] = "failed"]
    BY <1>2 DEF Swapped, DeployFails
  <2> QED BY <1>0, <2>1 DEF DriverPlace
<1>3. CASE FirstRedeploy
  BY <1>0, <1>3 DEF FirstRedeploy, DriverPlace
<1>4. CASE Redeploy
  <2>1. /\ driver = "redeploy" /\ UNCHANGED <<i, timedOut>>
        /\ driver' = IF i < NumNodes - 1 THEN "poll" ELSE "finished"
        /\ deploy' = [deploy EXCEPT ![i] = "building"] \/ deploy' = deploy
    BY <1>4 DEF Redeploy, AfterRedeploy
  <2> QED BY <1>0, <2>1 DEF DriverPlace
<1>5. CASE PollSucceeds
  BY <1>0, <1>5 DEF PollSucceeds, DriverPlace
<1>6. CASE PollThrows
  BY <1>0, <1>6 DEF PollThrows, DriverPlace
<1>7. CASE PollTimesOut
  BY <1>0, <1>7 DEF PollTimesOut, PollIsOver, DriverPlace
<1>8. CASE BufferEnds
  <2>1. /\ driver = "buffer" /\ driver' = "redeploy" /\ i' = i + 1
        /\ UNCHANGED <<deploy, timedOut>>
    BY <1>8 DEF BufferEnds, NextNode
  <2>2. i + 1 \in Nodes /\ i < NumNodes - 1
    BY <1>0, <2>1 DEF DriverPlace
  <2> QED BY <1>0, <2>1, <2>2 DEF DriverPlace
<1>9. \/ UNCHANGED driverVars
      \/ \E n \in Nodes : Swapped(n) \/ DeployFails(n)
      \/ FirstRedeploy \/ Redeploy \/ PollSucceeds \/ PollThrows \/ PollTimesOut \/ BufferEnds
  BY NextCases DEF vars, driverVars, Connects, Disconnects, Message, JoinArrives, Breaks,
     Broadcast, PublishFails, TimePasses, RampEnds, PublishNext, PublishReturns,
     StopPublisher, AwaitPublisher, Return
<1> QED BY <1>1, <1>2, <1>3, <1>4, <1>5, <1>6, <1>7, <1>8, <1>9

----------------------------------------------------------------------------
(* The clients that came back are counted once each. *)

LEMMA CountedStep ==
  ASSUME TypeOK, Counted, [Next]_vars
  PROVE  Counted' /\ Cardinality(Returned') <= N
<1>0. IsFiniteSet(Clients) /\ Cardinality(Clients) = N
  BY FS_Interval, Constants DEF Clients
<1>1. IsFiniteSet(Returned) /\ Returned \subseteq Clients
  BY <1>0, FS_Subset DEF Returned
<1>2. Returned' \subseteq Clients
  BY DEF Returned
<1>3. Cardinality(Returned') <= N
  BY <1>0, <1>2, FS_Subset
<1>4. CASE UNCHANGED <<reconnectedAt, reconnectedCount>>
  BY <1>4, <1>3 DEF Counted, Returned
<1>5. ASSUME NEW c \in Clients, Connects(c), ~ UNCHANGED <<reconnectedAt, reconnectedCount>>
      PROVE  Counted'
  <2>1. Reconnect(c)
    BY <1>5 DEF Connects, InitialConnect, LaterConnect, counters
  <2>2. /\ reconnectedAt[c] = 0 /\ reconnectedAt' = [reconnectedAt EXCEPT ![c] = now]
        /\ reconnectedCount' = reconnectedCount + 1
    BY <2>1 DEF Reconnect, FirstReturn
  <2>3. reconnectedAt \in [Clients -> Times] /\ now \in 1..MaxClock
    BY DEF TypeOK
  <2>4. Returned' = Returned \cup {c} /\ c \notin Returned
    BY <2>2, <2>3, Constants DEF Returned, Times
  <2> QED BY <1>1, <2>2, <2>4, FS_AddElement DEF Counted
<1>6. UNCHANGED <<reconnectedAt, reconnectedCount>> \/ \E c \in Clients : Connects(c)
  BY NextCases DEF vars, clientVars, counters, Disconnects, Message, JoinArrives, Breaks,
     Swapped, DeployFails, Broadcast, PublishFails, TimePasses, RampEnds, PublishNext,
     PublishReturns, StopPublisher, AwaitPublisher, Return, DriverUnchanged,
     FirstRedeploy, Redeploy, PollSucceeds, PollThrows, PollTimesOut, BufferEnds
<1> QED BY <1>3, <1>4, <1>5, <1>6


----------------------------------------------------------------------------
(* Types. *)

LEMMA DieTypes ==
  ASSUME TypeOK, NEW C, Die(C)
  PROVE  /\ conn' \in [Clients -> {"off", "up", "dead"}]
         /\ joining' \subseteq Clients /\ room' \subseteq Clients
         /\ DOMAIN wire' = Clients /\ \A c \in Clients : wire'[c] \in Seq(Seqs)
         /\ \A c \in Clients : conn'[c] = IF c \in C /\ conn[c] = "up" THEN "dead" ELSE conn[c]
         /\ \A c \in Clients : wire'[c] = IF c \in C THEN <<>> ELSE wire[c]
         /\ joining' = joining \ C /\ room' = room \ C
<1>1. \A c \in Clients : conn[c] \in {"off", "up", "dead"} /\ wire[c] \in Seq(Seqs)
  BY DEF TypeOK
<1>2. \A c \in Clients : wire'[c] = IF c \in C THEN <<>> ELSE wire[c]
  BY DEF Die
<1>3. <<>> \in Seq(Seqs)
  OBVIOUS
<1>4. \A c \in Clients : wire'[c] \in Seq(Seqs)
  BY <1>1, <1>2, <1>3
<1> QED BY <1>1, <1>2, <1>4 DEF Die, TypeOK

\* What handlers record of messages.
LEMMA MessageTypes ==
  ASSUME TypeOK, NEW c \in Clients, Message(c)
  PROVE  /\ DOMAIN wire' = Clients /\ \A d \in Clients : wire'[d] \in Seq(Seqs)
         /\ DOMAIN received' = Clients
         /\ \A d \in Clients : \E S \in SUBSET Seqs : received'[d] \in [S -> Times]
         /\ \A d \in Clients : d # c => received'[d] = received[d]
         /\ DOMAIN received'[c] = DOMAIN received[c] \cup {Head(wire[c])}
         /\ \A s \in DOMAIN received'[c] :
              \/ received'[c][s] = now
              \/ s \in DOMAIN received[c] /\ received'[c][s] = received[c][s]
<1>1. wire[c] \in Seq(Seqs) /\ wire[c] # <<>> /\ Head(wire[c]) \in Seqs /\ Tail(wire[c]) \in Seq(Seqs)
  BY DEF TypeOK, Message
<1>2. DOMAIN wire' = Clients /\ \A d \in Clients : wire'[d] = IF d = c THEN Tail(wire[c]) ELSE wire[d]
  BY DEF TypeOK, Message
<1>3. \A d \in Clients : wire'[d] \in Seq(Seqs)
  BY <1>1, <1>2 DEF TypeOK
<1> DEFINE r == [s \in DOMAIN received[c] \cup {Head(wire[c])} |->
                   IF s = Head(wire[c]) THEN now ELSE received[c][s]]
<1>4. received' = [received EXCEPT ![c] = r]
  BY DEF Message
<1>5. DOMAIN received' = Clients /\ \A d \in Clients : received'[d] = IF d = c THEN r ELSE received[d]
  BY <1>4 DEF TypeOK
<1>6. PICK S \in SUBSET Seqs : received[c] \in [S -> Times]
  BY DEF TypeOK
<1>7. now \in Times
  BY DEF TypeOK, Times
<1>8. r \in [S \cup {Head(wire[c])} -> Times]
  <2>1. DOMAIN received[c] = S
    BY <1>6
  <2> QED BY <1>6, <1>7, <2>1
<1>9. S \cup {Head(wire[c])} \in SUBSET Seqs
  BY <1>1
<1> HIDE DEF r
<1>10. \A d \in Clients : \E T \in SUBSET Seqs : received'[d] \in [T -> Times]
  BY <1>5, <1>8, <1>9 DEF TypeOK
<1>11. DOMAIN received'[c] = DOMAIN received[c] \cup {Head(wire[c])}
  BY <1>5 DEF r
<1>12. \A s \in DOMAIN received'[c] :
              \/ received'[c][s] = now
              \/ s \in DOMAIN received[c] /\ received'[c][s] = received[c][s]
  BY <1>5 DEF r
<1> QED BY <1>2, <1>3, <1>5, <1>10, <1>11, <1>12

LEMMA ClientTypes ==
  ASSUME DriverInv, Counted, NEW c \in Clients,
         Connects(c) \/ Disconnects(c) \/ Message(c) \/ JoinArrives(c) \/ Breaks(c)
  PROVE  TypeOK'
<1> USE DEF DriverInv, publishSeq
<1>1. CASE Connects(c)
  <2>0. [Next]_vars
    BY <1>1 DEF Next, Client
  <2>1. reconnectedCount' \in 0..N
    <3>1. IsFiniteSet(Clients)
      BY FS_Interval, Constants DEF Clients
    <3>2. IsFiniteSet(Returned') /\ Counted' /\ Cardinality(Returned') <= N
      BY <2>0, <3>1, FS_Subset, CountedStep DEF Returned
    <3> QED BY <3>2, FS_CardinalityType, Constants DEF Counted
  <2>2. node' \in [Clients -> Nodes]
    <3>1. PICK n \in UrlNodes(c) : node' = [node EXCEPT ![c] = n]
      BY <1>1 DEF Connects
    <3>2. n \in Nodes
      BY <3>1, Constants DEF UrlNodes, Nodes, Clients
    <3> QED BY <3>1, <3>2 DEF TypeOK
  <2>3. conn' = [conn EXCEPT ![c] = "up"] /\ conn' \in [Clients -> {"off", "up", "dead"}]
    BY <1>1 DEF Connects, TypeOK
  <2>4. now \in Times
    BY DEF TypeOK, Times
  <2>5. /\ initialConnectComplete' \subseteq Clients /\ joining' \subseteq Clients
        /\ reconnectedAt' \in [Clients -> Times]
        /\ firstDisconnectAt' \in Times /\ allReconnectedAt' \in Times
    <3>1. CASE InitialConnect(c)
      BY <3>1 DEF InitialConnect, counters, TypeOK
    <3>2. CASE Reconnect(c)
      BY <2>4, <3>2 DEF Reconnect, TypeOK
    <3>3. CASE LaterConnect(c)
      BY <3>3 DEF LaterConnect, counters, TypeOK
    <3> QED BY <1>1, <3>1, <3>2, <3>3 DEF Connects
  <2>6. UNCHANGED <<now, pc, room, wire, disconnectedAt, received, publishedAt, request,
                    driver, i, deploy, timedOut, cycles, outage, faults>>
    BY <1>1 DEF Connects, driverVars, history
  <2> QED BY <2>1, <2>2, <2>3, <2>5, <2>6 DEF TypeOK
<1>2. CASE Disconnects(c)
  <2>1. now \in Times
    BY DEF TypeOK, Times
  <2>2. disconnectedAt' \in [Clients -> Times] /\ firstDisconnectAt' \in Times
    BY <1>2, <2>1 DEF Disconnects, TypeOK
  <2>3. cycles' \in [Clients -> Nat] /\ conn' \in [Clients -> {"off", "up", "dead"}]
    BY <1>2 DEF Disconnects, TypeOK
  <2>4. UNCHANGED <<now, pc, node, joining, room, wire, initialConnectComplete,
                 reconnectedAt, received, reconnectedCount, allReconnectedAt, publishedAt,
                 request, driver, i, deploy, timedOut, outage, faults>>
    BY <1>2 DEF Disconnects, driverVars
  <2> QED BY <2>2, <2>3, <2>4 DEF TypeOK
<1>3. CASE Message(c)
  <2>1. UNCHANGED <<now, pc, conn, node, joining, room, initialConnectComplete,
                 disconnectedAt, reconnectedAt, firstDisconnectAt, reconnectedCount,
                 allReconnectedAt, publishedAt, request, driver, i, deploy, timedOut,
                 cycles, outage, faults>>
    BY <1>3 DEF Message, counters, driverVars, history
  <2> QED BY <1>3, <2>1, MessageTypes DEF TypeOK
<1>4. CASE JoinArrives(c)
  BY <1>4 DEF JoinArrives, clientVars, counters, driverVars, history, TypeOK
<1>5. CASE Breaks(c)
  <2>1. /\ Die({c})
        /\ UNCHANGED <<now, pc, node, clientVars, counters, publishedAt, request, driverVars,
                       history>>
    BY <1>5 DEF Breaks
  <2>2. faults' \in 0..MaxFaults
    BY <1>5, OneMoreFault DEF Breaks
  <2> QED BY <2>1, <2>2, DieTypes DEF TypeOK, clientVars, counters, driverVars, history
<1> QED BY <1>1, <1>2, <1>3, <1>4, <1>5


\* The other steps.
LEMMA OtherTypes ==
  ASSUME DriverInv,
         \/ \E n \in Nodes : Swapped(n) \/ DeployFails(n)
         \/ Broadcast \/ PublishFails \/ TimePasses
         \/ RampEnds \/ PublishNext \/ PublishReturns \/ StopPublisher
         \/ AwaitPublisher \/ Return
  PROVE  TypeOK'
<1> USE DEF DriverInv, publishSeq, clientVars, counters, connVars, driverVars, history
<1>1. ASSUME NEW n \in Nodes, Swapped(n) PROVE TypeOK'
  <2>1. /\ Die({c \in Clients : node[c] = n})
        /\ deploy' = [deploy EXCEPT ![n] = "success"]
        /\ UNCHANGED <<now, pc, node, clientVars, counters, publishedAt, request, driver, i,
                       timedOut, history, faults>>
    BY <1>1 DEF Swapped
  <2> QED BY <2>1, DieTypes DEF TypeOK
<1>2. ASSUME NEW n \in Nodes, DeployFails(n) PROVE TypeOK'
  BY <1>2, OneMoreFault DEF DeployFails, TypeOK
<1>3. CASE Broadcast
  <2>1. publishSeq \in Seqs
    BY <1>3, Constants DEF Broadcast, TypeOK, Requested, Seqs
  <2>2. \A c \in Clients : wire[c] \in Seq(Seqs) /\ Append(wire[c], publishSeq) \in Seq(Seqs)
    BY <2>1 DEF TypeOK
  <2>3. DOMAIN wire' = Clients /\ \A c \in Clients : wire'[c] \in Seq(Seqs)
    BY <1>3, <2>2 DEF Broadcast
  <2> QED BY <1>3, <2>3 DEF Broadcast, TypeOK
<1>4. CASE PublishFails
  BY <1>4, OneMoreFault DEF PublishFails, TypeOK
<1>5. CASE TimePasses
  BY <1>5, Constants DEF TimePasses, TypeOK
<1>6. CASE RampEnds \/ StopPublisher \/ AwaitPublisher
  BY <1>6 DEF RampEnds, StopPublisher, AwaitPublisher, TypeOK
<1>7. CASE PublishNext
  <2>1. now \in Times /\ publishedAt \in Seq(Times)
    BY DEF TypeOK, Times
  <2>2. publishedAt' \in Seq(Times) /\ Len(publishedAt') = Len(publishedAt) + 1
        /\ Len(publishedAt) < MaxSeq
    BY <1>7, <2>1 DEF PublishNext
  <2>3. publishSeq' \in Seqs
    BY <2>2, Constants DEF Seqs
  <2>4. outage' \in [Clients -> SUBSET Seqs]
    BY <1>7, <2>3 DEF PublishNext, TypeOK
  <2>5. Len(publishedAt') <= MaxSeq
    BY <2>2, Constants
  <2> QED BY <1>7, <2>2, <2>4, <2>5 DEF PublishNext, TypeOK
<1>8. CASE PublishReturns
  BY <1>8 DEF PublishReturns, TypeOK
<1>9. CASE Return
  <2>1. now \in Times /\ <<>> \in Seq(Seqs)
    BY DEF TypeOK, Times
  <2>2. DOMAIN wire' = Clients /\ \A c \in Clients : wire'[c] \in Seq(Seqs)
    BY <1>9, <2>1 DEF Return
  <2> QED BY <1>9, <2>1, <2>2 DEF Return, TypeOK
<1> QED BY <1>1, <1>2, <1>3, <1>4, <1>5, <1>6, <1>7, <1>8, <1>9

LEMMA DriverTypes ==
  ASSUME DriverInv,
         \/ FirstRedeploy \/ Redeploy \/ PollSucceeds \/ PollThrows \/ PollTimesOut \/ BufferEnds
         \/ UNCHANGED vars
  PROVE  TypeOK'
<1> USE DEF DriverInv, DriverUnchanged, publishSeq, clientVars, counters, connVars, driverVars,
            history
<1>1. CASE FirstRedeploy
  BY <1>1 DEF FirstRedeploy, TypeOK
<1>2. CASE Redeploy
  <2>1. driver' \in {"poll", "finished"} /\ faults' \in 0..MaxFaults
    BY <1>2, OneMoreFault DEF Redeploy, AfterRedeploy, TypeOK
  <2>2. deploy' \in [Nodes -> {"old", "building", "success", "failed"}]
    BY <1>2 DEF Redeploy, TypeOK
  <2> QED BY <1>2, <2>1, <2>2 DEF Redeploy, TypeOK
<1>3. CASE PollSucceeds \/ PollThrows
  BY <1>3 DEF PollSucceeds, PollThrows, TypeOK
<1>4. CASE PollTimesOut
  BY <1>4 DEF PollTimesOut, TypeOK
<1>5. CASE BufferEnds
  <2>1. i' \in Nodes
    BY <1>5, Constants DEF BufferEnds, NextNode, DriverPlace, TypeOK, Nodes
  <2> QED BY <1>5, <2>1 DEF BufferEnds, TypeOK
<1>6. CASE UNCHANGED vars
  BY <1>6 DEF vars, TypeOK
<1> QED BY <1>1, <1>2, <1>3, <1>4, <1>5, <1>6

LEMMA RequestedStep ==
  ASSUME DriverInv, [Next]_vars
  PROVE  Requested'
<1>1. publishedAt \in Seq(Times)
  BY DEF DriverInv, TypeOK
<1>2. CASE PublishNext
  BY <1>1, <1>2 DEF PublishNext, Requested, publishSeq
<1>3. CASE request' # "sent" \/ UNCHANGED <<request, publishedAt>>
  BY <1>3 DEF DriverInv, Requested, publishSeq
<1>4. PublishNext \/ request' # "sent" \/ UNCHANGED <<request, publishedAt>>
  BY NextCases DEF vars, Connects, Disconnects, Message, JoinArrives, Breaks, Swapped,
     DeployFails, Broadcast, PublishFails, TimePasses, RampEnds, PublishReturns,
     StopPublisher, AwaitPublisher, Return, DriverUnchanged, FirstRedeploy, Redeploy,
     PollSucceeds, PollThrows, PollTimesOut, BufferEnds
<1> QED BY <1>2, <1>3, <1>4

LEMMA DriverInvStep ==
  ASSUME DriverInv, Counted, [Next]_vars
  PROVE  DriverInv' /\ Counted'
<1>1. TypeOK'
  BY NextCases, ClientTypes, OtherTypes, DriverTypes
<1> QED BY <1>1, DriverStep, CountedStep, RequestedStep DEF DriverInv

----------------------------------------------------------------------------
(* The clients. *)

LEMMA ClientFacts ==
  ASSUME TypeOK
  PROVE  /\ now \in Nat /\ now > 0
         /\ \A c \in Clients : /\ cycles[c] \in Nat
                               /\ disconnectedAt[c] \in Nat
                               /\ reconnectedAt[c] \in Nat
         /\ conn \in [Clients -> {"off", "up", "dead"}] /\ cycles \in [Clients -> Nat]
         /\ disconnectedAt \in [Clients -> Times] /\ reconnectedAt \in [Clients -> Times]
<1>1. now \in 1..MaxClock /\ Times \subseteq Nat
  BY Constants DEF TypeOK, Times
<1>2. /\ conn \in [Clients -> {"off", "up", "dead"}] /\ cycles \in [Clients -> Nat]
      /\ disconnectedAt \in [Clients -> Times] /\ reconnectedAt \in [Clients -> Times]
  BY DEF TypeOK
<1>3. \A c \in Clients : /\ cycles[c] \in Nat
                         /\ disconnectedAt[c] \in Times
                         /\ reconnectedAt[c] \in Times
  BY <1>2
<1>4. now \in Nat /\ now > 0
  BY <1>1, Constants
<1> QED BY <1>1, <1>2, <1>3, <1>4

LEMMA ConnectPresence ==
  ASSUME DriverInv, NEW c \in Clients, NEW d \in Clients, Presence(d), Connects(c)
  PROVE  Presence(d)'
<1>0. /\ now \in Nat /\ now > 0
      /\ \A e \in Clients : cycles[e] \in Nat /\ disconnectedAt[e] \in Nat /\ reconnectedAt[e] \in Nat
      /\ reconnectedAt \in [Clients -> Times] /\ conn \in [Clients -> {"off", "up", "dead"}]
  BY ClientFacts DEF DriverInv
<1>1. /\ pc # "done" /\ conn[c] = "off" /\ conn' = [conn EXCEPT ![c] = "up"]
      /\ UNCHANGED <<pc, room, wire, disconnectedAt, cycles>>
  BY DEF Connects, history
<1>2. conn'[c] = "up" /\ (d # c => conn'[d] = conn[d])
  BY <1>0, <1>1
<1>3. CASE InitialConnect(c)
  BY <1>0, <1>1, <1>2, <1>3 DEF InitialConnect, Presence
<1>4. CASE Reconnect(c)
  <2>1. /\ c \in initialConnectComplete /\ disconnectedAt[c] > 0 /\ reconnectedAt[c] = 0
        /\ reconnectedAt' = [reconnectedAt EXCEPT ![c] = now]
        /\ joining' = joining \cup {c}
        /\ UNCHANGED initialConnectComplete
    BY <1>4 DEF Reconnect, FirstReturn, JoinsAgain
  <2>2. reconnectedAt'[c] = now /\ (d # c => reconnectedAt'[d] = reconnectedAt[d])
    BY <1>0, <2>1
  <2> QED BY <1>0, <1>1, <1>2, <2>1, <2>2 DEF Presence
<1>5. CASE LaterConnect(c)
  BY <1>0, <1>1, <1>2, <1>5 DEF LaterConnect, FirstReturn, Presence
<1> QED BY <1>3, <1>4, <1>5 DEF Connects

LEMMA DiePresence ==
  ASSUME DriverInv, NEW C, Die(C), NEW d \in Clients, Presence(d),
         UNCHANGED <<pc, clientVars, cycles>>
  PROVE  Presence(d)'
BY DieTypes DEF DriverInv, clientVars, Presence

LEMMA PresenceStep ==
  ASSUME DriverInv, NEW d \in Clients, Presence(d), [Next]_vars
  PROVE  Presence(d)'
<1>1. ASSUME NEW c \in Clients, Disconnects(c) PROVE Presence(d)'
  <2>1. /\ pc # "done" /\ conn[c] = "dead" /\ conn' = [conn EXCEPT ![c] = "off"]
        /\ cycles' = [cycles EXCEPT ![c] = @ + 1]
        /\ \/ disconnectedAt[c] > 0 /\ disconnectedAt' = disconnectedAt
           \/ disconnectedAt[c] = 0 /\ disconnectedAt' = [disconnectedAt EXCEPT ![c] = now]
        /\ UNCHANGED <<pc, joining, room, wire, initialConnectComplete, reconnectedAt>>
    <3>1. disconnectedAt[c] \in Nat
      BY ClientFacts DEF DriverInv
    <3> QED BY <1>1, <3>1 DEF Disconnects, AlreadyCounted
  <2>2. /\ conn \in [Clients -> {"off", "up", "dead"}] /\ cycles \in [Clients -> Nat]
        /\ disconnectedAt \in [Clients -> Times] /\ now \in Nat /\ now > 0
        /\ \A e \in Clients : disconnectedAt[e] \in Nat /\ reconnectedAt[e] \in Nat
    BY ClientFacts DEF DriverInv
  <2>3. /\ conn'[c] = "off" /\ cycles'[c] = cycles[c] + 1
        /\ disconnectedAt'[c] = IF disconnectedAt[c] > 0 THEN disconnectedAt[c] ELSE now
        /\ d # c => /\ conn'[d] = conn[d] /\ cycles'[d] = cycles[d]
                    /\ disconnectedAt'[d] = disconnectedAt[d]
    BY <2>1, <2>2
  <2>4. cycles[d] \in Nat
    BY <2>2
  <2> QED BY <2>1, <2>2, <2>3, <2>4 DEF Presence
<1>2. ASSUME NEW c \in Clients, Message(c) PROVE Presence(d)'
  <2>1. /\ wire[c] # <<>> /\ wire' = [wire EXCEPT ![c] = Tail(@)]
        /\ UNCHANGED <<pc, conn, joining, room, initialConnectComplete, disconnectedAt,
                       reconnectedAt, cycles>>
    BY <1>2 DEF Message, history
  <2>2. d # c => wire'[d] = wire[d]
    BY <2>1
  <2> QED BY <2>1, <2>2 DEF Presence
<1>3. ASSUME NEW c \in Clients, JoinArrives(c) PROVE Presence(d)'
  BY <1>3 DEF JoinArrives, clientVars, history, Presence
<1>4. ASSUME NEW c \in Clients, Breaks(c) PROVE Presence(d)'
  BY <1>4, DiePresence DEF Breaks, history
<1>5. ASSUME NEW n \in Nodes, Swapped(n) PROVE Presence(d)'
  BY <1>5, DiePresence DEF Swapped, history
<1>6. CASE Broadcast
  BY <1>6 DEF Broadcast, clientVars, history, Presence
<1>7. CASE Return
  <2>1. /\ pc' = "done" /\ conn'[d] = "off" /\ wire'[d] = <<>> /\ joining' = {} /\ room' = {}
        /\ UNCHANGED <<clientVars, cycles>>
    BY <1>7 DEF Return, history
  <2> QED BY <2>1 DEF clientVars, Presence
<1>8. CASE RampEnds \/ StopPublisher \/ AwaitPublisher
  BY <1>8 DEF RampEnds, StopPublisher, AwaitPublisher, connVars, clientVars, history, Presence
<1>9. CASE UNCHANGED <<pc, connVars, clientVars, cycles>>
  BY <1>9 DEF connVars, clientVars, Presence
<1>10. \/ UNCHANGED <<pc, connVars, clientVars, cycles>>
       \/ \E c \in Clients : \/ Connects(c) \/ Disconnects(c) \/ Message(c)
                             \/ JoinArrives(c) \/ Breaks(c)
       \/ \E n \in Nodes : Swapped(n)
       \/ Broadcast \/ RampEnds \/ StopPublisher \/ AwaitPublisher \/ Return
  BY NextCases DEF vars, history, DeployFails, PublishFails, TimePasses, PublishNext,
     PublishReturns, DriverUnchanged, FirstRedeploy, Redeploy, PollSucceeds, PollThrows,
     PollTimesOut, BufferEnds
<1> QED BY <1>1, <1>2, <1>3, <1>4, <1>5, <1>6, <1>7, <1>8, <1>9, <1>10, ConnectPresence


LEMMA BouncedStep ==
  ASSUME DriverInv, NEW d \in Clients, Presence(d), Bounced(d), [Next]_vars
  PROVE  Bounced(d)'
<1> SUFFICES ASSUME PerNode, faults' = 0
             PROVE  /\ conn'[d] # "off" => node'[d] = d % NumNodes
                    /\ cycles'[d] + (IF conn'[d] = "dead" THEN 1 ELSE 0) <= 1
                    /\ cycles'[d] > 0 \/ conn'[d] = "dead" => deploy'[d % NumNodes] = "success"
  BY DEF Bounced
<1> DEFINE home == d % NumNodes
<1>1. home \in Nodes
  BY Constants DEF Clients, Nodes
<1>2. /\ deploy \in [Nodes -> {"old", "building", "success", "failed"}]
      /\ node \in [Clients -> Nodes] /\ conn \in [Clients -> {"off", "up", "dead"}]
      /\ cycles \in [Clients -> Nat] /\ cycles[d] \in Nat
  BY ClientFacts DEF DriverInv, TypeOK
<1>3. faults = 0 /\ ~ OneFault
  <2>1. faults' = faults \/ OneFault
    BY NextCases DEF vars, driverVars, Connects, Disconnects, Message, JoinArrives, Breaks,
     Swapped, DeployFails, Broadcast, PublishFails, TimePasses, RampEnds, PublishNext,
     PublishReturns, StopPublisher, AwaitPublisher, Return, FirstRedeploy, Redeploy,
     PollSucceeds, PollThrows, PollTimesOut, BufferEnds
  <2> QED BY <2>1, OneMoreFault DEF DriverInv
<1>4. /\ conn[d] # "off" => node[d] = home
      /\ cycles[d] + (IF conn[d] = "dead" THEN 1 ELSE 0) <= 1
      /\ cycles[d] > 0 \/ conn[d] = "dead" => deploy[home] = "success"
  BY <1>3 DEF Bounced
<1> DEFINE Goal == /\ conn'[d] # "off" => node'[d] = home
                   /\ cycles'[d] + (IF conn'[d] = "dead" THEN 1 ELSE 0) <= 1
                   /\ cycles'[d] > 0 \/ conn'[d] = "dead" => deploy'[home] = "success"
<1> HIDE DEF home
<1>5. ASSUME NEW c \in Clients, Connects(c) PROVE Goal
  <2>1. /\ conn[c] = "off" /\ conn' = [conn EXCEPT ![c] = "up"] /\ UNCHANGED <<deploy, cycles>>
        /\ node' = [node EXCEPT ![c] = c % NumNodes]
    BY <1>5 DEF Connects, UrlNodes, driverVars, history
  <2> QED BY <1>2, <1>4, <2>1 DEF home
<1>6. ASSUME NEW c \in Clients, Disconnects(c) PROVE Goal
  <2>1. /\ conn[c] = "dead" /\ conn' = [conn EXCEPT ![c] = "off"]
        /\ cycles' = [cycles EXCEPT ![c] = @ + 1] /\ UNCHANGED <<node, deploy>>
    BY <1>6 DEF Disconnects, driverVars
  <2>2. CASE d = c
    <3>1. conn'[d] = "off" /\ cycles'[d] = cycles[d] + 1
      BY <1>2, <2>1, <2>2
    <3> QED BY <1>2, <1>4, <2>1, <2>2, <3>1
  <2>3. CASE d # c
    BY <1>2, <1>4, <2>1, <2>3
  <2> QED BY <2>2, <2>3
<1>7. ASSUME NEW n \in Nodes, Swapped(n) PROVE Goal
  <2>1. /\ deploy[n] = "building" /\ deploy' = [deploy EXCEPT ![n] = "success"]
        /\ Die({c \in Clients : node[c] = n}) /\ UNCHANGED <<node, cycles>>
    BY <1>7 DEF Swapped, history
  <2>2. conn'[d] = IF node[d] = n /\ conn[d] = "up" THEN "dead" ELSE conn[d]
    BY <2>1, DieTypes DEF DriverInv
  <2>3. deploy'[home] = IF home = n THEN "success" ELSE deploy[home]
    BY <1>1, <1>2, <2>1
  <2> QED BY <1>2, <1>4, <2>1, <2>2, <2>3
<1>8. ASSUME Redeploy PROVE Goal
  <2>1. deploy[i] = "old" /\ deploy' = [deploy EXCEPT ![i] = "building"]
    BY <1>3, <1>8 DEF Redeploy, DriverInv, DriverPlace
  <2>2. UNCHANGED <<conn, node, cycles>>
    BY <1>8 DEF Redeploy, DriverUnchanged, connVars, history
  <2>3. deploy[home] = "success" => deploy'[home] = "success"
    BY <1>1, <1>2, <2>1
  <2> QED BY <1>2, <1>4, <2>2, <2>3
<1>9. ASSUME Return PROVE Goal
  <2>1. conn'[d] = "off" /\ UNCHANGED <<node, cycles, deploy>>
    BY <1>9 DEF Return, driverVars, history
  <2> QED BY <1>2, <1>4, <2>1
<1>10. ASSUME UNCHANGED <<conn, node, cycles, deploy>> PROVE Goal
  BY <1>2, <1>4, <1>10
<1>11. \/ UNCHANGED <<conn, node, cycles, deploy>>
       \/ \E c \in Clients : Connects(c) \/ Disconnects(c)
       \/ \E n \in Nodes : Swapped(n)
       \/ Redeploy \/ Return
  BY <1>3, NextCases DEF vars, connVars, driverVars, history, Message, JoinArrives, Breaks,
     DeployFails, Broadcast, PublishFails, TimePasses, RampEnds, PublishNext, PublishReturns,
     StopPublisher, AwaitPublisher, DriverUnchanged, FirstRedeploy, PollSucceeds, PollThrows,
     PollTimesOut, BufferEnds
<1> HIDE DEF Goal
<1>12. Goal
  BY <1>5, <1>6, <1>7, <1>8, <1>9, <1>10, <1>11
<1> QED BY <1>12 DEF Goal, home

LEMMA ClientInvStep ==
  ASSUME ClientInv, Counted, [Next]_vars
  PROVE  ClientInv' /\ Counted'
<1>1. DriverInv' /\ Counted'
  BY DriverInvStep DEF ClientInv
<1>2. ASSUME NEW d \in Clients PROVE Presence(d)' /\ Bounced(d)'
  BY PresenceStep, BouncedStep DEF ClientInv
<1> QED BY <1>1, <1>2 DEF ClientInv

----------------------------------------------------------------------------
(* What was published and received, and when. *)

LEMMA Published ==
  ASSUME TypeOK
  PROVE  /\ publishSeq \in Nat
         /\ \A s \in 1..publishSeq : publishedAt[s] \in Nat
         /\ PublishNext => /\ publishSeq' = publishSeq + 1
                           /\ publishedAt'[publishSeq + 1] = now
                           /\ \A s \in 1..publishSeq : publishedAt'[s] = publishedAt[s]
<1>1. publishedAt \in Seq(Times) /\ Times \subseteq Nat
  BY Constants DEF TypeOK, Times
<1>2. publishSeq \in Nat /\ \A s \in 1..publishSeq : publishedAt[s] \in Times
  BY <1>1, ElementOfSeq DEF publishSeq
<1>3. PublishNext => publishedAt' = Append(publishedAt, now)
  BY DEF PublishNext
<1>4. now \in Times
  BY DEF TypeOK, Times
<1>5. ASSUME PublishNext
      PROVE  /\ publishSeq' = publishSeq + 1
             /\ publishedAt'[publishSeq + 1] = now
             /\ \A s \in 1..publishSeq : publishedAt'[s] = publishedAt[s]
  BY <1>1, <1>3, <1>4, <1>5, AppendProperties DEF publishSeq
<1> QED BY <1>1, <1>2, <1>5

LEMMA ReceivedTimes ==
  ASSUME TypeOK, NEW c \in Clients
  PROVE  \A s \in DOMAIN received[c] : received[c][s] \in 0..MaxClock
<1>1. PICK S \in SUBSET Seqs : received[c] \in [S -> Times]
  BY DEF TypeOK
<1> QED BY <1>1 DEF Times


\* The clock, which goes on by itself.
LEMMA ClockStep ==
  ASSUME TypeOK, [Next]_vars
  PROVE  now \in Nat /\ now' \in Nat /\ now <= now'
<1>1. now \in Nat
  BY ClientFacts
<1>2. UNCHANGED now \/ TimePasses
  BY NextCases DEF vars, Connects, Disconnects, Message, JoinArrives, Breaks, Swapped,
     DeployFails, Broadcast, PublishFails, RampEnds, PublishNext, PublishReturns,
     StopPublisher, AwaitPublisher, Return, DriverUnchanged, FirstRedeploy, Redeploy,
     PollSucceeds, PollThrows, PollTimesOut, BufferEnds
<1> QED BY <1>1, <1>2 DEF TimePasses

\* What the other steps leave alone.
LEMMA RecordsKept ==
  ASSUME [Next]_vars
  PROVE  /\ UNCHANGED publishedAt \/ PublishNext
         /\ UNCHANGED reconnectedAt \/ \E c \in Clients : Connects(c)
         /\ UNCHANGED received \/ \E c \in Clients : Message(c)
         /\ UNCHANGED <<disconnectedAt, cycles>> \/ \E c \in Clients : Disconnects(c)
         /\ UNCHANGED outage \/ PublishNext
BY NextCases DEF vars, clientVars, counters, history, Connects, Disconnects, Message,
   JoinArrives, Breaks, Swapped, DeployFails, Broadcast, PublishFails, TimePasses, RampEnds,
   PublishNext, PublishReturns, StopPublisher, AwaitPublisher, Return, DriverUnchanged,
   FirstRedeploy, Redeploy, PollSucceeds, PollThrows, PollTimesOut, BufferEnds

\* What a connect does to the time of a client's return.
LEMMA ReturnTime ==
  ASSUME TypeOK, NEW c \in Clients, Connects(c), NEW d \in Clients
  PROVE  /\ UNCHANGED now
         /\ \/ reconnectedAt'[d] = reconnectedAt[d]
            \/ d = c /\ disconnectedAt[d] > 0 /\ reconnectedAt[d] = 0 /\ reconnectedAt'[d] = now
<1>1. reconnectedAt \in [Clients -> Times]
  BY ClientFacts
<1>2. CASE InitialConnect(c) \/ LaterConnect(c)
  BY <1>2 DEF InitialConnect, LaterConnect, Connects
<1>3. CASE Reconnect(c)
  BY <1>1, <1>3 DEF Reconnect, FirstReturn, Connects
<1> QED BY <1>2, <1>3 DEF Connects

LEMMA PastStep ==
  ASSUME TypeOK, Past, [Next]_vars
  PROVE  Past'
<1>0. now \in Nat /\ now' \in Nat /\ now <= now'
  BY ClockStep
<1>1. ASSUME NEW s \in 1..publishSeq' PROVE publishedAt'[s] <= now'
  <2>1. CASE UNCHANGED publishedAt
    <3>1. s \in 1..publishSeq /\ publishedAt'[s] = publishedAt[s]
      BY <1>1, <2>1 DEF publishSeq
    <3>2. publishedAt[s] \in Nat /\ publishedAt[s] <= now
      BY <3>1, Published DEF Past
    <3> QED BY <1>0, <3>1, <3>2
  <2>2. CASE PublishNext
    <3>1. publishSeq \in Nat /\ publishSeq' = publishSeq + 1
      BY <2>2, Published
    <3>2. CASE s = publishSeq + 1
      BY <1>0, <2>2, <3>2, Published
    <3>3. CASE s \in 1..publishSeq
      <4>1. publishedAt'[s] = publishedAt[s] /\ publishedAt[s] \in Nat /\ publishedAt[s] <= now
        BY <2>2, <3>3, Published DEF Past
      <4> QED BY <1>0, <4>1
    <3> QED BY <1>1, <3>1, <3>2, <3>3
  <2> QED BY <2>1, <2>2, RecordsKept
<1>2. ASSUME NEW d \in Clients PROVE reconnectedAt'[d] <= now'
  <2>1. reconnectedAt[d] \in Nat /\ reconnectedAt[d] <= now
    BY ClientFacts DEF Past
  <2>2. reconnectedAt'[d] = reconnectedAt[d] \/ reconnectedAt'[d] = now
    BY ReturnTime, RecordsKept
  <2> QED BY <1>0, <2>1, <2>2
<1>3. ASSUME NEW d \in Clients, NEW s \in DOMAIN received'[d] PROVE received'[d][s] <= now'
  <2>1. \/ received'[d][s] = now
        \/ s \in DOMAIN received[d] /\ received'[d][s] = received[d][s]
    <3>1. CASE UNCHANGED received
      BY <1>3, <3>1
    <3>2. ASSUME NEW c \in Clients, Message(c)
          PROVE  \/ received'[d][s] = now
                 \/ s \in DOMAIN received[d] /\ received'[d][s] = received[d][s]
      <4>1. CASE d = c
        BY <1>3, <3>2, <4>1, MessageTypes
      <4>2. CASE d # c
        <5>1. received'[d] = received[d]
          BY <3>2, <4>2, MessageTypes
        <5> QED BY <1>3, <5>1
      <4> QED BY <4>1, <4>2
    <3> QED BY <3>1, <3>2, RecordsKept
  <2>2. s \in DOMAIN received[d] => received[d][s] \in Nat /\ received[d][s] <= now
    BY ReceivedTimes, Constants DEF Past
  <2> QED BY <1>0, <2>1, <2>2
<1> QED BY <1>1, <1>2, <1>3 DEF Past

LEMMA HeardStep ==
  ASSUME ClientInv, Past, NEW d \in Clients, HeardNothing(d), [Next]_vars
  PROVE  HeardNothing(d)'
<1>0. /\ TypeOK /\ Presence(d)
      /\ now \in Nat /\ now > 0 /\ now' \in Nat /\ now <= now'
      /\ cycles[d] \in Nat /\ disconnectedAt[d] \in Nat /\ reconnectedAt[d] \in Nat
      /\ reconnectedAt[d] <= now
  BY ClockStep, ClientFacts DEF ClientInv, DriverInv, Past
<1>1. \A s \in DOMAIN received[d] : received[d][s] \in Nat /\ received[d][s] <= now
  BY <1>0, ReceivedTimes, Constants DEF Past
<1>2. ASSUME NEW c \in Clients, Connects(c) PROVE HeardNothing(d)'
  <2>1. UNCHANGED <<now, disconnectedAt, cycles, received>>
    BY <1>2 DEF Connects, history
  <2>2. CASE reconnectedAt'[d] = reconnectedAt[d]
    BY <2>1, <2>2 DEF HeardNothing
  <2>3. CASE reconnectedAt[d] = 0 /\ reconnectedAt'[d] = now
    BY <1>0, <1>1, <2>1, <2>3 DEF HeardNothing
  <2> QED BY <1>0, <1>2, <2>2, <2>3, ReturnTime
<1>3. ASSUME NEW c \in Clients, Disconnects(c) PROVE HeardNothing(d)'
  <2>1. /\ cycles' = [cycles EXCEPT ![c] = @ + 1]
        /\ \/ disconnectedAt[c] > 0 /\ disconnectedAt' = disconnectedAt
           \/ ~ (disconnectedAt[c] > 0) /\ disconnectedAt' = [disconnectedAt EXCEPT ![c] = now]
        /\ UNCHANGED <<now, reconnectedAt, received>>
    BY <1>3 DEF Disconnects, AlreadyCounted
  <2>2. cycles \in [Clients -> Nat] /\ disconnectedAt \in [Clients -> Times]
    BY <1>0, ClientFacts
  <2>3. CASE d # c
    <3>1. cycles'[d] = cycles[d] /\ disconnectedAt'[d] = disconnectedAt[d]
      BY <2>1, <2>2, <2>3
    <3> QED BY <2>1, <3>1 DEF HeardNothing
  <2>4. CASE d = c /\ disconnectedAt[d] > 0
    <3>1. cycles[d] > 0 /\ disconnectedAt'[d] = disconnectedAt[d]
      BY <1>0, <2>1, <2>4 DEF Presence
    <3> QED BY <2>1, <3>1 DEF HeardNothing
  <2>5. CASE d = c /\ disconnectedAt[d] = 0
    <3>1. cycles[d] = 0 /\ reconnectedAt[d] = 0 /\ disconnectedAt'[d] = now
      BY <1>0, <2>1, <2>2, <2>5 DEF Presence
    <3> QED BY <1>0, <1>1, <2>1, <3>1 DEF HeardNothing
  <2> QED BY <1>0, <2>3, <2>4, <2>5
<1>4. ASSUME NEW c \in Clients, Message(c) PROVE HeardNothing(d)'
  <2>1. UNCHANGED <<now, reconnectedAt, disconnectedAt, cycles>> /\ wire[c] # <<>>
    BY <1>4 DEF Message, history
  <2>2. CASE d # c
    <3>1. received'[d] = received[d]
      BY <1>0, <1>4, <2>2, MessageTypes
    <3> QED BY <2>1, <3>1 DEF HeardNothing
  <2>3. CASE d = c
    <3>1. cycles[d] > 0 => reconnectedAt[d] > 0
      BY <1>0, <2>1, <2>3 DEF Presence
    <3>2. \A s \in DOMAIN received'[d] :
              \/ received'[d][s] = now
              \/ s \in DOMAIN received[d] /\ received'[d][s] = received[d][s]
      BY <1>0, <1>4, <2>3, MessageTypes
    <3> QED BY <1>0, <2>1, <3>1, <3>2 DEF HeardNothing
  <2> QED BY <2>2, <2>3
<1>5. CASE UNCHANGED <<disconnectedAt, cycles, reconnectedAt, received>>
  BY <1>0, <1>5 DEF HeardNothing
<1> QED BY <1>2, <1>3, <1>4, <1>5, RecordsKept

LEMMA OutageStep ==
  ASSUME ClientInv, Past, NEW d \in Clients, HeardNothing(d), OutageSpan(d), [Next]_vars
  PROVE  OutageSpan(d)'
<1>0. /\ TypeOK /\ Presence(d)
      /\ now \in Nat /\ now > 0
      /\ cycles[d] \in Nat /\ disconnectedAt[d] \in Nat /\ reconnectedAt[d] \in Nat
      /\ publishSeq \in Nat
  BY ClockStep, ClientFacts, Published DEF ClientInv, DriverInv
<1>1. ASSUME NEW c \in Clients, Connects(c) PROVE OutageSpan(d)'
  <2>1. UNCHANGED <<now, disconnectedAt, cycles, outage, publishedAt>>
    BY <1>1 DEF Connects, history
  <2>2. CASE reconnectedAt'[d] = reconnectedAt[d]
    BY <2>1, <2>2 DEF OutageSpan, publishSeq
  <2>3. CASE reconnectedAt'[d] = now
    BY <2>1, <2>3 DEF OutageSpan, Past, publishSeq
  <2> QED BY <1>0, <1>1, <2>2, <2>3, ReturnTime
<1>2. ASSUME NEW c \in Clients, Disconnects(c) PROVE OutageSpan(d)'
  <2>1. /\ cycles' = [cycles EXCEPT ![c] = @ + 1]
        /\ \/ disconnectedAt[c] > 0 /\ disconnectedAt' = disconnectedAt
           \/ ~ (disconnectedAt[c] > 0) /\ disconnectedAt' = [disconnectedAt EXCEPT ![c] = now]
        /\ UNCHANGED <<reconnectedAt, publishedAt, outage>>
    BY <1>2 DEF Disconnects, AlreadyCounted
  <2>2. cycles \in [Clients -> Nat] /\ disconnectedAt \in [Clients -> Times]
    BY <1>0, ClientFacts
  <2>3. cycles'[d] >= cycles[d] /\ (cycles[d] > 0 => disconnectedAt'[d] = disconnectedAt[d])
    BY <1>0, <2>1, <2>2 DEF Presence
  <2>4. cycles'[d] \in Nat
    BY <2>1, <2>2
  <2> QED BY <1>0, <2>1, <2>3, <2>4 DEF OutageSpan, publishSeq
<1>3. CASE PublishNext
  <2>1. /\ UNCHANGED <<now, cycles, disconnectedAt, reconnectedAt>> /\ pc = "publish"
        /\ outage'[d] = IF Away(d) THEN outage[d] \cup {publishSeq'} ELSE outage[d]
    BY <1>3 DEF PublishNext, clientVars
  <2>2. ASSUME NEW s \in outage[d]
        PROVE  /\ cycles[d] > 0 /\ s \in 1..publishSeq' /\ disconnectedAt[d] <= publishedAt'[s]
               /\ reconnectedAt[d] > 0 => publishedAt'[s] <= reconnectedAt[d]
    <3>1. s \in 1..publishSeq
      BY <2>2 DEF OutageSpan
    <3>2. publishedAt'[s] = publishedAt[s] /\ publishSeq' = publishSeq + 1
      BY <1>0, <1>3, <3>1, Published
    <3> QED BY <1>0, <2>2, <3>1, <3>2 DEF OutageSpan
  <2>3. ASSUME Away(d)
        PROVE  /\ cycles[d] > 0 /\ publishSeq' \in 1..publishSeq'
               /\ disconnectedAt[d] <= publishedAt'[publishSeq'] /\ reconnectedAt[d] = 0
    <3>1. cycles[d] = 1 /\ reconnectedAt[d] = 0 /\ disconnectedAt[d] <= now
      BY <1>0, <2>1, <2>3 DEF Away, Presence, HeardNothing
    <3>2. publishSeq' = publishSeq + 1 /\ publishedAt'[publishSeq'] = now
      BY <1>0, <1>3, Published
    <3> QED BY <1>0, <3>1, <3>2
  <2>4. \A s \in outage'[d] : s \in outage[d] \/ (Away(d) /\ s = publishSeq')
    BY <2>1
  <2> QED BY <1>0, <2>1, <2>2, <2>3, <2>4 DEF OutageSpan
<1>4. CASE UNCHANGED <<cycles, disconnectedAt, reconnectedAt, publishedAt, outage>>
  BY <1>4 DEF OutageSpan, publishSeq
<1> QED BY <1>1, <1>2, <1>3, <1>4, RecordsKept


----------------------------------------------------------------------------
(* The invariant, and the theorems. *)

LEMMA InitInv == Init => Inv
<1> SUFFICES ASSUME Init PROVE Inv
  OBVIOUS
<1> USE DEF Init
<1>1. /\ 0 \in Times /\ 0 \in Nodes /\ 0 \in 0..N /\ 0 \in 0..MaxFaults /\ 1 \in 1..MaxClock
      /\ publishSeq = 0 /\ publishSeq <= MaxSeq
  BY Constants DEF Times, Nodes, publishSeq
<1>2. TypeOK
  <2>1. \A c \in Clients : wire[c] = <<>> /\ <<>> \in Seq(Seqs)
    OBVIOUS
  <2>2. \A c \in Clients : \E S \in SUBSET Seqs : received[c] \in [S -> Times]
    <3>1. <<>> \in [{} -> Times] /\ {} \in SUBSET Seqs
      OBVIOUS
    <3> QED BY <3>1
  <2>3. publishedAt \in Seq(Times)
    OBVIOUS
  <2> QED BY <1>1, <2>1, <2>2, <2>3 DEF TypeOK
<1>3. DriverPlace /\ Requested
  BY Constants DEF DriverPlace, Requested, Nodes
<1>4. \A c \in Clients : Presence(c) /\ Bounced(c)
  BY DEF Presence, Bounced
<1>5. Counted
  <2>1. Returned = {}
    BY DEF Returned
  <2> QED BY <2>1, FS_EmptySet DEF Counted
<1>6. Past /\ \A c \in Clients : HeardNothing(c) /\ OutageSpan(c)
  BY <1>1 DEF Past, HeardNothing, OutageSpan
<1> QED BY <1>2, <1>3, <1>4, <1>5, <1>6 DEF Inv, ClientInv, DriverInv

LEMMA StepInv == Inv /\ [Next]_vars => Inv'
<1> SUFFICES ASSUME Inv, [Next]_vars PROVE Inv'
  OBVIOUS
<1>1. ClientInv /\ TypeOK
  BY DEF Inv, ClientInv, DriverInv
<1>2. ClientInv' /\ Counted' /\ Past'
  BY <1>1, ClientInvStep, PastStep DEF Inv
<1>3. ASSUME NEW d \in Clients PROVE HeardNothing(d)' /\ OutageSpan(d)'
  BY <1>1, HeardStep, OutageStep DEF Inv
<1> QED BY <1>2, <1>3 DEF Inv

\* A gap reaches from the first disconnect, or before, to the return, or after.
LEMMA GapIsWide ==
  ASSUME Inv, NEW c \in Clients, cycles[c] > 0
  PROVE  /\ GapStart(c) \in Int /\ GapStart(c) <= disconnectedAt[c]
         /\ GapEnd(c) \in Int
         /\ IF reconnectedAt[c] > 0 THEN reconnectedAt[c] <= GapEnd(c) ELSE GapEnd(c) = now
<1>0. /\ now \in Nat /\ disconnectedAt[c] \in Nat /\ reconnectedAt[c] \in Nat
      /\ HeardNothing(c) /\ TypeOK
  BY ClientFacts DEF Inv, ClientInv, DriverInv
<1>1. Received(c) \subseteq 0..MaxClock
  BY <1>0, ReceivedTimes DEF Received
<1>2. /\ Before(c) \in SUBSET (0..MaxClock)
      /\ After(c) \in SUBSET Nat
      /\ After(c) \subseteq Received(c)
  BY <1>1, Constants DEF Before, After
<1>3. GapStart(c) \in Int /\ GapStart(c) <= disconnectedAt[c]
  <2>1. CASE Before(c) = {}
    BY <1>0, <2>1 DEF GapStart
  <2>2. CASE Before(c) # {}
    <3>1. Max(Before(c)) \in Before(c)
      BY <1>2, <2>2, MaxOf, Constants
    <3>2. Max(Before(c)) \in 0..MaxClock /\ Max(Before(c)) < disconnectedAt[c]
      BY <1>2, <3>1 DEF Before
    <3> QED BY <1>0, <2>2, <3>2 DEF GapStart
  <2> QED BY <2>1, <2>2
<1>4. CASE After(c) = {}
  BY <1>0, <1>3, <1>4 DEF GapEnd
<1>5. CASE After(c) # {}
  <2>1. Min(After(c)) \in After(c)
    BY <1>2, <1>5, MinOf
  <2>2. Min(After(c)) \in Nat /\ Min(After(c)) > disconnectedAt[c] /\ Min(After(c)) \in Received(c)
    BY <1>2, <2>1 DEF After
  <2>3. PICK s \in DOMAIN received[c] : Min(After(c)) = received[c][s]
    BY <2>2 DEF Received
  <2>4. reconnectedAt[c] > 0 /\ reconnectedAt[c] <= Min(After(c))
    BY <1>0, <2>2, <2>3 DEF HeardNothing
  <2>5. GapEnd(c) = Min(After(c))
    BY <1>5 DEF GapEnd
  <2> QED BY <1>3, <2>2, <2>4, <2>5
<1> QED BY <1>4, <1>5

\* The types of the state, among them that no client is counted twice as reconnected.
THEOREM TypeCorrect == Spec => []TypeOK
<1>1. Inv => TypeOK
  BY DEF Inv, ClientInv, DriverInv
<1> QED BY <1>1, InitInv, StepInv, PTL DEF Spec

\* The driver has one node rebuilt at a time, however deployments end, unless a poll
\* gave up (OneNodeAtATime).
THEOREM OneAtATime == Spec => []OneNodeAtATime
<1>1. Inv => OneNodeAtATime
  BY DEF Inv, ClientInv, DriverInv, DriverPlace, OneNodeAtATime
<1> QED BY <1>1, InitInv, StepInv, PTL DEF Spec

\* With a URL for each node, and nothing that fails, no client loses its connection
\* twice (OneCycle).
THEOREM BouncedOnce == Spec => []OneCycle
<1>1. Inv => OneCycle
  <2> SUFFICES ASSUME Inv, PerNode /\ faults = 0, NEW c \in Clients PROVE cycles[c] <= 1
    BY DEF OneCycle
  <2>1. Bounced(c) /\ cycles[c] \in Nat
    BY ClientFacts DEF Inv, ClientInv, DriverInv
  <2> QED BY <2>1 DEF Bounced
<1> QED BY <1>1, InitInv, StepInv, PTL DEF Spec

\* Who is back from its first disconnect receives again (Rejoined).
THEOREM BackInTheRoom == Spec => []Rejoined
<1>1. Inv => Rejoined
  BY DEF Inv, ClientInv, Presence, Rejoined
<1> QED BY <1>1, InitInv, StepInv, PTL DEF Spec

\* The loss analysis misses nothing that was published while a client was away for
\* the first time (OutageIsCounted).
THEOREM NoLossIsMissed == Spec => []OutageIsCounted
<1>1. Inv => OutageIsCounted
  <2> SUFFICES ASSUME Inv, NEW c \in Clients, NEW s \in outage[c], s \notin DOMAIN received[c]
               PROVE  s \in Lost(c)
    BY DEF OutageIsCounted
  <2>1. /\ TypeOK /\ OutageSpan(c) /\ Presence(c) /\ Past /\ cycles[c] \in Nat
        /\ disconnectedAt[c] \in Nat /\ reconnectedAt[c] \in Nat /\ now \in Nat
    BY ClientFacts DEF Inv, ClientInv, DriverInv
  <2>2. /\ cycles[c] > 0 /\ s \in 1..publishSeq /\ disconnectedAt[c] <= publishedAt[s]
        /\ reconnectedAt[c] > 0 => publishedAt[s] <= reconnectedAt[c]
        /\ publishedAt[s] <= now
    BY <2>1 DEF OutageSpan, Past
  <2>3. disconnectedAt[c] > 0
    BY <2>1, <2>2 DEF Presence
  <2>4. publishedAt[s] \in Nat
    BY <2>1, <2>2, Published
  <2>5. GapStart(c) \in Int /\ GapEnd(c) \in Int
    BY <2>2, GapIsWide
  <2>6. GapStart(c) <= publishedAt[s]
    BY <2>1, <2>2, <2>4, <2>5, GapIsWide
  <2>7. publishedAt[s] <= GapEnd(c)
    BY <2>1, <2>2, <2>4, <2>5, GapIsWide
  <2>8. publishedAt[s] \in GapStart(c)..GapEnd(c)
    BY <2>4, <2>5, <2>6, <2>7
  <2> QED BY <2>2, <2>3, <2>8 DEF Lost
<1> QED BY <1>1, InitInv, StepInv, PTL DEF Spec

=============================================================================
