---------------------------- MODULE StreamBench ----------------------------
(***************************************************************************)
(* The benches in which clients listen to a stream, one in each of several *)
(* bench-runners: the throughput runners of backend/src/lib/throughput.ts, *)
(* and the jitter tests as a driver of many of them sees them (module      *)
(* JitterClient has their clients in detail).  Clients ramp up and join,   *)
(* messages are published, drained and summarized (module Results).        *)
(*                                                                         *)
(* The publisher is known by what module Publisher shows of it: each       *)
(* message is dispatched once, in turn, may arrive in any order or not at  *)
(* all, and the publisher returns when none is on its way.  At "nats"      *)
(* nothing is awaited; through /publish-local the server publishes by      *)
(* itself, in order, for as long as it takes, while the runner waits a     *)
(* nominal time.                                                           *)
(*                                                                         *)
(* A setup of two nodes is one server here.  A client of a library that    *)
(* resumes (AnyCable, Socket.io with CSR) may keep its place in the room   *)
(* while it is down, and then nothing is lost on it.  Abstracted: pacing,  *)
(* rates per second, the server's fan-out below a connection's order.      *)
(***************************************************************************)
EXTENDS Results

CONSTANTS
  Bench,           \* the benches, each in a bench-runner of its own
  PerRunner,       \* n, the clients of each
  Setups,          \* the tests looked at, their targets and publisher's modes
  Msgs,            \* ?msgs of a jitter test
  TotalMsgs,       \* ?total of a throughput test
  LatencyOf,       \* the latency of each runner's messages
  MaxFaults        \* bound: attempts, connections and messages that get lost

ASSUME ThroughputAssumption ==
  /\ Setups \subseteq
            {"throughput"} \X {"anycable", "anycable-cluster", "socketio", "socketio-csr",
                              "socketio-redis", "uws"} \X {"serial", "pool", "fireforget", "nats"}
       \cup {"jitter"} \X {"anycable", "socketio", "socketio-csr", "uws"} \X {"serial"}
  /\ {PerRunner, Msgs, TotalMsgs, MaxFaults} \subseteq Nat
  /\ LatencyOf \in [Bench -> [1..Max({Msgs, TotalMsgs}) -> Nat]]

VARIABLES
  setup,        \* the test, its target and the publisher's mode
  stage,        \* where each bench is
  seq,          \* the last message each runner dispatched
  onTheWire,    \* published messages that neither arrived nor got lost
  conn,         \* each client's connection
  inRoom,       \* the clients that the server sends the stream's messages to
  wire,         \* the messages on their way to each client
  stats,        \* each client's ClientStat
  heard,        \* history: the messages each client got, with their runner
  summary,      \* what each runner returned
  faults

clientVars == <<conn, inRoom, wire, stats, heard>>
benchVars == <<setup, stage, seq, onTheWire, clientVars, summary, faults>>

Client == Bench \X (1..PerRunner)

ClientsOf(r) == {r} \X (1..PerRunner)

Test == setup[1]
Target == setup[2]
Mode == setup[3]

\* totalMessages
TotalMessages == IF Test = "jitter" THEN Msgs ELSE TotalMsgs

Seqs == 1..TotalMessages

NoSummary == [clients |-> 0]

BenchTypeOK ==
  /\ setup \in Setups
  /\ stage \in [Bench -> {"ramp", "publish", "drain", "returned", "rejected"}]
  /\ seq \in [Bench -> 0..TotalMessages]
  /\ onTheWire \in [Bench -> SUBSET Seqs]
  /\ conn \in [Client -> {"absent", "connecting", "up", "down", "reconnecting", "closed"}]
  /\ inRoom \subseteq Client
  /\ \A c \in Client : wire[c] \in Seq(Bench \X Seqs) /\ stats[c].received \subseteq Seqs
  /\ heard \in [Client -> SUBSET (Bench \X Seqs)]
  /\ faults \in 0..MaxFaults

BenchInit ==
  /\ setup \in Setups
  /\ stage = [r \in Bench |-> "ramp"]
  /\ seq = [r \in Bench |-> 0]
  /\ onTheWire = [r \in Bench |-> {}]
  /\ conn = [c \in Client |-> "absent"]
  /\ inRoom = {}
  /\ wire = [c \in Client |-> <<>>]
  /\ stats = [c \in Client |-> NewStat]
  /\ heard = [c \in Client |-> {}]
  /\ summary = [r \in Bench |-> NoSummary]
  /\ faults = 0

Fault == faults < MaxFaults /\ faults' = faults + 1

----------------------------------------------------------------------------
(* The clients. *)

\* The servers that let a client resume, and the tests whose clients come back.
Resumes == Target \in {"anycable", "anycable-cluster", "socketio-csr"}

Reconnects == Test = "jitter" \/ Resumes

\* Cables have no listener for a failed attempt.
CountsFailures == Target \notin {"anycable", "anycable-cluster"}

\* The ramp creates the next client.
CreateClient(r) ==
  /\ stage[r] = "ramp"
  /\ \E i \in 1..PerRunner :
       /\ \A j \in 1..PerRunner : conn[<<r, j>>] = "absent" <=> j >= i
       /\ conn' = [conn EXCEPT ![<<r, i>>] = "connecting"]
  /\ UNCHANGED <<setup, stage, seq, onTheWire, inRoom, wire, stats, heard, summary, faults>>

\* connect, open: "join" or "subscribe" is sent and handled, or the session is
\* resumed.  The fresh sockets of the Socket.io jitter test set no everConnected.
Connects(c) ==
  /\ conn[c] \in {"connecting", "reconnecting"}
  /\ conn' = [conn EXCEPT ![c] = "up"]
  /\ inRoom' = inRoom \cup {c}
  /\ stats' = [stats EXCEPT
       ![c].everConnected = @ \/ conn[c] = "connecting" \/ setup # <<"jitter", "socketio", "serial">>,
       ![c].recoveredCount = @ + IF Test = "jitter" /\ Target = "socketio-csr" /\ c \in inRoom
                                 THEN 1 ELSE 0]
  /\ UNCHANGED <<setup, stage, seq, onTheWire, wire, heard, summary, faults>>

\* connect_error, error
ConnectFails(c) ==
  /\ conn[c] \in {"connecting", "reconnecting"}
  /\ Fault
  /\ conn' = [conn EXCEPT ![c] = "down"]
  /\ stats' = [stats EXCEPT ![c].failedConnects = IF CountsFailures THEN @ + 1 ELSE @]
  /\ UNCHANGED <<setup, stage, seq, onTheWire, inRoom, wire, heard, summary>>

\* A connection breaks, or the jitter loop breaks it, once all are ramped; the
\* server may keep the place of a client that can resume.
Breaks(c, jitter) ==
  /\ conn[c] = "up"
  /\ jitter => Test = "jitter" /\ stage[c[1]] = "publish"
  /\ Fault
  /\ conn' = [conn EXCEPT ![c] = "down"]
  /\ stats' = [stats EXCEPT ![c].jitterCount = IF jitter THEN @ + 1 ELSE @]
  /\ \/ Resumes /\ UNCHANGED <<inRoom, wire>>
     \/ inRoom' = inRoom \ {c} /\ wire' = [wire EXCEPT ![c] = <<>>]
  /\ UNCHANGED <<setup, stage, seq, onTheWire, heard, summary>>

Retries(c) ==
  /\ conn[c] = "down"
  /\ Reconnects
  /\ conn' = [conn EXCEPT ![c] = "reconnecting"]
  /\ UNCHANGED <<setup, stage, seq, onTheWire, inRoom, wire, stats, heard, summary, faults>>

\* The listener of "message".
Receives(c) ==
  /\ conn[c] = "up"
  /\ wire[c] # <<>>
  /\ LET from == Head(wire[c])[1]
         n == Head(wire[c])[2]
     IN /\ stats' = [stats EXCEPT ![c] = RecordMsg(@, n, LatencyOf[from][n])]
        /\ heard' = [heard EXCEPT ![c] = @ \cup {<<from, n>>}]
  /\ wire' = [wire EXCEPT ![c] = Tail(@)]
  /\ UNCHANGED <<setup, stage, seq, onTheWire, conn, inRoom, summary, faults>>

----------------------------------------------------------------------------
(* Publishing. *)

\* Every server takes serial, pool and fireforget for HTTP; only AnyCable has
\* NATS, so that "nats" means /publish-local at the others, and a Redis pair
\* publishes "serial" from inside too.
Via ==
  CASE Target \in {"anycable", "anycable-cluster"} -> IF Mode = "nats" THEN "nats" ELSE "http"
    [] Target = "socketio-redis" -> IF Mode \in {"pool", "fireforget"} THEN "http" ELSE "local"
    [] OTHER -> IF Mode = "nats" THEN "local" ELSE "http"

\* All clients are there, connected or not, and the settle time is over.
RampEnds(r) ==
  /\ stage[r] = "ramp"
  /\ \A c \in ClientsOf(r) : conn[c] # "absent"
  /\ stage' = [stage EXCEPT ![r] = "publish"]
  /\ UNCHANGED <<setup, seq, onTheWire, clientVars, summary, faults>>

\* The next message leaves the runner.
Dispatches(r) ==
  /\ stage[r] = "publish"
  /\ Via # "local"
  /\ seq[r] < TotalMessages
  /\ Mode = "serial" => onTheWire[r] = {}
  /\ seq' = [seq EXCEPT ![r] = @ + 1]
  /\ onTheWire' = [onTheWire EXCEPT ![r] = @ \cup {seq[r] + 1}]
  /\ UNCHANGED <<setup, stage, clientVars, summary, faults>>

\* POST /publish-local is answered and the server's loop begins, or it fails.
KicksOff(r) ==
  /\ stage[r] = "publish"
  /\ Via = "local"
  /\ seq[r] < TotalMessages
  /\ seq' = [seq EXCEPT ![r] = TotalMessages]
  /\ \/ onTheWire' = [onTheWire EXCEPT ![r] = Seqs] /\ UNCHANGED faults
     \/ Fault /\ UNCHANGED onTheWire
  /\ UNCHANGED <<setup, stage, clientVars, summary>>

\* The server broadcasts a message to those in the stream's room; what it
\* publishes itself or takes from the NATS connection, in order.
Broadcast(r, n, audience) ==
  /\ n \in onTheWire[r]
  /\ Via # "http" => \A m \in onTheWire[r] : n <= m
  /\ onTheWire' = [onTheWire EXCEPT ![r] = @ \ {n}]
  /\ wire' = [c \in Client |-> IF c \in audience THEN Append(wire[c], <<r, n>>) ELSE wire[c]]
  /\ UNCHANGED <<setup, stage, seq, conn, inRoom, stats, heard, summary, faults>>

\* A request dies or is refused; its publisher goes on.
Dies(r, n) ==
  /\ n \in onTheWire[r]
  /\ Via # "local"
  /\ Fault
  /\ onTheWire' = [onTheWire EXCEPT ![r] = @ \ {n}]
  /\ UNCHANGED <<setup, stage, seq, clientVars, summary>>

\* publishingMs is taken: the publisher returned, or the nominal time passed.
PublishEnds(r) ==
  /\ stage[r] = "publish"
  /\ seq[r] = TotalMessages
  /\ Via = "http" => onTheWire[r] = {}
  /\ stage' = [stage EXCEPT ![r] = "drain"]
  /\ UNCHANGED <<setup, seq, onTheWire, clientVars, summary, faults>>

\* natsConnect rejects, there is no natsUrl, or the connection is lost while it
\* publishes: nobody tears the clients down.
PublisherThrows(r) ==
  /\ stage[r] = "publish"
  /\ Via = "nats"
  /\ stage' = [stage EXCEPT ![r] = "rejected"]
  /\ UNCHANGED <<setup, seq, onTheWire, clientVars, summary, faults>>

\* The drain is over: every client is closed and the run is summarized.  A
\* throughput bench gives summarize no cap.
BenchReturns(r, cap) ==
  /\ stage[r] = "drain"
  /\ stage' = [stage EXCEPT ![r] = "returned"]
  /\ conn' = [c \in Client |-> IF c \in ClientsOf(r) THEN "closed" ELSE conn[c]]
  /\ inRoom' = inRoom \ ClientsOf(r)
  /\ wire' = [c \in Client |-> IF c \in ClientsOf(r) THEN <<>> ELSE wire[c]]
  /\ summary' = [summary EXCEPT ![r] =
       Summarize([c \in ClientsOf(r) |-> stats[c]], TotalMessages,
                 IF Test = "jitter" THEN cap ELSE 0)]
  /\ UNCHANGED <<setup, seq, onTheWire, stats, heard, faults>>

Clients ==
  \E c \in Client :
    \/ Connects(c) \/ ConnectFails(c) \/ Retries(c) \/ Receives(c)
    \/ \E jitter \in BOOLEAN : Breaks(c, jitter)

\* What the runner itself does, and its requests, but for its return.
Runs(r) ==
  \/ CreateClient(r)
  \/ RampEnds(r)
  \/ Dispatches(r)
  \/ KicksOff(r)
  \/ PublishEnds(r)
  \/ PublisherThrows(r)
  \/ \E n \in Seqs : Dies(r, n)

=============================================================================
