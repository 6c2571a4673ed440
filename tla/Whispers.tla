------------------------------ MODULE Whispers ------------------------------
(***************************************************************************)
(* The whispers tests (backend/src/lib/whispers-runner.ts) of several      *)
(* bench-runners, the servers' forwarding, and the driver that adds them   *)
(* up (backend/src/bench/whispers-multi.ts).  Clients whisper to the other *)
(* clients of their room, and the rooms are shared by all shards: nothing  *)
(* makes one shard wait for another, and a shard that failed for the       *)
(* driver may go on whispering.                                            *)
(*                                                                         *)
(* A whisper is only counted, so those on their way to a client are a      *)
(* number.  Abstracted: the pacing of the loops, latencies, payloads.      *)
(***************************************************************************)
EXTENDS Results

CONSTANTS
  Shard,         \* the bench-runners
  PerShard,      \* n, the clients of each
  Rooms,         \* p.rooms
  Protocols,     \* the protocols looked at
  MaxWhispers,   \* bound: whispers of a client within testDurationSec
  MaxFaults      \* bound: attempts and connections that fail

ASSUME WhispersAssumption ==
  /\ IsFiniteSet(Shard)
  /\ {PerShard, MaxWhispers, MaxFaults} \subseteq Nat
  /\ Rooms \in Nat \ {0}
  /\ Protocols \subseteq {"anycable", "socketio", "uws"}

VARIABLES
  protocol,
  phase,        \* where each runner is
  conn,         \* each client's connection
  inRoom,       \* the clients the server has in their room
  connected,    \* the clients whose stat.connected is set
  initiallyConnected,
  sent, received,     \* of each ClientStat
  backlog,      \* whispers that Socket.io's client holds until it is connected
  wire,         \* whispers on their way to each client
  outcome,      \* what runShards says of each shard
  result,       \* what each runner returned
  merged,
  exitCode,
  faults

connVars == <<conn, inRoom, connected, initiallyConnected, backlog, wire>>
countVars == <<sent, received>>
driverVars == <<outcome, merged, exitCode>>
vars == <<protocol, phase, connVars, countVars, result, driverVars, faults>>

Client == Shard \X (0..(PerShard - 1))

ClientsOf(s) == {s} \X (0..(PerShard - 1))

RoomOf(c) == c[2] % Rooms

NoResult == [initiallyConnected |-> 0, whispersSent |-> 0, whispersReceived |-> 0]

Running == -1

TypeOK ==
  /\ protocol \in Protocols
  /\ phase \in [Shard -> {"ramp", "whisper", "settle", "returned"}]
  /\ conn \in [Client -> {"absent", "connecting", "up", "down", "closed"}]
  /\ inRoom \subseteq Client
  /\ connected \subseteq Client
  /\ initiallyConnected \in [Shard -> Nat]
  /\ sent \in [Client -> 0..MaxWhispers]
  /\ {received, backlog, wire} \subseteq [Client -> Nat]
  /\ outcome \in [Shard -> {"none", "done", "failed"}]
  /\ exitCode \in {Running, 0, 1}
  /\ faults \in 0..MaxFaults

Zeros == [c \in Client |-> 0]

Init ==
  /\ protocol \in Protocols
  /\ phase = [s \in Shard |-> "ramp"]
  /\ conn = [c \in Client |-> "absent"]
  /\ inRoom = {}
  /\ connected = {}
  /\ initiallyConnected = [s \in Shard |-> 0]
  /\ sent = Zeros
  /\ received = Zeros
  /\ backlog = Zeros
  /\ wire = Zeros
  /\ outcome = [s \in Shard |-> "none"]
  /\ result = [s \in Shard |-> NoResult]
  /\ merged = NoResult
  /\ exitCode = Running
  /\ faults = 0

OneFault == faults < MaxFaults /\ faults' = faults + 1

----------------------------------------------------------------------------
(* The clients. *)

CreateClient(s) ==
  /\ phase[s] = "ramp"
  /\ \E i \in 0..(PerShard - 1) :
       /\ \A j \in 0..(PerShard - 1) : conn[<<s, j>>] = "absent" <=> j >= i
       /\ conn' = [conn EXCEPT ![<<s, i>>] = "connecting"]
  /\ UNCHANGED <<protocol, phase, inRoom, connected, initiallyConnected, backlog, wire,
                 countVars, result, driverVars, faults>>

\* The whole room: `io.to(room)`.
Audience_Everyone(c) == {d \in inRoom : RoomOf(d) = RoomOf(c)}

\* socket.to(room).emit, ws.publish: the sender is left out.
Audience(c) == {d \in inRoom \ {c} : RoomOf(d) = RoomOf(c)}

\* The server forwards so many whispers of a client.
Forwarded(c, count) ==
  [d \in Client |-> IF d \in Audience(c) THEN wire[d] + count ELSE wire[d]]

\* Every connect counted.
FirstConnect_Any(c) == TRUE

\* `if (!stat.connected)`
FirstConnect(c) == c \notin connected

\* connect, open: the first one is counted and joins.  Later ones do not join;
\* the cable of AnyCable subscribes again by itself.  Socket.io's client flushes
\* what it holds.
Opens(c) ==
  /\ conn[c] = "connecting"
  /\ conn' = [conn EXCEPT ![c] = "up"]
  /\ connected' = connected \cup {c}
  /\ initiallyConnected' =
       [initiallyConnected EXCEPT ![c[1]] = IF FirstConnect(c) THEN @ + 1 ELSE @]
  /\ inRoom' = IF FirstConnect(c) \/ protocol = "anycable" THEN inRoom \cup {c} ELSE inRoom
  /\ wire' = Forwarded(c, backlog[c])
  /\ backlog' = [backlog EXCEPT ![c] = 0]
  /\ UNCHANGED <<protocol, phase, countVars, result, driverVars, faults>>

\* An attempt fails, or a connection breaks.
Breaks(c) ==
  /\ conn[c] \in {"connecting", "up"}
  /\ OneFault
  /\ conn' = [conn EXCEPT ![c] = "down"]
  /\ inRoom' = inRoom \ {c}
  /\ wire' = [wire EXCEPT ![c] = 0]
  /\ UNCHANGED <<protocol, phase, connected, initiallyConnected, backlog, countVars, result,
                 driverVars>>

\* The libraries reconnect; a plain WebSocket does not.
Retries(c) ==
  /\ conn[c] = "down"
  /\ protocol # "uws"
  /\ conn' = [conn EXCEPT ![c] = "connecting"]
  /\ UNCHANGED <<protocol, phase, inRoom, connected, initiallyConnected, backlog, wire,
                 countVars, result, driverVars, faults>>

\* A turn of a client's loop.  Socket.io's emit is counted though it is not
\* connected; at the others nothing is sent then, and nothing counted.
Whisper(c) ==
  /\ phase[c[1]] = "whisper"
  /\ sent[c] < MaxWhispers
  /\ \/ conn[c] = "up" /\ wire' = Forwarded(c, 1) /\ UNCHANGED backlog
     \/ /\ conn[c] # "up"
        /\ protocol = "socketio"
        /\ backlog' = [backlog EXCEPT ![c] = @ + 1]
        /\ UNCHANGED wire
  /\ sent' = [sent EXCEPT ![c] = @ + 1]
  /\ UNCHANGED <<protocol, phase, conn, inRoom, connected, initiallyConnected, received, result,
                 driverVars, faults>>

\* The listener of "whisper", "message".
Receives(c) ==
  /\ conn[c] = "up"
  /\ wire[c] > 0
  /\ wire' = [wire EXCEPT ![c] = @ - 1]
  /\ received' = [received EXCEPT ![c] = @ + 1]
  /\ UNCHANGED <<protocol, phase, conn, inRoom, connected, initiallyConnected, backlog, sent,
                 result, driverVars, faults>>

----------------------------------------------------------------------------
(* The runners. *)

Moves(s, from, to) ==
  /\ phase[s] = from
  /\ phase' = [phase EXCEPT ![s] = to]
  /\ UNCHANGED <<protocol, connVars, countVars, result, driverVars, faults>>

\* All are ramped and have settled, connected or not.
RampEnds(s) ==
  /\ \A c \in ClientsOf(s) : conn[c] # "absent"
  /\ Moves(s, "ramp", "whisper")

LoopsEnd(s) == Moves(s, "whisper", "settle")

\* Three seconds later: disconnect all, summarize.
Returns(s) ==
  /\ phase[s] = "settle"
  /\ phase' = [phase EXCEPT ![s] = "returned"]
  /\ conn' = [c \in Client |-> IF c \in ClientsOf(s) THEN "closed" ELSE conn[c]]
  /\ inRoom' = inRoom \ ClientsOf(s)
  /\ wire' = [c \in Client |-> IF c \in ClientsOf(s) THEN 0 ELSE wire[c]]
  /\ result' = [result EXCEPT ![s] =
       [initiallyConnected |-> initiallyConnected[s],
        whispersSent       |-> Total(sent, ClientsOf(s)),
        whispersReceived   |-> Total(received, ClientsOf(s))]]
  /\ UNCHANGED <<protocol, connected, initiallyConnected, backlog, countVars, driverVars, faults>>

----------------------------------------------------------------------------
(* The driver. *)

ShardDone(s) ==
  /\ outcome[s] = "none"
  /\ phase[s] = "returned"
  /\ outcome' = [outcome EXCEPT ![s] = "done"]
  /\ UNCHANGED <<protocol, phase, connVars, countVars, result, merged, exitCode, faults>>

ShardFails(s) ==
  /\ outcome[s] = "none"
  /\ outcome' = [outcome EXCEPT ![s] = "failed"]
  /\ UNCHANGED <<protocol, phase, connVars, countVars, result, merged, exitCode, faults>>

Successes == {s \in Shard : outcome[s] = "done"}

Sums ==
  [field \in DOMAIN NoResult |-> Total([s \in Shard |-> result[s][field]], Successes)]

\* expectedReceived, times the number of rooms: peersPerRoomGlobal is a mean over
\* all rooms.
ExpectedTimesRooms(sums) == sums.whispersSent * Max({0, sums.initiallyConnected - Rooms})

\* deliveryRatePct, in hundredths of a percent
DeliveryRate(sums) ==
  Max({0, Rate(sums.whispersReceived * Rooms, ExpectedTimesRooms(sums))})

Reports ==
  /\ exitCode = Running
  /\ \A s \in Shard : outcome[s] # "none"
  /\ merged' = Sums
  /\ exitCode' = IF Successes = {} \/ DeliveryRate(Sums) < 9900 THEN 1 ELSE 0
  /\ UNCHANGED <<protocol, phase, connVars, countVars, result, outcome, faults>>

----------------------------------------------------------------------------

Exited ==
  /\ exitCode # Running
  /\ UNCHANGED vars

Next ==
  \/ \E c \in Client : Opens(c) \/ Breaks(c) \/ Retries(c) \/ Whisper(c) \/ Receives(c)
  \/ \E s \in Shard : CreateClient(s) \/ RampEnds(s) \/ LoopsEnd(s) \/ Returns(s)
  \/ \E s \in Shard : ShardDone(s) \/ ShardFails(s)
  \/ Reports
  \/ Exited

Spec == Init /\ [][Next]_vars

----------------------------------------------------------------------------
(* Properties. *)

\* When every shard is done, every client was connected at some time and the
\* rooms are as large as each other, no more whispers are reported received than
\* expected, whatever the shards' timing: deliveryRatePct is at most 100, and one
\* client's surplus cannot hide another's loss.
ReceivedWithinExpected ==
  (exitCode # Running /\ Successes = Shard /\ connected = Client /\ PerShard % Rooms = 0) =>
    merged.whispersReceived * Rooms <= ExpectedTimesRooms(merged)

\* The peers of a room are not overcounted by clients that reconnect, so that the
\* expectation is not above what could be delivered.
PeersAreClients ==
  exitCode # Running =>
    merged.initiallyConnected = Cardinality({c \in connected : c[1] \in Successes})

=============================================================================
