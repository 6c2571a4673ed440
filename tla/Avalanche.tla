----------------------------- MODULE Avalanche -----------------------------
(***************************************************************************)
(* The accounting of the avalanche bench: runAvalancheSocketio             *)
(* (backend/src/lib/avalanche-runner.ts) and runAvalancheUws               *)
(* (avalanche-uws.ts).  Clients ramp up, the operator restarts the server, *)
(* and the runner counts disconnects and reconnects until 95% are back or  *)
(* a deadline passes.                                                      *)
(*                                                                         *)
(* The server, the network and the restart are Drop: a connection that     *)
(* breaks, at any time.  A client that is down is retried by its library   *)
(* (Socket.io) or by scheduleReconnect (uWS, see module ReconnectingWs).   *)
(* The reconnect waits are left out.  The runner polls its deadlines (every *)
(* 200 and 500 ms): it may be one tick late.  drops, back and flapped are  *)
(* history: what really happened, which the code does not know.            *)
(***************************************************************************)
EXTENDS Naturals, Sequences, FiniteSets

CONSTANTS
  Client,         \* the clients of the run
  Prearm,         \* prearmSec, in ticks
  RecoveryWait,   \* recoveryWaitSec, in ticks
  MaxFaults       \* bound: connections and attempts that fail in one behaviour

ASSUME AvalancheAssumption ==
  /\ IsFiniteSet(Client)
  /\ Prearm \in Nat
  /\ RecoveryWait \in Nat
  /\ MaxFaults \in Nat

\* The clock runs one tick past each of the two deadlines.
MaxClock == Prearm + RecoveryWait + 3

VARIABLES
  variant,            \* which of the two runners
  now,                \* Date.now(); 0 is "not yet"
  pc,                 \* where the runner is
  conn,               \* each client's connection
  once,               \* the clients that connected in the ramp (initiallyConnectedOnce)
  initiallyConnected, disconnected, reconnected,
  reconnectTimes,
  restartDetectedAt, allDisconnectedAt, allReconnectedAt,
  deadline,           \* armDeadline, then recoveryDeadline
  drops,              \* how often each client's connection broke after the ramp
  back,               \* the clients that connected after the ramp
  flapped,            \* the clients whose connection broke in the ramp
  faults              \* how much went wrong so far

times == <<restartDetectedAt, allDisconnectedAt>>
history == <<drops, back, flapped>>
vars == <<variant, now, pc, conn, once, initiallyConnected, disconnected, reconnected,
          reconnectTimes, times, allReconnectedAt, deadline, history, faults>>

TypeOK ==
  /\ variant \in {"socketio", "uws"}
  /\ now \in 1..MaxClock
  /\ pc \in {"ramp", "arm", "recover", "teardown", "returned"}
  /\ conn \in [Client -> {"absent", "down", "up", "closed"}]
  /\ once \in SUBSET Client
  /\ initiallyConnected \in Nat
  /\ disconnected \in Nat
  /\ reconnected \in Nat
  /\ reconnectTimes \in Seq(Nat) /\ Len(reconnectTimes) = reconnected
  /\ restartDetectedAt \in 0..MaxClock
  /\ allDisconnectedAt \in 0..MaxClock
  /\ allReconnectedAt \in 0..MaxClock
  /\ deadline \in Nat
  /\ drops \in [Client -> Nat]
  /\ back \in SUBSET Client
  /\ flapped \in SUBSET Client
  /\ faults \in 0..MaxFaults

Init ==
  /\ variant \in {"socketio", "uws"}
  /\ now = 1
  /\ pc = "ramp"
  /\ conn = [c \in Client |-> "absent"]
  /\ once = {}
  /\ initiallyConnected = 0
  /\ disconnected = 0
  /\ reconnected = 0
  /\ reconnectTimes = <<>>
  /\ restartDetectedAt = 0
  /\ allDisconnectedAt = 0
  /\ allReconnectedAt = 0
  /\ deadline = 0
  /\ drops = [c \in Client |-> 0]
  /\ back = {}
  /\ flapped = {}
  /\ faults = 0

----------------------------------------------------------------------------
(* The listeners. *)

\* One client is enough.
NinetyFive_Any(count) == count > 0

\* count >= initiallyConnected * 0.95
NinetyFive(count) == 20 * count >= 19 * initiallyConnected

\* The listeners never stop counting.
Listening_Always == pc # "ramp"

\* initialConnectDone && !tearingDown
Listening == pc \in {"arm", "recover"}

\* A connect in the ramp: Socket.io counts each, uWS the first of a client.
CountsInitial(c) == variant = "socketio" \/ c \notin once

\* A connect after the ramp, the first of a client or not: a reconnect as soon
\* as a restart was detected.
Reconnects ==
  IF restartDetectedAt > 0
  THEN /\ reconnected' = reconnected + 1
       /\ reconnectTimes' = Append(reconnectTimes, now - restartDetectedAt)
       /\ allReconnectedAt' = IF NinetyFive(reconnected + 1) /\ allReconnectedAt = 0
                              THEN now ELSE allReconnectedAt
  ELSE UNCHANGED <<reconnected, reconnectTimes, allReconnectedAt>>

\* "connect" / "open"
Connects(c) ==
  /\ conn[c] = "down"
  /\ conn' = [conn EXCEPT ![c] = "up"]
  /\ IF pc = "ramp"
     THEN /\ once' = once \cup {c}
          /\ initiallyConnected' = initiallyConnected + IF CountsInitial(c) THEN 1 ELSE 0
          /\ UNCHANGED <<reconnected, reconnectTimes, allReconnectedAt, back>>
     ELSE /\ Reconnects
          /\ back' = back \cup {c}
          /\ UNCHANGED <<once, initiallyConnected>>
  /\ UNCHANGED <<variant, now, pc, disconnected, times, deadline, drops, flapped, faults>>

\* uWS counts only clients that connected in the ramp.
CountsDisconnect(c) == Listening /\ (variant = "socketio" \/ c \in once)

\* The restart is detected once every client is down.
IsRestart_All(count) == count = initiallyConnected

\* The first disconnect is the restart.
IsRestart(count) == count = 1

\* "disconnect" / "close"
Disconnected(c) ==
  IF CountsDisconnect(c)
  THEN /\ disconnected' = disconnected + 1
       /\ restartDetectedAt' = IF IsRestart(disconnected + 1) THEN now
                               ELSE restartDetectedAt
       /\ allDisconnectedAt' = IF disconnected + 1 = initiallyConnected THEN now
                               ELSE allDisconnectedAt
  ELSE UNCHANGED <<disconnected, times>>

\* A connection breaks: by the restart, by a transient failure.
Drop(c) ==
  /\ faults < MaxFaults
  /\ faults' = faults + 1
  /\ conn[c] = "up"
  /\ conn' = [conn EXCEPT ![c] = "down"]
  /\ Disconnected(c)
  /\ IF pc = "ramp"
     THEN flapped' = flapped \cup {c} /\ UNCHANGED drops
     ELSE drops' = [drops EXCEPT ![c] = @ + 1] /\ UNCHANGED flapped
  /\ UNCHANGED <<variant, now, pc, once, initiallyConnected, reconnected, reconnectTimes,
                 allReconnectedAt, deadline, back>>

\* An attempt to connect fails: a uWS socket emits "close" then too, and the
\* listener cannot tell.  (Socket.io emits "connect_error", to no listener.)
AttemptFails(c) ==
  /\ variant = "uws"
  /\ faults < MaxFaults
  /\ faults' = faults + 1
  /\ conn[c] = "down"
  /\ Disconnected(c)
  /\ UNCHANGED <<variant, now, pc, conn, once, initiallyConnected, reconnected,
                 reconnectTimes, allReconnectedAt, deadline, history>>

----------------------------------------------------------------------------
(* The runner. *)

\* The next client is created, with its listeners.
RampUp(c) ==
  /\ pc = "ramp"
  /\ conn[c] = "absent"
  /\ conn' = [conn EXCEPT ![c] = "down"]
  /\ UNCHANGED <<variant, now, pc, once, initiallyConnected, disconnected, reconnected,
                 reconnectTimes, times, allReconnectedAt, deadline, history, faults>>

\* initialConnectDone = true, and the clock of the arm window starts.
RampEnds ==
  /\ pc = "ramp"
  /\ \A c \in Client : conn[c] # "absent"
  /\ pc' = "arm"
  /\ deadline' = now + Prearm
  /\ UNCHANGED <<variant, now, conn, once, initiallyConnected, disconnected, reconnected,
                 reconnectTimes, times, allReconnectedAt, history, faults>>

\* The runner waits for the restart, however long it takes.
ArmTimedOut_Never == FALSE

ArmTimedOut == now >= deadline

\* The restart was detected, or the arm window is over without one.
ArmEnds ==
  /\ pc = "arm"
  /\ IF restartDetectedAt = 0
     THEN ArmTimedOut /\ pc' = "teardown" /\ UNCHANGED deadline
     ELSE pc' = "recover" /\ deadline' = restartDetectedAt + RecoveryWait
  /\ UNCHANGED <<variant, now, conn, once, initiallyConnected, disconnected, reconnected,
                 reconnectTimes, times, allReconnectedAt, history, faults>>

\* 95% counted back, or the deadline.
RecoveryEnds ==
  /\ pc = "recover"
  /\ NinetyFive(reconnected) \/ now >= deadline
  /\ allReconnectedAt' = IF allReconnectedAt = 0 THEN now ELSE allReconnectedAt
  /\ pc' = "teardown"
  /\ UNCHANGED <<variant, now, conn, once, initiallyConnected, disconnected, reconnected,
                 reconnectTimes, times, deadline, history, faults>>

\* tearingDown: one client after the other is closed, and its listener called.
Close(c) ==
  /\ pc = "teardown"
  /\ conn[c] \in {"up", "down"}
  /\ conn' = [conn EXCEPT ![c] = "closed"]
  /\ IF conn[c] = "up" THEN Disconnected(c) ELSE UNCHANGED <<disconnected, times>>
  /\ UNCHANGED <<variant, now, pc, once, initiallyConnected, reconnected, reconnectTimes,
                 allReconnectedAt, deadline, history, faults>>

\* The result is computed from the counters.
Returns ==
  /\ pc = "teardown"
  /\ \A c \in Client : conn[c] = "closed"
  /\ pc' = "returned"
  /\ UNCHANGED <<variant, now, conn, once, initiallyConnected, disconnected, reconnected,
                 reconnectTimes, times, allReconnectedAt, deadline, history, faults>>

\* No time of the ramp is recorded, and the teardown is one turn of the event
\* loop: the clock runs in between.
TimePasses ==
  /\ pc \in {"arm", "recover"}
  /\ now <= deadline
  /\ now' = now + 1
  /\ UNCHANGED <<variant, pc, conn, once, initiallyConnected, disconnected, reconnected,
                 reconnectTimes, times, allReconnectedAt, deadline, history, faults>>

Finished ==
  /\ pc = "returned"
  /\ UNCHANGED vars

Runner ==
  \/ \E c \in Client : RampUp(c) \/ Close(c)
  \/ RampEnds \/ ArmEnds \/ RecoveryEnds \/ Returns

Network(c) == pc # "teardown" /\ (Connects(c) \/ Drop(c) \/ AttemptFails(c))

Next ==
  \/ Runner
  \/ \E c \in Client : Network(c)
  \/ TimePasses
  \/ Finished

Fairness == WF_vars(Runner) /\ WF_vars(TimePasses)

Spec == Init /\ [][Next]_vars /\ Fairness

----------------------------------------------------------------------------
(* Properties. *)

\* 95% of the clients that connected in the ramp, as the result states it.
EnoughBack(count) == 100 * count >= 95 * initiallyConnected

\* Every time a connection broke after the ramp.
ServerDrops == UNION {{c} \X (1..drops[c]) : c \in Client}

\* The Socket.io runner counts every connection the server dropped after the
\* ramp and none that its own teardown closes (the tearingDown flag).
CountsServerDrops == variant = "socketio" => disconnected = Cardinality(ServerDrops)

\* What the runner's comments assume of a run: every client connected once in
\* the ramp, and lost its connection at most once after it.
OneCycle ==
  /\ once = Client
  /\ flapped = {}
  /\ \A c \in Client : drops[c] <= 1

\* In such a run reconnected is the number of clients that came back, so that
\* neverReconnected is that of the others: the counters, which know no clients,
\* agree with the clients, and no reconnect comes before the restart is detected.
ReconnectedAreBack ==
  OneCycle => /\ initiallyConnected = Cardinality(Client)
              /\ reconnected = Cardinality(back)
              /\ \A c \in back : drops[c] = 1

\* recoveryTimeMs is when the last of 95% reconnected, or the whole window if
\* they did not: never shorter than what it stands for.
RecoveryCoversNinetyFive ==
  pc = "returned" /\ restartDetectedAt > 0 =>
    LET recoveryTimeMs == allReconnectedAt - restartDetectedAt
        inTime == {i \in DOMAIN reconnectTimes : reconnectTimes[i] <= recoveryTimeMs}
    IN recoveryTimeMs >= RecoveryWait \/ EnoughBack(Cardinality(inTime))

\* The bench returns, with or without a restart, even if nobody reconnects.
Terminates == <>(pc = "returned")

=============================================================================
