---------------------------- MODULE JitterClient ----------------------------
(***************************************************************************)
(* One client of the jitter tests of backend/src/lib/jitter-runners.ts:    *)
(* runJitterSocketio ("default"), runJitterSocketioCsr ("csr") and         *)
(* runJitterAnycable ("anycable"), with the server's room and a publisher. *)
(*                                                                         *)
(* The default client has no reconnection: after each jitter the test      *)
(* itself opens a fresh socket and waits for it, 5 seconds at most.  The   *)
(* libraries of the other two reconnect, and resume what the server kept   *)
(* for them.  Every connection attempt is an entry of conns, whichever     *)
(* object it belongs to; the client's messages are recorded from all.      *)
(*                                                                         *)
(* Left out: the pacing, so that jitter may strike at any time, and lost   *)
(* broadcasts (module Publisher).                                          *)
(***************************************************************************)
EXTENDS Naturals, Sequences, FiniteSets

CONSTANTS
  Total,       \* totalMessages
  MaxJitters,  \* bound: rounds of the jitter loop before the test's endAt
  MaxFaults    \* bound: attempts and connections that fail on their own

ASSUME JitterAssumption ==
  /\ Total \in Nat
  /\ MaxJitters \in Nat
  /\ MaxFaults \in Nat

VARIABLES
  variant,     \* which test
  conns,       \* the state of each connection attempt
  current,     \* entry.current of the default test, the latest of the others
  loop,        \* where the jitter loop is
  rounds,      \* how many rounds it began
  joining,     \* connections whose "join" is on its way
  room,        \* connections in the stream's room
  kept,        \* whether the server keeps a session to resume
  wire,        \* the messages on their way on each connection
  seq,         \* the last message broadcast
  received, highestSeq, samples,                             \* of the ClientStat
  everConnected, jitterCount, recoveredCount, failedConnects,
  done,        \* whether the test is over
  drops        \* connections and attempts that failed on their own

server == <<joining, room, kept, wire, seq>>
messages == <<received, highestSeq, samples>>
counts == <<everConnected, jitterCount, recoveredCount, failedConnects>>
vars == <<variant, conns, current, loop, rounds, server, messages, counts, done, drops>>

\* hung: the transport is open and the server's CONNECT packet does not come.
ConnState == {"connecting", "hung", "connected", "closed"}

Conns == DOMAIN conns
Latest == Len(conns)
Reconnecting == variant # "default"

TypeOK ==
  /\ variant \in {"default", "csr", "anycable"}
  /\ conns \in Seq(ConnState)
  /\ current \in Conns
  /\ loop \in {"ready", "offline", "opening"}
  /\ rounds \in 0..MaxJitters
  /\ joining \subseteq Conns
  /\ room \subseteq Conns
  /\ kept \in BOOLEAN
  /\ wire \in Seq(Seq(1..Total)) /\ Len(wire) = Len(conns)
  /\ seq \in 0..Total
  /\ received \subseteq 1..Total
  /\ highestSeq \in 0..Total
  /\ samples \in Nat
  /\ everConnected \in BOOLEAN
  /\ jitterCount \in 0..MaxJitters
  /\ recoveredCount \in Nat
  /\ failedConnects \in Nat
  /\ done \in BOOLEAN
  /\ drops \in 0..MaxFaults

Init ==
  /\ variant \in {"default", "csr", "anycable"}
  /\ conns = <<"connecting">>
  /\ current = 1
  /\ loop = "ready"
  /\ rounds = 0
  /\ joining = {}
  /\ room = {}
  /\ kept = FALSE
  /\ wire = << <<>> >>
  /\ seq = 0
  /\ received = {}
  /\ highestSeq = 0
  /\ samples = 0
  /\ everConnected = FALSE
  /\ jitterCount = 0
  /\ recoveredCount = 0
  /\ failedConnects = 0
  /\ done = FALSE
  /\ drops = 0

----------------------------------------------------------------------------
(* Connections. *)

Opening(i) == conns[i] \in {"connecting", "hung"}

\* The fresh socket that the jitter loop waits for.
Awaited(i) == loop = "opening" /\ i = Latest

\* A fresh socket the loop gave up on: its listeners do nothing any more.
Abandoned(i) == ~Reconnecting /\ i > 1 /\ i # current /\ ~Awaited(i)

\* Every reconnect taken for a resumed one.
CountsResume_Any(resumed) == variant = "csr"

CountsResume(resumed) == variant = "csr" /\ resumed

\* "connect" of the first socket, and of each reconnect of the libraries.  A
\* resumed session is in its room again, its missed messages on their way; any
\* other joins (AnyCable's library subscribes).
Connects(i, resumed) ==
  /\ Opening(i)
  /\ i = 1 \/ Reconnecting
  /\ resumed => kept /\ highestSeq > 0
  /\ conns' = [conns EXCEPT ![i] = "connected"]
  /\ everConnected' = TRUE
  /\ recoveredCount' = recoveredCount + IF CountsResume(resumed) THEN 1 ELSE 0
  /\ kept' = resumed
  /\ IF resumed
     THEN /\ room' = room \cup {i}
          /\ wire' = [wire EXCEPT ![i] = [k \in 1..(seq - highestSeq) |-> highestSeq + k]]
          /\ UNCHANGED joining
     ELSE joining' = joining \cup {i} /\ UNCHANGED <<room, wire>>
  /\ UNCHANGED <<variant, current, loop, rounds, seq, messages, jitterCount, failedConnects,
                 done, drops>>

\* "connect" of a fresh socket, and the loop's continuation if it still waits:
\* join, bindHandlers, entry.current.  everConnected is not set.
FreshConnects(i) ==
  /\ Opening(i)
  /\ ~Reconnecting /\ i > 1
  /\ conns' = [conns EXCEPT ![i] = "connected"]
  /\ IF Awaited(i)
     THEN joining' = joining \cup {i} /\ current' = i /\ loop' = "ready"
     ELSE UNCHANGED <<joining, current, loop>>
  /\ UNCHANGED <<variant, rounds, room, kept, wire, seq, messages, counts, done, drops>>

\* "connect_error", and the loop's catch if it waits for that socket.  AnyCable's
\* failures are not listened to.
CountsFailure(i) == variant # "anycable" /\ ~Abandoned(i)

ConnectFails(i) ==
  /\ drops < MaxFaults
  /\ drops' = drops + 1
  /\ Opening(i)
  /\ conns' = [conns EXCEPT ![i] = "closed"]
  /\ failedConnects' = failedConnects + IF CountsFailure(i) THEN 1 ELSE 0
  /\ loop' = IF Awaited(i) THEN "ready" ELSE loop
  /\ UNCHANGED <<variant, current, rounds, server, messages, everConnected, jitterCount,
                 recoveredCount, done>>

\* The network: a handshake that gets no answer, a connection that breaks.
Hangs(i) ==
  /\ drops < MaxFaults
  /\ drops' = drops + 1
  /\ conns[i] = "connecting"
  /\ conns' = [conns EXCEPT ![i] = "hung"]
  /\ UNCHANGED <<variant, current, loop, rounds, server, messages, counts, done>>

Drops(i) ==
  /\ drops < MaxFaults
  /\ drops' = drops + 1
  /\ conns[i] = "connected"
  /\ conns' = [conns EXCEPT ![i] = "closed"]
  /\ wire' = [wire EXCEPT ![i] = <<>>]
  /\ UNCHANGED <<variant, current, loop, rounds, joining, room, kept, seq, messages, counts,
                 done>>

\* The libraries' reconnection, the loop's fresh socket.
Appends(i) ==
  /\ conns' = Append(conns, "connecting")
  /\ wire' = Append(wire, <<>>)
  /\ current' = i
  /\ UNCHANGED <<variant, rounds, joining, room, kept, seq, messages, counts, done, drops>>

Reconnects ==
  /\ Reconnecting
  /\ ~done
  /\ conns[Latest] = "closed"
  /\ Appends(Latest + 1)
  /\ UNCHANGED loop

FreshOpens ==
  /\ loop = "offline"
  /\ loop' = "opening"
  /\ Appends(current)

----------------------------------------------------------------------------
(* The jitter loop. *)

\* The old socket is left open.
Severed_Not == conns

Severed == [conns EXCEPT ![current] = "closed"]

\* terminate, or disconnect, and the offline window.  What is severed while it
\* connects fails.  Whether a closed connection still has a `ws` to terminate,
\* so that it is counted, is up to the library.
Jitter(torn) ==
  /\ ~done
  /\ loop = "ready"
  /\ rounds < MaxJitters
  /\ rounds' = rounds + 1
  /\ conns[current] # "closed" => torn
  /\ jitterCount' = jitterCount + IF torn THEN 1 ELSE 0
  /\ failedConnects' = failedConnects +
       IF Opening(current) /\ CountsFailure(current) THEN 1 ELSE 0
  /\ conns' = Severed
  /\ wire' = [wire EXCEPT ![current] = IF Severed[current] = "closed" THEN <<>> ELSE @]
  /\ loop' = IF Reconnecting THEN "ready" ELSE "offline"
  /\ UNCHANGED <<variant, current, joining, room, kept, seq, messages, everConnected,
                 recoveredCount, done, drops>>

\* Without the timer, connect and connect_error alone end the wait.
WaitIsOver_Never == FALSE

WaitIsOver == loop = "opening"

\* setTimeout(resolve, 5000)
GivesUp ==
  /\ WaitIsOver
  /\ loop' = "ready"
  /\ UNCHANGED <<variant, conns, current, rounds, server, messages, counts, done, drops>>

\* The sockets made at the ramp, in place of those in use.
InUse_First == 1

InUse == current

\* The publisher and the loop have ended: the sockets in use are disconnected.
Ends ==
  /\ ~done
  /\ loop = "ready"
  /\ seq = Total
  /\ done' = TRUE
  /\ conns' = [conns EXCEPT ![InUse] = "closed"]
  /\ wire' = [wire EXCEPT ![InUse] = <<>>]
  /\ UNCHANGED <<variant, current, loop, rounds, joining, room, kept, seq, messages, counts,
                 drops>>

----------------------------------------------------------------------------
(* The server and its messages. *)

\* socket.on("join")
JoinArrives(i) ==
  /\ i \in joining
  /\ joining' = joining \ {i}
  /\ room' = IF conns[i] = "connected" THEN room \cup {i} ELSE room
  /\ kept' = (conns[i] = "connected" \/ kept)
  /\ UNCHANGED <<variant, conns, current, loop, rounds, wire, seq, messages, counts, done,
                 drops>>

\* maxDisconnectionDuration, or the broker's history, is over.
Forgets ==
  /\ kept
  /\ conns[Latest] # "connected"
  /\ kept' = FALSE
  /\ UNCHANGED <<variant, conns, current, loop, rounds, joining, room, wire, seq, messages,
                 counts, done, drops>>

MoreToPublish == seq < Total

\* publish(), and io.to(stream).emit()
Broadcast ==
  /\ MoreToPublish
  /\ seq' = seq + 1
  /\ wire' = [i \in Conns |->
       IF i \in room /\ conns[i] = "connected" THEN Append(wire[i], seq + 1) ELSE wire[i]]
  /\ UNCHANGED <<variant, conns, current, loop, rounds, joining, room, kept, messages, counts,
                 done, drops>>

\* recordMsg
Message(i) ==
  /\ conns[i] = "connected"
  /\ wire[i] # <<>>
  /\ LET n == Head(wire[i]) IN
     /\ received' = received \cup {n}
     /\ highestSeq' = IF n > highestSeq THEN n ELSE highestSeq
     /\ samples' = samples + 1
  /\ wire' = [wire EXCEPT ![i] = Tail(@)]
  /\ UNCHANGED <<variant, conns, current, loop, rounds, joining, room, kept, seq, counts, done,
                 drops>>

----------------------------------------------------------------------------

Finished ==
  /\ done
  /\ UNCHANGED vars

Connection(i) ==
  \/ \E resumed \in BOOLEAN : Connects(i, resumed)
  \/ FreshConnects(i)
  \/ JoinArrives(i)
  \/ Message(i)

Network(i) == ConnectFails(i) \/ Hangs(i) \/ Drops(i)

Test == FreshOpens \/ GivesUp \/ Ends

Next ==
  \/ \E i \in Conns : Connection(i) \/ Network(i)
  \/ Reconnects
  \/ \E torn \in BOOLEAN : Jitter(torn)
  \/ Test
  \/ Forgets
  \/ Broadcast
  \/ Finished

\* The event loop runs timers and continuations, and the publisher's requests
\* return.  Nothing makes a connection attempt end.
Fairness == WF_vars(Test) /\ WF_vars(Broadcast)

Spec == Init /\ [][Next]_vars /\ Fairness

----------------------------------------------------------------------------
(* Properties. *)

\* A message is recorded once, whatever sockets a client has had: there is one
\* latency sample for each delivery counted (latencySamples and
\* receivedDeliveries of the result).
RecordedOnce == samples = Cardinality(received)

\* A session is only resumed after a jitter that was counted, or after a failure
\* of the network's own: without one of those csrResumeRatePct is at most 100.
ResumesWithinJitters == recoveredCount <= jitterCount + drops

\* No connection that can receive outlives the test: the next test on that
\* stream is not slowed down by this one's clients.  A fresh socket that was given
\* up on can, but it is in no room.
EndsClean == done => \A i \in room \cup joining : conns[i] = "closed"

\* The test returns, even if a handshake never gets an answer.
Returns == <>done

=============================================================================
