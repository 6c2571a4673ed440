--------------------------- MODULE ReconnectingWs ---------------------------
(***************************************************************************)
(* One uWS client of the jitter bench: class ReconnectingWs and the jitter *)
(* loop of runJitterUws (backend/src/lib/jitter-uws.ts), against the topic *)
(* of backend/src/uws/server.ts.                                           *)
(*                                                                         *)
(* conns holds every WebSocket the client ever made, the last one being    *)
(* this.ws.  Of the `ws` package the code relies on: a handshake opens, or *)
(* is refused ("error", then "close"), or gets an HTTP response, which a   *)
(* listener of "unexpected-response" takes over, so that nothing follows;  *)
(* terminate() and close() end a socket, whose "close" comes later and     *)
(* once.  (What still comes in while close() shakes hands comes after the  *)
(* result is summed up, and is left out.)                                  *)
(*                                                                         *)
(* Abstracted: time (backoff and its jitter, the offline window) and the   *)
(* publisher, which is module Publisher's; here the server broadcasts seq  *)
(* 1, 2, ... as the serial mode has it do.                                 *)
(***************************************************************************)
EXTENDS Naturals, Sequences, FiniteSets

CONSTANTS
  Total,       \* messages broadcast on the topic
  MaxFaults    \* bound: failures and terminations in one behaviour

ASSUME ReconnectingWsAssumption ==
  /\ Total \in Nat
  /\ MaxFaults \in Nat

VARIABLES
  conns,          \* the state of each socket made
  closed,         \* this.closed
  timers,         \* reconnect timers pending; this.reconnectTimer is set iff > 0
  subscribing,    \* sockets whose subscribe frame is on its way
  subscribed,     \* sockets the server sends the topic's messages to
  wire,           \* the messages on their way on each socket
  lastSeq,        \* the last message broadcast
  received,       \* what recordMsg recorded, in order
  failedConnects, jitterCount, everConnected,    \* of the ClientStat
  faults          \* how much went wrong so far

serverVars == <<subscribing, subscribed, wire, lastSeq>>
statVars == <<received, failedConnects, jitterCount, everConnected>>
vars == <<conns, closed, timers, serverVars, statVars, faults>>

ConnState == {"connecting", "open", "answered", "refused", "dead", "closed"}

\* readyState OPEN or CONNECTING.
Live == {"connecting", "answered", "open"}

Conns == 1..Len(conns)

\* The state of this.ws.
Current == IF conns = <<>> THEN "none" ELSE conns[Len(conns)]

TypeOK ==
  /\ conns \in Seq(ConnState)
  /\ closed \in BOOLEAN
  /\ timers \in Nat
  /\ subscribing \subseteq Conns
  /\ subscribed \subseteq Conns
  /\ wire \in Seq(Seq(1..Total)) /\ Len(wire) = Len(conns)
  /\ lastSeq \in 0..Total
  /\ received \in Seq(1..Total)
  /\ failedConnects \in Nat
  /\ jitterCount \in Nat
  /\ everConnected \in BOOLEAN
  /\ faults \in 0..MaxFaults

\* The constructor connects; that of the WebSocket can throw.
Init ==
  /\ \/ /\ conns = <<"connecting">>
        /\ wire = << <<>> >>
        /\ timers = 0
        /\ failedConnects = 0
     \/ /\ conns = <<>>
        /\ wire = <<>>
        /\ timers = 1
        /\ failedConnects = 1
  /\ closed = FALSE
  /\ subscribing = {}
  /\ subscribed = {}
  /\ lastSeq = 0
  /\ received = <<>>
  /\ jitterCount = 0
  /\ everConnected = FALSE
  /\ faults = 0

----------------------------------------------------------------------------
(* The client. *)

\* this.closed not looked at.
ScheduleReconnect_Closed == IF timers > 0 THEN 0 ELSE 1

\* How many timers scheduleReconnect() adds.
ScheduleReconnect == IF closed \/ timers > 0 THEN 0 ELSE 1

\* The frame sent on the first connection only.
SubscribeFrames_Once(i) == IF everConnected THEN {} ELSE {i}

SubscribeFrames(i) == {i}

\* "open": the subscribe frame goes out on every connection.
Opens(i) ==
  /\ conns[i] = "connecting"
  /\ conns' = [conns EXCEPT ![i] = "open"]
  /\ everConnected' = TRUE
  /\ subscribing' = subscribing \cup SubscribeFrames(i)
  /\ UNCHANGED <<closed, timers, subscribed, wire, lastSeq, received, failedConnects, jitterCount,
                 faults>>

\* The network's part: a handshake is refused, an open connection breaks.
Fails(i) ==
  /\ faults < MaxFaults
  /\ faults' = faults + 1
  /\ conns[i] \in {"connecting", "open"}
  /\ conns' = [conns EXCEPT ![i] = IF @ = "open" THEN "dead" ELSE "refused"]
  /\ wire' = [wire EXCEPT ![i] = <<>>]
  /\ UNCHANGED <<closed, timers, subscribing, subscribed, lastSeq, statVars>>

\* "unexpected-response": counted, and the socket stays CONNECTING.
UnexpectedResponse(i) ==
  /\ faults < MaxFaults
  /\ faults' = faults + 1
  /\ conns[i] = "connecting"
  /\ conns' = [conns EXCEPT ![i] = "answered"]
  /\ failedConnects' = failedConnects + 1
  /\ UNCHANGED <<closed, timers, serverVars, received, jitterCount, everConnected>>

\* "close": another connection is scheduled, unless close() was called.  The
\* "error" before it has a listener that does nothing.
CloseEvent(i) ==
  /\ conns[i] \in {"refused", "dead"}
  /\ conns' = [conns EXCEPT ![i] = "closed"]
  /\ timers' = timers + ScheduleReconnect
  /\ UNCHANGED <<closed, serverVars, statVars, faults>>

\* setInterval for setTimeout.
Fired_Interval == timers

Fired == timers - 1

\* The timer: connect().  The constructor of a WebSocket can throw, and the
\* next timer is set.  (connect() of a closed client returns at once: close()
\* has cleared the timer by then, see QuietAfterClose.)
TimerFires(throws) ==
  /\ timers > 0
  /\ ~closed
  /\ IF throws
     THEN /\ faults < MaxFaults
          /\ faults' = faults + 1
          /\ failedConnects' = failedConnects + 1
          /\ UNCHANGED <<conns, wire, timers>>
     ELSE /\ timers' = Fired
          /\ conns' = Append(conns, "connecting")
          /\ wire' = Append(wire, <<>>)
          /\ UNCHANGED <<failedConnects, faults>>
  /\ UNCHANGED <<closed, subscribing, subscribed, lastSeq, received, jitterCount, everConnected>>

\* "message": recordMsg.  Ended sockets emit none.
Message(i) ==
  /\ conns[i] = "open"
  /\ wire[i] # <<>>
  /\ received' = Append(received, Head(wire[i]))
  /\ wire' = [wire EXCEPT ![i] = Tail(@)]
  /\ UNCHANGED <<conns, closed, timers, subscribing, subscribed, lastSeq, failedConnects,
                 jitterCount, everConnected, faults>>

\* terminate() and close() of this.ws.
Severed == [i \in Conns |-> IF i = Len(conns) /\ conns[i] \in Live THEN "dead" ELSE conns[i]]

Unsent == [i \in Conns |-> IF i = Len(conns) THEN <<>> ELSE wire[i]]

\* terminate() of the jitter loop: true for a socket that was live.
Terminate ==
  /\ ~closed
  /\ conns # <<>>
  /\ faults < MaxFaults
  /\ faults' = faults + 1
  /\ jitterCount' = jitterCount + IF Current \in Live THEN 1 ELSE 0
  /\ conns' = Severed
  /\ wire' = Unsent
  /\ UNCHANGED <<closed, timers, subscribing, subscribed, lastSeq, received, failedConnects,
                 everConnected>>

TimersAfterClose == 0

\* close(), when the publisher and the jitter loops have ended.
Close ==
  /\ ~closed
  /\ closed' = TRUE
  /\ timers' = TimersAfterClose
  /\ conns' = Severed
  /\ wire' = Unsent
  /\ UNCHANGED <<subscribing, subscribed, lastSeq, statVars, faults>>

----------------------------------------------------------------------------
(* The server. *)

\* The last message sent again to whom subscribes.
SubscribeArrives_Retained(i) ==
  /\ i \in subscribing
  /\ subscribing' = subscribing \ {i}
  /\ subscribed' = IF conns[i] = "open" THEN subscribed \cup {i} ELSE subscribed
  /\ wire' = IF conns[i] = "open" /\ lastSeq > 0 THEN [wire EXCEPT ![i] = Append(@, lastSeq)] ELSE wire
  /\ UNCHANGED <<conns, closed, timers, lastSeq, statVars, faults>>

\* The `message` handler: {type: "subscribe"}.  The frame of a socket that
\* ended is gone, or subscribes a connection whose messages go nowhere.
SubscribeArrives(i) ==
  /\ i \in subscribing
  /\ subscribing' = subscribing \ {i}
  /\ subscribed' = IF conns[i] = "open" THEN subscribed \cup {i} ELSE subscribed
  /\ UNCHANGED <<conns, closed, timers, wire, lastSeq, statVars, faults>>

MoreToSend == lastSeq < Total

\* app.publish(): to every connection subscribed; one that has ended, noticed
\* by the server or not, gets nothing any more.
Broadcast ==
  /\ MoreToSend
  /\ lastSeq' = lastSeq + 1
  /\ wire' = [i \in Conns |->
       IF i \in subscribed /\ conns[i] = "open" THEN Append(wire[i], lastSeq + 1) ELSE wire[i]]
  /\ UNCHANGED <<conns, closed, timers, subscribing, subscribed, statVars, faults>>

Client(i) == Opens(i) \/ CloseEvent(i) \/ Message(i)

Next ==
  \/ \E i \in Conns : Client(i) \/ Fails(i) \/ UnexpectedResponse(i) \/ SubscribeArrives(i)
  \/ \E throws \in BOOLEAN : TimerFires(throws)
  \/ Terminate
  \/ Close
  \/ Broadcast

\* The event loop delivers what has happened, timers fire, handshakes end and
\* frames arrive.  Nothing makes the network fail or the run end.
Fairness ==
  /\ \A i \in 1..(MaxFaults + 1) : WF_vars(i \in Conns /\ (Client(i) \/ SubscribeArrives(i)))
  /\ WF_vars(TimerFires(FALSE))
  /\ WF_vars(Broadcast)

Spec == Init /\ [][Next]_vars /\ Fairness

----------------------------------------------------------------------------
(* Properties. *)

\* A client is at one place at a time: one live socket, or one ended socket
\* whose "close" is to come, or one timer.  Two would double its load on the
\* server and its deliveries.
OneConnection ==
  /\ \A i, k \in Conns : conns[i] # "closed" /\ conns[k] # "closed" => i = k
  /\ timers > 0 => timers = 1 /\ \A i \in Conns : conns[i] = "closed"

\* No message is recorded twice or before an earlier one, over any number of
\* reconnects: the latencies hold one sample for each message received.
RecordedInOrder ==
  \A i, k \in 1..Len(received) : i < k => received[i] < received[k]

\* After close() no timer is left and no socket, of this connection or an
\* earlier one, lives: a finished bench does not disturb the next one.
QuietAfterClose ==
  closed => timers = 0 /\ \A i \in Conns : conns[i] \notin Live

\* A client whose socket ended is subscribed again before it misses the end of
\* the run, unless it is closed or its handshake got an HTTP response: that
\* attempt is over for the server and not for the client.
Resubscribes ==
  (Current \in {"none", "refused", "dead", "closed"})
    ~> (closed \/ Current = "answered" \/ Len(conns) \in subscribed)

=============================================================================
