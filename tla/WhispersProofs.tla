---------------------------- MODULE WhispersProofs ---------------------------
(***************************************************************************)
(* Theorems about the whispers tests and the driver that adds them up, for *)
(* any number of shards, clients, rooms, whispers and faults.  Whispers    *)
(* are followed from their senders to the sums: no client gets more than   *)
(* left its peers, the results are the sums over a shard's clients as they *)
(* are, and counting the deliveries at the receivers and at the senders    *)
(* gives the number the driver expects.                                    *)
(***************************************************************************)
EXTENDS Whispers, ResultsProofs

\* The clients that share c's room, on every shard.
Peers(c) == {d \in Client \ {c} : RoomOf(d) = RoomOf(c)}

\* Whispers that left their client.
Left == [c \in Client |-> sent[c] - backlog[c]]

ConnectedOf(s) == {c \in connected : c[1] = s}

\* A client is counted when it is first connected.
Counted == \A s \in Shard : initiallyConnected[s] = Cardinality(ConnectedOf(s))

\* A client got no more whispers than left its peers.
Whispered ==
  /\ \A c \in Client : backlog[c] <= sent[c]
  /\ \A d \in Client : received[d] + wire[d] <= Total(Left, Peers(d))

\* A shard that returned is at rest, and its result is what its clients are.
Returned ==
  /\ DOMAIN result = Shard
  /\ \A s \in Shard : phase[s] = "returned" =>
       /\ \A c \in ClientsOf(s) : conn[c] = "closed"
       /\ result[s] = [initiallyConnected |-> initiallyConnected[s],
                       whispersSent       |-> Total(sent, ClientsOf(s)),
                       whispersReceived   |-> Total(received, ClientsOf(s))]

Outcomes ==
  /\ \A s \in Shard : outcome[s] = "done" => phase[s] = "returned"
  /\ exitCode # Running => \A s \in Shard : outcome[s] # "none"

\* What was merged is what the clients of the shards that are done are.
Merged ==
  /\ PeersAreClients
  /\ exitCode # Running /\ Successes = Shard =>
       /\ merged.whispersSent = Total(sent, Client)
       /\ merged.whispersReceived = Total(received, Client)

Inv == TypeOK /\ Counted /\ Whispered /\ Returned /\ Outcomes /\ Merged

----------------------------------------------------------------------------
(* Finite sets of clients. *)

LEMMA Clients ==
  /\ IsFiniteSet(Client)
  /\ \A T \in SUBSET Client : IsFiniteSet(T) /\ Cardinality(T) \in Nat
  /\ \A c \in Client : Peers(c) \in SUBSET Client
  /\ \A s \in Shard : ClientsOf(s) \in SUBSET Client
  /\ \A c \in Client : c[1] \in Shard /\ c \in ClientsOf(c[1])
  /\ \A s \in Shard : \A c \in ClientsOf(s) : c[1] = s
<1>1. PerShard \in Nat
  BY WhispersAssumption DEF WhispersAssumption
<1>2. IsFiniteSet(0..(PerShard - 1))
  BY <1>1, FS_Interval
<1>3. IsFiniteSet(Client)
  BY <1>2, WhispersAssumption, FS_Product DEF Client, WhispersAssumption
<1>4. \A T \in SUBSET Client : IsFiniteSet(T) /\ Cardinality(T) \in Nat
  BY <1>3, FS_Subset, FS_CardinalityType
<1> QED BY <1>3, <1>4 DEF Client, ClientsOf, Peers

LEMMA Values ==
  ASSUME TypeOK
  PROVE  \A c \in Client : sent[c] \in Nat /\ received[c] \in Nat /\ backlog[c] \in Nat /\ wire[c] \in Nat
BY WhispersAssumption DEF TypeOK, WhispersAssumption

\* The whispers of all shards, added up shard by shard.
LEMMA TotalOfShards ==
  ASSUME NEW f, \A c \in Client : f[c] \in Nat, NEW g,
         \A s \in Shard : g[s] = Total(f, ClientsOf(s))
  PROVE  Total(g, Shard) = Total(f, Client)
<1> DEFINE P == [s \in Shard |-> ClientsOf(s)]
<1>1. \A s \in Shard : P[s] \in SUBSET Client
  BY Clients
<1>2. \A c \in Client : \E s \in Shard : c \in P[s]
  BY Clients
<1>3. \A s, t \in Shard : s # t => P[s] \cap P[t] = {}
  BY DEF ClientsOf
<1>4. \A s \in Shard : g[s] = Total(f, P[s])
  OBVIOUS
<1> HIDE DEF P
<1>5. IsFiniteSet(Shard) /\ IsFiniteSet(Client)
  BY Clients, WhispersAssumption DEF WhispersAssumption
<1> QED BY <1>1, <1>2, <1>3, <1>4, <1>5, TotalOfParts

----------------------------------------------------------------------------
(* Types. *)

LEMMA TypeStep ==
  ASSUME TypeOK, [Next]_vars
  PROVE  TypeOK'
<1> USE DEF TypeOK, connVars, countVars, driverVars
<1>0. WhispersAssumption
  BY WhispersAssumption
<1>1. ASSUME NEW c \in Client, Opens(c) PROVE TypeOK'
  <2>1. c[1] \in Shard
    BY Clients
  <2>2. initiallyConnected' \in [Shard -> Nat]
    BY <1>1, <2>1 DEF Opens
  <2>3. wire' \in [Client -> Nat] /\ backlog' \in [Client -> Nat]
    BY <1>1 DEF Opens, Forwarded
  <2>4. conn' \in [Client -> {"absent", "connecting", "up", "down", "closed"}]
    BY <1>1 DEF Opens
  <2>5. inRoom' \subseteq Client /\ connected' \subseteq Client
    BY <1>1 DEF Opens
  <2> QED BY <1>1, <2>2, <2>3, <2>4, <2>5 DEF Opens
<1>2. ASSUME NEW c \in Client, Breaks(c) PROVE TypeOK'
  BY <1>0, <1>2 DEF Breaks, OneFault, WhispersAssumption
<1>3. ASSUME NEW c \in Client, Retries(c) PROVE TypeOK'
  BY <1>3 DEF Retries
<1>4. ASSUME NEW c \in Client, Whisper(c) PROVE TypeOK'
  <2>1. sent' \in [Client -> 0..MaxWhispers]
    BY <1>0, <1>4 DEF Whisper, WhispersAssumption
  <2>2. wire' \in [Client -> Nat] /\ backlog' \in [Client -> Nat]
    BY <1>4 DEF Whisper, Forwarded
  <2> QED BY <1>4, <2>1, <2>2 DEF Whisper
<1>5. ASSUME NEW c \in Client, Receives(c) PROVE TypeOK'
  BY <1>5 DEF Receives
<1>6. ASSUME NEW s \in Shard, CreateClient(s) PROVE TypeOK'
  BY <1>6 DEF CreateClient
<1>7. ASSUME NEW s \in Shard, RampEnds(s) \/ LoopsEnd(s) PROVE TypeOK'
  BY <1>7 DEF RampEnds, LoopsEnd, Moves
<1>8. ASSUME NEW s \in Shard, Returns(s) PROVE TypeOK'
  BY <1>8 DEF Returns
<1>9. ASSUME NEW s \in Shard, ShardDone(s) \/ ShardFails(s) PROVE TypeOK'
  BY <1>9 DEF ShardDone, ShardFails
<1>10. ASSUME Reports PROVE TypeOK'
  BY <1>10 DEF Reports, Running
<1>11. ASSUME UNCHANGED vars PROVE TypeOK'
  BY <1>11 DEF vars
<1> QED BY <1>1, <1>2, <1>3, <1>4, <1>5, <1>6, <1>7, <1>8, <1>9, <1>10, <1>11 DEF Next, Exited

----------------------------------------------------------------------------
(* The steps, by what they do to the counts. *)

\* All steps but a client's first connection leave who was ever connected alone.
LEMMA CountedStep ==
  ASSUME Inv, [Next]_vars
  PROVE  Counted'
<1> USE DEF Inv
<1>1. ASSUME NEW c \in Client, Opens(c) PROVE Counted'
  <2> SUFFICES ASSUME NEW s \in Shard
               PROVE  initiallyConnected'[s] = Cardinality(ConnectedOf(s)')
    BY DEF Counted
  <2> DEFINE had == ConnectedOf(s)
  <2>1. initiallyConnected[s] = Cardinality(had) /\ had \subseteq Client
    BY DEF Counted, ConnectedOf, TypeOK
  <2>2. IsFiniteSet(had) /\ Cardinality(had) \in Nat
    BY <2>1, Clients
  <2>3. c[1] \in Shard /\ initiallyConnected \in [Shard -> Nat]
    BY Clients DEF TypeOK
  <2>4. CASE s = c[1] /\ c \notin connected
    <3>1. ConnectedOf(s)' = had \cup {c} /\ c \notin had
      BY <1>1, <2>4 DEF Opens, ConnectedOf
    <3>2. initiallyConnected'[s] = initiallyConnected[s] + 1
      BY <1>1, <2>3, <2>4 DEF Opens, FirstConnect
    <3> HIDE DEF had
    <3>3. Cardinality(had \cup {c}) = Cardinality(had) + 1
      BY <2>2, <3>1, FS_AddElement
    <3> QED BY <2>1, <3>1, <3>2, <3>3
  <2>5. CASE ~ (s = c[1] /\ c \notin connected)
    <3>1. ConnectedOf(s)' = had
      BY <1>1, <2>5 DEF Opens, ConnectedOf
    <3>2. initiallyConnected'[s] = initiallyConnected[s]
      BY <1>1, <2>3, <2>5 DEF Opens, FirstConnect
    <3> QED BY <2>1, <3>1, <3>2
  <2> QED BY <2>4, <2>5
<1>2. ASSUME UNCHANGED <<connected, initiallyConnected>> PROVE Counted'
  BY <1>2 DEF Counted, ConnectedOf
<1>3. CASE Next
  BY <1>1, <1>2, <1>3
     DEF Next, Breaks, Retries, Whisper, Receives, CreateClient, RampEnds, LoopsEnd, Moves, Returns,
         ShardDone, ShardFails, Reports, Exited, vars, connVars
<1>4. CASE UNCHANGED vars
  BY <1>2, <1>4 DEF vars, connVars
<1> QED BY <1>3, <1>4

\* The shards and clients of a returned shard stay as they are.
LEMMA AtRest ==
  ASSUME Inv, [Next]_vars, NEW s \in Shard, phase[s] = "returned"
  PROVE  /\ phase'[s] = "returned" /\ result'[s] = result[s]
         /\ initiallyConnected'[s] = initiallyConnected[s]
         /\ \A c \in ClientsOf(s) :
              /\ conn'[c] = conn[c] /\ sent'[c] = sent[c] /\ received'[c] = received[c]
              /\ c \in connected' <=> c \in connected
<1> USE DEF Inv
<1> DEFINE Goal ==
      /\ phase'[s] = "returned" /\ result'[s] = result[s]
      /\ initiallyConnected'[s] = initiallyConnected[s]
      /\ \A c \in ClientsOf(s) :
           /\ conn'[c] = conn[c] /\ sent'[c] = sent[c] /\ received'[c] = received[c]
           /\ c \in connected' <=> c \in connected
<1>1. /\ \A c \in ClientsOf(s) : conn[c] = "closed" /\ c \in Client
      /\ DOMAIN result = Shard
  BY Clients DEF Returned
<1>2. ASSUME NEW c \in Client, conn[c] # "closed" \/ phase[c[1]] # "returned"
      PROVE  c \notin ClientsOf(s) /\ c[1] # s
  BY <1>1, <1>2, Clients
<1>3. ASSUME NEW c \in Client, Opens(c) PROVE Goal
  <2>1. c \notin ClientsOf(s) /\ c[1] # s
    BY <1>2, <1>3 DEF Opens
  <2>2. \A e \in ClientsOf(s) : conn'[e] = conn[e] /\ (e \in connected' <=> e \in connected)
    BY <1>1, <1>3, <2>1 DEF Opens, TypeOK
  <2>3. initiallyConnected'[s] = initiallyConnected[s]
    BY <1>3, <2>1 DEF Opens, TypeOK
  <2>4. UNCHANGED <<phase, result, sent, received>>
    BY <1>3 DEF Opens, countVars
  <2> QED BY <2>2, <2>3, <2>4
<1>4. ASSUME NEW c \in Client, Breaks(c) \/ Retries(c) PROVE Goal
  <2>1. c \notin ClientsOf(s)
    BY <1>2, <1>4 DEF Breaks, Retries
  <2>2. \A e \in ClientsOf(s) : conn'[e] = conn[e]
    BY <1>1, <1>4, <2>1 DEF Breaks, Retries, TypeOK
  <2>3. UNCHANGED <<phase, result, initiallyConnected, connected, sent, received>>
    BY <1>4 DEF Breaks, Retries, countVars
  <2> QED BY <2>2, <2>3
<1>5. ASSUME NEW c \in Client, Whisper(c) \/ Receives(c) PROVE Goal
  <2>1. c \notin ClientsOf(s)
    BY <1>2, <1>5 DEF Whisper, Receives
  <2> QED BY <1>1, <1>5, <2>1 DEF Whisper, Receives, TypeOK
<1>6. ASSUME NEW t \in Shard, CreateClient(t) PROVE Goal
  <2>1. t # s
    BY <1>6 DEF CreateClient
  <2>2. PICK i \in 0..(PerShard - 1) : conn' = [conn EXCEPT ![<<t, i>>] = "connecting"]
    BY <1>6 DEF CreateClient
  <2>3. <<t, i>> \notin ClientsOf(s)
    BY <2>1, Clients
  <2>4. \A c \in ClientsOf(s) : conn'[c] = conn[c]
    BY <1>1, <2>2, <2>3 DEF TypeOK
  <2>5. UNCHANGED <<phase, result, initiallyConnected, connected, sent, received>>
    BY <1>6 DEF CreateClient, countVars
  <2> QED BY <2>4, <2>5
<1>7. ASSUME NEW t \in Shard, RampEnds(t) \/ LoopsEnd(t) PROVE Goal
  BY <1>7 DEF RampEnds, LoopsEnd, Moves, TypeOK, connVars, countVars
<1>8. ASSUME NEW t \in Shard, Returns(t) PROVE Goal
  BY <1>1, <1>8 DEF Returns, TypeOK, countVars
<1>9. ASSUME UNCHANGED <<phase, result, connVars, countVars>> PROVE Goal
  BY <1>9 DEF connVars, countVars
<1>10. ASSUME Next PROVE Goal
  <2>1. ASSUME NEW t \in Shard, ShardDone(t) \/ ShardFails(t) PROVE Goal
    BY <1>9, <2>1 DEF ShardDone, ShardFails
  <2>2. ASSUME Reports PROVE Goal
    BY <1>9, <2>2 DEF Reports
  <2>3. ASSUME Exited PROVE Goal
    BY <1>9, <2>3 DEF Exited, vars
  <2> HIDE DEF Goal
  <2>4. ASSUME NEW c \in Client, Opens(c) \/ Breaks(c) \/ Retries(c) \/ Whisper(c) \/ Receives(c)
        PROVE  Goal
    BY <1>3, <1>4, <1>5, <2>4
  <2>5. ASSUME NEW t \in Shard, CreateClient(t) \/ RampEnds(t) \/ LoopsEnd(t) \/ Returns(t)
        PROVE  Goal
    BY <1>6, <1>7, <1>8, <2>5
  <2> QED BY <1>10, <2>1, <2>2, <2>3, <2>4, <2>5 DEF Next
<1>11. ASSUME UNCHANGED vars PROVE Goal
  BY <1>9, <1>11 DEF vars
<1> QED BY <1>10, <1>11

LEMMA ReturnedStep ==
  ASSUME Inv, [Next]_vars
  PROVE  Returned'
<1> USE DEF Inv
<1>1. DOMAIN result' = Shard
  BY DEF Next, Opens, Breaks, Retries, Whisper, Receives, CreateClient, RampEnds, LoopsEnd, Moves,
         Returns, ShardDone, ShardFails, Reports, Exited, vars, Returned
<1>2. ASSUME NEW s \in Shard, phase'[s] = "returned"
      PROVE  /\ \A c \in ClientsOf(s) : conn'[c] = "closed"
             /\ result'[s] = [initiallyConnected |-> initiallyConnected'[s],
                              whispersSent       |-> Total(sent', ClientsOf(s)),
                              whispersReceived   |-> Total(received', ClientsOf(s))]
  <2>1. CASE phase[s] = "returned"
    <3>1. /\ result'[s] = result[s] /\ initiallyConnected'[s] = initiallyConnected[s]
          /\ \A c \in ClientsOf(s) :
               conn'[c] = conn[c] /\ sent'[c] = sent[c] /\ received'[c] = received[c]
      BY <2>1, AtRest
    <3>2. IsFiniteSet(ClientsOf(s)) /\ \A c \in ClientsOf(s) : sent[c] \in Nat /\ received[c] \in Nat
      BY Clients, Values
    <3>3. Total(sent', ClientsOf(s)) = Total(sent, ClientsOf(s))
      BY <3>1, <3>2, TotalSame
    <3>4. Total(received', ClientsOf(s)) = Total(received, ClientsOf(s))
      BY <3>1, <3>2, TotalSame
    <3> QED BY <2>1, <3>1, <3>3, <3>4 DEF Returned
  <2>2. ASSUME phase[s] # "returned" PROVE Returns(s)
    <3>1. ASSUME NEW t \in Shard, Returns(t) PROVE t = s
      BY <1>2, <2>2, <3>1 DEF Returns, TypeOK
    <3>2. ASSUME NEW t \in Shard, RampEnds(t) \/ LoopsEnd(t) PROVE FALSE
      BY <1>2, <2>2, <3>2 DEF RampEnds, LoopsEnd, Moves, TypeOK
    <3>3. ~ UNCHANGED phase
      BY <1>2, <2>2
    <3> QED BY <3>1, <3>2, <3>3
            DEF Next, Opens, Breaks, Retries, Whisper, Receives, CreateClient, ShardDone, ShardFails,
                Reports, Exited, vars
  <2>3. ASSUME Returns(s)
        PROVE  /\ \A c \in ClientsOf(s) : conn'[c] = "closed"
               /\ result'[s] = [initiallyConnected |-> initiallyConnected'[s],
                                whispersSent       |-> Total(sent', ClientsOf(s)),
                                whispersReceived   |-> Total(received', ClientsOf(s))]
    BY <2>3, Clients DEF Returns, Returned, countVars
  <2> QED BY <2>1, <2>2, <2>3
<1> QED BY <1>1, <1>2 DEF Returned

LEMMA OutcomesStep ==
  ASSUME Inv, [Next]_vars
  PROVE  Outcomes'
<1> USE DEF Inv
<1>1. ASSUME NEW s \in Shard, ShardDone(s) PROVE Outcomes'
  BY <1>1 DEF ShardDone, Outcomes, TypeOK
<1>2. ASSUME NEW s \in Shard, ShardFails(s) PROVE Outcomes'
  BY <1>2 DEF ShardFails, Outcomes, TypeOK
<1>3. ASSUME Reports PROVE Outcomes'
  BY <1>3 DEF Reports, Outcomes
<1>4. ASSUME UNCHANGED <<outcome, exitCode>> PROVE Outcomes'
  <2>1. \A s \in Shard : outcome[s] = "done" => phase'[s] = "returned"
    BY AtRest DEF Outcomes
  <2> QED BY <1>4, <2>1 DEF Outcomes
<1>5. CASE Next
  BY <1>1, <1>2, <1>3, <1>4, <1>5
     DEF Next, Opens, Breaks, Retries, Whisper, Receives, CreateClient, RampEnds, LoopsEnd, Moves,
         Returns, Exited, vars, driverVars
<1>6. CASE UNCHANGED vars
  BY <1>4, <1>6 DEF vars, driverVars
<1> QED BY <1>5, <1>6

\* The successes of an exit are final, and at rest.
LEMMA Settled ==
  ASSUME Inv, [Next]_vars, exitCode # Running
  PROVE  /\ merged' = merged /\ Successes' = Successes
         /\ \A s \in Successes : phase[s] = "returned"
<1> USE DEF Inv
<1>1. \A s \in Shard : outcome[s] # "none"
  BY DEF Outcomes
<1>2. UNCHANGED <<merged, outcome>>
  BY <1>1
     DEF Next, Opens, Breaks, Retries, Whisper, Receives, CreateClient, RampEnds, LoopsEnd, Moves,
         Returns, ShardDone, ShardFails, Reports, Exited, vars, driverVars
<1> QED BY <1>2 DEF Successes, Outcomes

LEMMA SumOf ==
  ASSUME NEW field \in {"initiallyConnected", "whispersSent", "whispersReceived"}
  PROVE  Sums[field] = Total([s \in Shard |-> result[s][field]], Successes)
BY DEF Sums, NoResult

\* The driver adds up what the shards that are done returned.
LEMMA SumsOfSuccesses ==
  ASSUME Inv
  PROVE  /\ Sums.initiallyConnected = Cardinality({c \in connected : c[1] \in Successes})
         /\ Successes = Shard => /\ Sums.whispersSent = Total(sent, Client)
                                /\ Sums.whispersReceived = Total(received, Client)
<1> USE DEF Inv
<1>1. /\ IsFiniteSet(Successes) /\ Successes \subseteq Shard
      /\ \A s \in Successes : phase[s] = "returned"
  <2>1. Successes \subseteq Shard /\ \A s \in Successes : phase[s] = "returned"
    BY DEF Successes, Outcomes
  <2> QED BY <2>1, FS_Subset, WhispersAssumption DEF WhispersAssumption
<1>2. Sums.initiallyConnected = Cardinality({c \in connected : c[1] \in Successes})
  <2> DEFINE A == [s \in Successes |-> ConnectedOf(s)]
             g == [s \in Shard |-> result[s]["initiallyConnected"]]
  <2>1. Sums["initiallyConnected"] = Total(g, Successes)
    BY SumOf
  <2>2. \A s \in Successes : IsFiniteSet(A[s]) /\ g[s] = Cardinality(A[s])
    <3>1. \A s \in Shard : ConnectedOf(s) \in SUBSET Client
      BY DEF ConnectedOf, TypeOK
    <3> QED BY <1>1, <3>1, Clients DEF Returned, Counted
  <2>3. \A s, t \in Successes : s # t => A[s] \cap A[t] = {}
    BY DEF ConnectedOf
  <2>4. Together(A, Successes) = {c \in connected : c[1] \in Successes}
    BY DEF Together, ConnectedOf
  <2> HIDE DEF A, g
  <2>5. Total(g, Successes) = Cardinality(Together(A, Successes))
    BY <1>1, <2>2, <2>3, TotalOfSizes
  <2> QED BY <2>1, <2>4, <2>5
<1>3. ASSUME Successes = Shard PROVE Sums.whispersSent = Total(sent, Client)
  <2> DEFINE g == [s \in Shard |-> result[s]["whispersSent"]]
  <2>1. Sums["whispersSent"] = Total(g, Shard)
    BY <1>3, SumOf
  <2>2. \A s \in Shard : g[s] = Total(sent, ClientsOf(s))
    BY <1>1, <1>3 DEF Returned
  <2> HIDE DEF g
  <2>3. Total(g, Shard) = Total(sent, Client)
    BY <2>2, Values, TotalOfShards
  <2> QED BY <2>1, <2>3
<1>4. ASSUME Successes = Shard PROVE Sums.whispersReceived = Total(received, Client)
  <2> DEFINE g == [s \in Shard |-> result[s]["whispersReceived"]]
  <2>1. Sums["whispersReceived"] = Total(g, Shard)
    BY <1>4, SumOf
  <2>2. \A s \in Shard : g[s] = Total(received, ClientsOf(s))
    BY <1>1, <1>4 DEF Returned
  <2> HIDE DEF g
  <2>3. Total(g, Shard) = Total(received, Client)
    BY <2>2, Values, TotalOfShards
  <2> QED BY <2>1, <2>3
<1> QED BY <1>2, <1>3, <1>4

LEMMA MergedStep ==
  ASSUME Inv, [Next]_vars
  PROVE  Merged'
<1> USE DEF Inv
<1>1. CASE exitCode # Running
  <2>1. /\ merged' = merged /\ Successes' = Successes
        /\ \A s \in Successes : phase[s] = "returned"
    BY <1>1, Settled
  <2>2. {c \in connected' : c[1] \in Successes} = {c \in connected : c[1] \in Successes}
    <3>1. connected' \subseteq Client /\ connected \subseteq Client
      BY TypeStep DEF TypeOK
    <3>2. ASSUME NEW c \in Client, c[1] \in Successes PROVE c \in connected' <=> c \in connected
      <4>1. c[1] \in Shard /\ c \in ClientsOf(c[1]) /\ phase[c[1]] = "returned"
        BY <2>1, <3>2, Clients
      <4> QED BY <4>1, AtRest
    <3> QED BY <3>1, <3>2
  <2>3. ASSUME Successes = Shard
        PROVE  Total(sent', Client) = Total(sent, Client) /\ Total(received', Client) = Total(received, Client)
    <3>1. \A c \in Client : sent'[c] = sent[c] /\ received'[c] = received[c]
      BY <2>1, <2>3, AtRest, Clients
    <3> QED BY <3>1, Clients, Values, TotalSame
  <2> QED BY <1>1, <2>1, <2>2, <2>3 DEF Merged, PeersAreClients
<1>2. CASE exitCode = Running /\ Reports
  <2>1. merged' = Sums /\ Successes' = Successes /\ UNCHANGED <<connected, sent, received>>
    BY <1>2 DEF Reports, Successes, connVars, countVars
  <2> QED BY <2>1, SumsOfSuccesses DEF Merged, PeersAreClients
<1>3. CASE exitCode = Running /\ ~Reports
  <2>1. exitCode' = Running
    BY <1>3
       DEF Next, Opens, Breaks, Retries, Whisper, Receives, CreateClient, RampEnds, LoopsEnd, Moves,
           Returns, ShardDone, ShardFails, Exited, vars, driverVars
  <2> QED BY <2>1 DEF Merged, PeersAreClients
<1> QED BY <1>1, <1>2, <1>3

----------------------------------------------------------------------------
(* Whispers on their way. *)

\* Whispers that leave c reach none but its peers, and each of them once.
LEMMA Forwards ==
  ASSUME TypeOK, TypeOK', Whispered, NEW c \in Client, NEW k \in Nat,
         Left'[c] = Left[c] + k, \A e \in Client \ {c} : Left'[e] = Left[e],
         received' = received, wire' = Forwarded(c, k), NEW d \in Client
  PROVE  received'[d] + wire'[d] <= Total(Left', Peers(d))
<1>1. \A e \in Client : Left[e] \in Nat /\ received[e] \in Nat /\ wire[e] \in Nat
  BY Values DEF Whispered, Left
<1>2. IsFiniteSet(Peers(d)) /\ Peers(d) \subseteq Client
  BY Clients
<1>3. Total(Left, Peers(d)) \in Nat
  BY <1>1, <1>2, TotalIsPairs
<1>4. received[d] + wire[d] <= Total(Left, Peers(d))
  BY DEF Whispered
<1>5. CASE c \in Peers(d)
  <2>1. Total(Left', Peers(d)) = Total(Left, Peers(d)) + k
    BY <1>1, <1>2, <1>5, TotalRaised
  <2>2. wire'[d] <= wire[d] + k /\ wire'[d] \in Nat
    BY <1>1 DEF Forwarded
  <2> QED BY <1>1, <1>3, <1>4, <2>1, <2>2
<1>6. CASE c \notin Peers(d)
  <2>1. Total(Left', Peers(d)) = Total(Left, Peers(d))
    BY <1>1, <1>2, <1>6, TotalSame
  <2>2. d \notin Audience(c)
    BY <1>6 DEF Audience, Peers
  <2>3. wire'[d] = wire[d]
    BY <2>2 DEF Forwarded
  <2> QED BY <1>4, <2>1, <2>3
<1> QED BY <1>5, <1>6

LEMMA WhisperedStep ==
  ASSUME Inv, [Next]_vars
  PROVE  Whispered'
<1> USE DEF Inv
<1>0. \A c \in Client : sent[c] \in Nat /\ received[c] \in Nat /\ backlog[c] \in Nat /\ wire[c] \in Nat
  BY Values
<1>a. /\ DOMAIN sent = Client /\ DOMAIN received = Client /\ DOMAIN backlog = Client
      /\ DOMAIN wire = Client
  BY DEF TypeOK
<1>1. ASSUME NEW c \in Client, Opens(c) PROVE Whispered'
  <2>1. /\ wire' = Forwarded(c, backlog[c]) /\ received' = received /\ sent' = sent
        /\ backlog' = [backlog EXCEPT ![c] = 0]
    BY <1>1 DEF Opens, countVars
  <2>2. Left'[c] = Left[c] + backlog[c] /\ \A e \in Client \ {c} : Left'[e] = Left[e]
    BY <1>0, <1>a, <2>1 DEF Left
  <2>3. \A d \in Client : received'[d] + wire'[d] <= Total(Left', Peers(d))
    BY <1>0, <2>1, <2>2, TypeStep, Forwards
  <2>4. \A e \in Client : backlog'[e] <= sent'[e]
    BY <1>0, <1>a, <2>1 DEF Whispered
  <2> QED BY <2>3, <2>4 DEF Whispered
<1>2. ASSUME NEW c \in Client, Whisper(c), conn[c] = "up" PROVE Whispered'
  <2>1. /\ wire' = Forwarded(c, 1) /\ received' = received /\ backlog' = backlog
        /\ sent' = [sent EXCEPT ![c] = @ + 1]
    BY <1>2 DEF Whisper
  <2>2. Left'[c] = Left[c] + 1 /\ \A e \in Client \ {c} : Left'[e] = Left[e]
    BY <1>0, <1>a, <2>1 DEF Left
  <2>3. \A d \in Client : received'[d] + wire'[d] <= Total(Left', Peers(d))
    BY <2>1, <2>2, TypeStep, Forwards
  <2>4. \A e \in Client : backlog'[e] <= sent'[e]
    BY <1>0, <1>a, <2>1 DEF Whispered
  <2> QED BY <2>3, <2>4 DEF Whispered
<1>3. ASSUME NEW c \in Client, Whisper(c), conn[c] # "up" PROVE Whispered'
  <2>1. /\ wire' = wire /\ received' = received /\ backlog' = [backlog EXCEPT ![c] = @ + 1]
        /\ sent' = [sent EXCEPT ![c] = @ + 1]
    BY <1>3 DEF Whisper
  <2>2. Left' = Left
    BY <1>0, <1>a, <2>1 DEF Left
  <2>4. \A e \in Client : backlog'[e] <= sent'[e]
    BY <1>0, <1>a, <2>1 DEF Whispered
  <2> QED BY <2>1, <2>2, <2>4 DEF Whispered
<1>4. ASSUME UNCHANGED <<sent, backlog>>,
             \A d \in Client : received'[d] + wire'[d] <= received[d] + wire[d],
             \A d \in Client : received'[d] \in Nat /\ wire'[d] \in Nat
      PROVE  Whispered'
  <2>1. Left' = Left
    BY <1>4 DEF Left
  <2>2. \A d \in Client : Total(Left, Peers(d)) \in Nat
    <3>1. \A e \in Client : Left[e] \in Nat
      BY <1>0 DEF Left, Whispered
    <3> QED BY <3>1, Clients, TotalIsPairs
  <2> QED BY <1>0, <1>4, <2>1, <2>2 DEF Whispered
<1>5. \A d \in Client : received'[d] \in Nat /\ wire'[d] \in Nat
  BY TypeStep DEF TypeOK
<1>6. ASSUME NEW c \in Client, Breaks(c) PROVE Whispered'
  <2>1. \A d \in Client : received'[d] + wire'[d] <= received[d] + wire[d]
    BY <1>0, <1>a, <1>6 DEF Breaks, countVars
  <2> QED BY <1>4, <1>5, <1>6, <2>1 DEF Breaks, countVars
<1>7. ASSUME NEW c \in Client, Receives(c) PROVE Whispered'
  <2>1. \A d \in Client : received'[d] + wire'[d] <= received[d] + wire[d]
    BY <1>0, <1>a, <1>7 DEF Receives
  <2> QED BY <1>4, <1>5, <1>7, <2>1 DEF Receives
<1>8. ASSUME NEW s \in Shard, Returns(s) PROVE Whispered'
  <2>1. \A d \in Client : received'[d] + wire'[d] <= received[d] + wire[d]
    BY <1>0, <1>a, <1>8 DEF Returns, countVars
  <2> QED BY <1>4, <1>5, <1>8, <2>1 DEF Returns, countVars
<1>9. ASSUME UNCHANGED <<sent, received, backlog, wire>> PROVE Whispered'
  BY <1>0, <1>4, <1>9
<1>10. CASE Next
  BY <1>1, <1>2, <1>3, <1>6, <1>7, <1>8, <1>9, <1>10
     DEF Next, Retries, CreateClient, RampEnds, LoopsEnd, Moves, ShardDone, ShardFails, Reports,
         Exited, vars, connVars, countVars
<1>11. CASE UNCHANGED vars
  BY <1>9, <1>11 DEF vars, connVars, countVars
<1> QED BY <1>10, <1>11

LEMMA InitInv ==
  ASSUME Init
  PROVE  Inv
<1> USE DEF Init
<1>1. TypeOK
  BY WhispersAssumption DEF TypeOK, Zeros, Running, WhispersAssumption
<1>2. Counted
  <2>1. \A s \in Shard : ConnectedOf(s) = {}
    BY DEF ConnectedOf
  <2> QED BY <2>1, FS_EmptySet DEF Counted
<1>3. Whispered
  <2>1. \A c \in Client : Left[c] \in Nat
    BY DEF Left, Zeros
  <2>2. \A d \in Client : Total(Left, Peers(d)) \in Nat
    BY <2>1, Clients, TotalIsPairs
  <2> QED BY <2>2 DEF Whispered, Zeros
<1>4. Returned /\ Outcomes /\ Merged
  BY DEF Returned, Outcomes, Merged, PeersAreClients
<1> QED BY <1>1, <1>2, <1>3, <1>4 DEF Inv

LEMMA StepInv ==
  ASSUME Inv, [Next]_vars
  PROVE  Inv'
BY TypeStep, CountedStep, WhisperedStep, ReturnedStep, OutcomesStep, MergedStep DEF Inv

----------------------------------------------------------------------------
(* Rooms. *)

\* The places of a room on a shard, and the clients of a room.
Places(k) == {j \in 0..(PerShard - 1) : j % Rooms = k}
Room(k) == {d \in Client : RoomOf(d) = k}

\* With rooms as large as each other, a shard has PerShard / Rooms places in each.
LEMMA PlacesOfARoom ==
  ASSUME PerShard % Rooms = 0, NEW k \in 0..(Rooms - 1)
  PROVE  /\ IsFiniteSet(Places(k)) /\ Cardinality(Places(k)) = PerShard \div Rooms
         /\ PerShard \div Rooms \in Nat /\ Rooms * (PerShard \div Rooms) = PerShard
<1> DEFINE q == PerShard \div Rooms
           f == [m \in 0..(q - 1) |-> Rooms * m + k]
<1>1. Rooms \in Nat \ {0} /\ PerShard \in Nat
  BY WhispersAssumption DEF WhispersAssumption
<1>2. q \in Nat /\ PerShard = Rooms * q + (PerShard % Rooms)
  BY <1>1, Division
<1>3. Rooms * q = PerShard /\ q \in Nat
  BY <1>2, <1>1
<1> HIDE DEF q
<1>4. ASSUME NEW m \in 0..(q - 1) PROVE f[m] \in Places(k)
  <2>1. m < q /\ m \in Nat
    BY <1>3
  <2>2. Rooms * m + Rooms <= Rooms * q /\ Rooms * m \in Nat
    BY <1>1, <1>3, <2>1, Times
  <2>3. f[m] \in 0..(PerShard - 1)
    BY <1>1, <1>3, <2>2
  <2>4. (Rooms * m + k) % Rooms = k
    BY <1>1, <2>1, Modulo
  <2> QED BY <2>3, <2>4 DEF Places
<1>5. ASSUME NEW m \in 0..(q - 1), NEW n \in 0..(q - 1), f[m] = f[n] PROVE m = n
  <2>1. (Rooms * m + k) \div Rooms = m /\ (Rooms * n + k) \div Rooms = n
    BY <1>1, <1>3, Modulo
  <2>2. Rooms * m + k = Rooms * n + k
    BY <1>5
  <2> QED BY <2>1, <2>2
<1>6. ASSUME NEW j \in Places(k) PROVE \E m \in 0..(q - 1) : f[m] = j
  <2> DEFINE m == j \div Rooms
  <2>1. j \in Nat /\ j < PerShard /\ j % Rooms = k
    BY <1>1 DEF Places
  <2>2. m \in Nat /\ j = Rooms * m + k
    BY <1>1, <2>1
  <2> HIDE DEF m
  <2>3. m < q
    <3> SUFFICES ASSUME ~ (m < q) PROVE FALSE
      OBVIOUS
    <3>1. q < m \/ q = m
      BY <1>3, <2>2
    <3>2. Rooms * q <= Rooms * m
      <4>1. CASE q = m
        BY <4>1, <1>1, <1>3
      <4>2. CASE q < m
        <5>1. Rooms * q + Rooms <= Rooms * m /\ Rooms * q \in Nat /\ Rooms * m \in Nat
          BY <1>1, <1>3, <2>2, <4>2, Times
        <5> QED BY <5>1, <1>1
      <4> QED BY <3>1, <4>1, <4>2
    <3>3. k \in Nat /\ Rooms * m \in Nat
      BY <1>1, <2>2
    <3> QED BY <1>1, <1>3, <2>1, <2>2, <3>2, <3>3
  <2>4. m \in 0..(q - 1)
    BY <1>3, <2>2, <2>3
  <2> QED BY <2>2, <2>4
<1>7. f \in Bijection(0..(q - 1), Places(k))
  <2>1. f \in [0..(q - 1) -> Places(k)]
    BY <1>4
  <2> HIDE DEF f
  <2> QED BY <1>5, <1>6, <2>1 DEF Bijection, Injection, Surjection, IsInjective
<1>8. IsFiniteSet(0..(q - 1)) /\ Cardinality(0..(q - 1)) = q
  BY <1>3, UpTo
<1>9. ExistsBijection(0..(q - 1), Places(k))
  BY <1>7 DEF ExistsBijection
<1>10. IsFiniteSet(Places(k)) /\ Cardinality(Places(k)) = q
  BY <1>8, <1>9, FS_Bijection
<1> QED BY <1>3, <1>10 DEF q

\* So every client has as many peers.
LEMMA PeersOfAClient ==
  ASSUME PerShard % Rooms = 0, NEW c \in Client
  PROVE  Cardinality(Peers(c)) = Cardinality(Shard) * (PerShard \div Rooms) - 1
<1> DEFINE k == RoomOf(c)
           q == PerShard \div Rooms
<1>1. k \in 0..(Rooms - 1)
  <2>1. c[2] \in Nat /\ Rooms \in Nat \ {0}
    BY WhispersAssumption DEF WhispersAssumption, Client
  <2> QED BY <2>1 DEF RoomOf
<1> HIDE DEF k
<1>2. IsFiniteSet(Places(k)) /\ Cardinality(Places(k)) = q
  BY <1>1, PlacesOfARoom
<1> HIDE DEF q
<1>3. Room(k) = Shard \X Places(k)
  BY DEF Room, Places, Client, RoomOf
<1>4. IsFiniteSet(Shard)
  BY WhispersAssumption DEF WhispersAssumption
<1>5. IsFiniteSet(Shard \X Places(k)) /\ Cardinality(Shard \X Places(k)) = Cardinality(Shard) * q
  BY <1>2, <1>4, FS_Product
<1>6. c \in Room(k) /\ Peers(c) = Room(k) \ {c}
  BY DEF Room, Peers, k
<1>7. Cardinality(Room(k) \ {c}) = Cardinality(Room(k)) - 1
  BY <1>3, <1>5, <1>6, FS_RemoveElement
<1> QED BY <1>3, <1>5, <1>6, <1>7 DEF q

\* What left for all the clients, counted at the receivers and at the senders.
LEMMA DoubleCounting ==
  ASSUME TypeOK, NEW R, \A d \in Client : R[d] = Total(sent, Peers(d)),
         NEW W, \A c \in Client : W[c] = Cardinality(Peers(c)) * sent[c]
  PROVE  Total(R, Client) = Total(W, Client)
<1> DEFINE A == [d \in Client |-> {d} \X Pairs(sent, Peers(d))]
           B == [c \in Client |-> Peers(c) \X ({c} \X (1..sent[c]))]
<1>0. \A c \in Client : sent[c] \in Nat
  BY Values
<1>1. ASSUME NEW d \in Client PROVE IsFiniteSet(A[d]) /\ R[d] = Cardinality(A[d])
  <2>1. IsFiniteSet(Peers(d)) /\ \A c \in Peers(d) : sent[c] \in Nat
    BY <1>0, Clients
  <2>2. IsFiniteSet(Pairs(sent, Peers(d))) /\ Total(sent, Peers(d)) = Cardinality(Pairs(sent, Peers(d)))
    BY <2>1, TotalIsPairs
  <2>3. IsFiniteSet({d}) /\ Cardinality({d}) = 1
    BY FS_Singleton
  <2>4. /\ IsFiniteSet({d} \X Pairs(sent, Peers(d)))
        /\ Cardinality({d} \X Pairs(sent, Peers(d))) = 1 * Cardinality(Pairs(sent, Peers(d)))
    BY <2>2, <2>3, FS_Product
  <2>5. Cardinality(Pairs(sent, Peers(d))) \in Nat
    BY <2>2, FS_CardinalityType
  <2> QED BY <2>2, <2>4, <2>5
<1>2. ASSUME NEW c \in Client PROVE IsFiniteSet(B[c]) /\ W[c] = Cardinality(B[c])
  <2>1. IsFiniteSet({c}) /\ Cardinality({c}) = 1
    BY FS_Singleton
  <2>2. IsFiniteSet(1..sent[c]) /\ Cardinality(1..sent[c]) = sent[c]
    BY <1>0, UpTo
  <2>3. /\ IsFiniteSet({c} \X (1..sent[c]))
        /\ Cardinality({c} \X (1..sent[c])) = Cardinality({c}) * Cardinality(1..sent[c])
    BY <2>1, <2>2, FS_Product
  <2>4. Cardinality({c} \X (1..sent[c])) = sent[c]
    BY <1>0, <2>1, <2>2, <2>3
  <2>5. IsFiniteSet(Peers(c))
    BY Clients
  <2>6. /\ IsFiniteSet(Peers(c) \X ({c} \X (1..sent[c])))
        /\ Cardinality(Peers(c) \X ({c} \X (1..sent[c]))) = Cardinality(Peers(c)) * sent[c]
    BY <2>3, <2>4, <2>5, FS_Product
  <2> QED BY <2>6
<1>3. ASSUME NEW s \in Client, NEW t \in Client, s # t PROVE A[s] \cap A[t] = {} /\ B[s] \cap B[t] = {}
  <2>1. ASSUME NEW x \in A[s] \cap A[t] PROVE FALSE
    BY <1>3, <2>1
  <2>2. ASSUME NEW x \in B[s] \cap B[t] PROVE FALSE
    BY <1>3, <2>2
  <2> QED BY <2>1, <2>2
<1>4. Together(A, Client) = Together(B, Client)
  <2>1. ASSUME NEW c \in Client, NEW d \in Client PROVE c \in Peers(d) <=> d \in Peers(c)
    BY DEF Peers
  <2>2. \A c \in Client : Peers(c) \subseteq Client
    BY Clients
  <2>3. ASSUME NEW x \in Together(A, Client) PROVE x \in Together(B, Client)
    <3>1. PICK d \in Client : x \in A[d]
      BY <2>3 DEF Together
    <3>2. PICK p \in Pairs(sent, Peers(d)) : x = <<d, p>>
      BY <3>1
    <3>3. PICK c \in Peers(d) : \E i \in 1..sent[c] : p = <<c, i>>
      BY DEF Pairs
    <3>4. c \in Client /\ d \in Peers(c)
      BY <2>1, <2>2
    <3>5. x \in B[c]
      BY <3>2, <3>3, <3>4
    <3> QED BY <3>4, <3>5 DEF Together
  <2>4. ASSUME NEW x \in Together(B, Client) PROVE x \in Together(A, Client)
    <3>1. PICK c \in Client : x \in B[c]
      BY <2>4 DEF Together
    <3>2. PICK d \in Peers(c) : \E i \in 1..sent[c] : x = <<d, <<c, i>> >>
      BY <3>1
    <3>3. d \in Client /\ c \in Peers(d)
      BY <2>1, <2>2
    <3>4. \A i \in 1..sent[c] : <<c, i>> \in Pairs(sent, Peers(d))
      BY <3>3 DEF Pairs
    <3>5. x \in A[d]
      BY <3>2, <3>3, <3>4
    <3> QED BY <3>3, <3>5 DEF Together
  <2> QED BY <2>3, <2>4
<1> HIDE DEF A, B
<1>5. Total(R, Client) = Cardinality(Together(A, Client))
  BY <1>1, <1>3, Clients, TotalOfSizes
<1>6. Total(W, Client) = Cardinality(Together(B, Client))
  BY <1>2, <1>3, Clients, TotalOfSizes
<1> QED BY <1>4, <1>5, <1>6

LEMMA PeersTimesRooms ==
  ASSUME NEW a \in Nat, NEW q \in Nat, NEW r \in Nat, NEW t \in Nat, NEW p \in Nat, p = a * q - 1
  PROVE  (p * t) * r = t * (a * (r * q) - r)
<1>1. a * (r * q) = r * (a * q)
  OBVIOUS
<1>2. a * q = p + 1
  <2>1. a * q \in Nat
    OBVIOUS
  <2> QED BY <2>1
<1>3. r * (p + 1) = r * p + r * 1
  BY Distributes
<1>4. r * p \in Nat
  OBVIOUS
<1>5. a * (r * q) - r = r * p
  BY <1>1, <1>2, <1>3, <1>4
<1>6. t * (r * p) = (p * t) * r
  OBVIOUS
<1> QED BY <1>5, <1>6

LEMMA Larger ==
  ASSUME NEW t \in Nat, NEW x \in Int, NEW m \in Nat, x <= m
  PROVE  t * x <= t * m /\ t * m \in Nat
<1>1. m - x \in Nat
  OBVIOUS
<1>2. t * (m - x) \in Nat
  BY <1>1
<1>3. t * (m - x) = t * m - t * x
  OBVIOUS
<1>4. t * x \in Int /\ t * m \in Nat
  OBVIOUS
<1> QED BY <1>2, <1>3, <1>4

\* No client receives more than its peers whispered, and a whisper has as many
\* receivers as the expectation counts.
LEMMA Delivered ==
  ASSUME Inv, exitCode # Running, Successes = Shard, connected = Client, PerShard % Rooms = 0
  PROVE  merged.whispersReceived * Rooms <= ExpectedTimesRooms(merged)
<1> USE DEF Inv
<1> DEFINE R == [d \in Client |-> Total(sent, Peers(d))]
           W == [c \in Client |-> Cardinality(Peers(c)) * sent[c]]
           T == Total(sent, Client)
           U == Total(received, Client)
           q == PerShard \div Rooms
           a == Cardinality(Shard)
           N == merged.initiallyConnected
<1>1. /\ Rooms \in Nat \ {0} /\ PerShard \in Nat /\ IsFiniteSet(Shard)
      /\ \A c \in Client : sent[c] \in Nat /\ received[c] \in Nat
  BY Values, WhispersAssumption DEF WhispersAssumption
<1>2. T \in Nat /\ U \in Nat
  BY <1>1, Clients, TotalIsPairs
<1>3. merged.whispersSent = T /\ merged.whispersReceived = U
  BY DEF Merged
<1>4. a \in Nat /\ N = a * PerShard
  <2>1. {c \in connected : c[1] \in Successes} = Client
    BY Clients
  <2>2. N = Cardinality(Client)
    BY <2>1 DEF Merged, PeersAreClients
  <2>3. IsFiniteSet(0..(PerShard - 1)) /\ Cardinality(0..(PerShard - 1)) = PerShard
    BY <1>1, UpTo
  <2>4. Cardinality(Shard \X (0..(PerShard - 1))) = Cardinality(Shard) * Cardinality(0..(PerShard - 1))
    BY <1>1, <2>3, FS_Product
  <2>5. a \in Nat
    BY <1>1, FS_CardinalityType
  <2> QED BY <2>2, <2>3, <2>4, <2>5 DEF Client
<1>5. q \in Nat /\ Rooms * q = PerShard
  <2>1. q \in Nat /\ PerShard = Rooms * q + (PerShard % Rooms)
    BY <1>1, Division
  <2>2. Rooms * q \in Nat
    BY <1>1, <2>1
  <2> QED BY <2>1, <2>2
<1>6. ASSUME NEW d \in Client PROVE R[d] \in Nat /\ received[d] <= R[d]
  <2>1. /\ IsFiniteSet(Peers(d))
        /\ \A c \in Peers(d) : Left[c] \in Nat /\ sent[c] \in Nat /\ Left[c] <= sent[c]
    <3>1. \A c \in Client : Left[c] \in Nat /\ sent[c] \in Nat /\ Left[c] <= sent[c]
      BY Values DEF Left, Whispered
    <3> QED BY <3>1, Clients
  <2>2. Total(Left, Peers(d)) <= Total(sent, Peers(d))
    BY <2>1, TotalMonotone
  <2>3. Total(Left, Peers(d)) \in Nat /\ Total(sent, Peers(d)) \in Nat
    BY <2>1, TotalIsPairs
  <2>4. received[d] + wire[d] <= Total(Left, Peers(d)) /\ wire[d] \in Nat
    BY Values DEF Whispered
  <2> QED BY <1>1, <2>2, <2>3, <2>4
<1>7. U <= Total(R, Client)
  <2> HIDE DEF R
  <2> QED BY <1>1, <1>6, Clients, TotalMonotone
<1>8. Total(R, Client) = Total(W, Client)
  <2>1. (\A d \in Client : R[d] = Total(sent, Peers(d))) /\ \A c \in Client : W[c] = Cardinality(Peers(c)) * sent[c]
    OBVIOUS
  <2> HIDE DEF R, W
  <2> QED BY <2>1, DoubleCounting
<1>9. ExpectedTimesRooms(merged) = T * Max({0, N - Rooms})
  BY <1>3 DEF ExpectedTimesRooms
<1>10. N \in Nat /\ N - Rooms <= Max({0, N - Rooms}) /\ Max({0, N - Rooms}) \in Nat
  <2>1. N \in Nat
    BY <1>1, <1>4
  <2>2. N - Rooms \in Int
    BY <1>1, <2>1
  <2> QED BY <2>1, <2>2, LargestOf
<1>11. T * (N - Rooms) <= T * Max({0, N - Rooms}) /\ T * Max({0, N - Rooms}) \in Nat
  <2> HIDE DEF T, N
  <2>1. N - Rooms \in Int
    BY <1>1, <1>10
  <2> QED BY <1>2, <1>10, <2>1, Larger
<1>12. CASE Client = {}
  <2>1. Pairs(received, Client) = {}
    BY <1>12 DEF Pairs
  <2>2. U = Cardinality(Pairs(received, Client))
    BY <1>1, Clients, TotalIsPairs
  <2>3. U = 0
    BY <2>1, <2>2, FS_EmptySet
  <2>4. U * Rooms = 0
    BY <1>1, <2>3
  <2> QED BY <1>3, <1>9, <1>11, <2>4
<1>13. CASE Client # {}
  <2> DEFINE p == a * q - 1
  <2>1. \A c \in Client : Cardinality(Peers(c)) = p /\ Cardinality(Peers(c)) \in Nat
    BY PeersOfAClient, Clients
  <2> HIDE DEF p
  <2>2. p \in Nat
    BY <1>13, <2>1
  <2>3. \A c \in Client : W[c] = p * sent[c]
    BY <2>1
  <2> HIDE DEF R, W
  <2>4. Total(W, Client) = p * T
    BY <1>1, <2>2, <2>3, Clients, TotalScaled
  <2>5. (p * T) * Rooms = T * (a * (Rooms * q) - Rooms)
    <3> HIDE DEF a, q, T
    <3> QED BY <1>1, <1>2, <1>4, <1>5, <2>2, PeersTimesRooms DEF p
  <2>6. U <= p * T
    BY <1>7, <1>8, <2>4
  <2> HIDE DEF a, q, T, U, N
  <2>7. U * Rooms <= (p * T) * Rooms
    <3>1. p * T \in Nat
      BY <1>2, <2>2
    <3>2. Rooms * U <= Rooms * (p * T)
      BY <1>1, <1>2, <2>6, <3>1, Larger
    <3> QED BY <1>1, <1>2, <3>1, <3>2
  <2>8. U * Rooms <= T * (N - Rooms)
    BY <1>4, <1>5, <2>5, <2>7
  <2>9. U * Rooms \in Nat /\ T * (N - Rooms) \in Int
    BY <1>1, <1>2, <1>10
  <2>10. U * Rooms <= T * Max({0, N - Rooms})
    BY <1>11, <2>8, <2>9
  <2> QED BY <1>3, <1>9, <2>10
<1> QED BY <1>12, <1>13

----------------------------------------------------------------------------
(* The theorems. *)

\* Clients, rooms, counters and outcomes keep their types.
THEOREM TypeCorrect == Spec => []TypeOK
<1>1. Inv => TypeOK
  BY DEF Inv
<1> QED BY <1>1, InitInv, StepInv, PTL DEF Spec

\* The number of clients that the report's expectation is computed from is that
\* of the clients that were ever connected, each of them once, however often
\* they reconnect and whatever failed shards go on doing.
THEOREM PeersCounted == Spec => []PeersAreClients
<1>1. Inv => PeersAreClients
  BY DEF Inv, Merged
<1> QED BY <1>1, InitInv, StepInv, PTL DEF Spec

\* With all shards done, all clients connected and rooms of one size, no more is
\* reported received than expected, whatever the shards' timing.
THEOREM NoSurplus == Spec => []ReceivedWithinExpected
<1>1. Inv => ReceivedWithinExpected
  BY Delivered DEF ReceivedWithinExpected
<1> QED BY <1>1, InitInv, StepInv, PTL DEF Spec

=============================================================================
