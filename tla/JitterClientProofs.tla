------------------------- MODULE JitterClientProofs -------------------------
(***************************************************************************)
(* Theorems about a client of the jitter tests, for any number of          *)
(* messages, jitters and failures: no message is recorded twice, resumes   *)
(* do not outnumber their causes, and the test leaves nothing behind.      *)
(***************************************************************************)
EXTENDS JitterClient, FiniteSetTheorems, SequenceTheorems, TLAPS

\* A connection that receives, or may come to.
Active(i) ==
  /\ conns[i] # "closed"
  /\ Reconnecting \/ i = 1 \/ i \in room \cup joining

\* The one in use is the only such connection, and it is closed while the loop
\* replaces it and when the test is over.
Places ==
  /\ \A i \in Conns : Active(i) => i = current
  /\ Reconnecting => current = Latest
  /\ loop # "ready" => ~Reconnecting /\ ~done
  /\ loop # "ready" \/ done => conns[current] = "closed"

\* Whether the next connect may be that of a resumed session.
MayResume ==
  /\ ~done
  /\ conns[Latest] = "closed" \/ (Latest > 1 /\ Opening(Latest))

\* That connect is accounted for already.
Accounts ==
  /\ jitterCount <= rounds
  /\ variant # "csr" => recoveredCount = 0
  /\ variant = "csr" => recoveredCount + (IF MayResume THEN 1 ELSE 0) <= jitterCount + drops
  /\ kept => Latest > 1 \/ ~Opening(1)

\* What is on its way is new, in order, and to a connection in the room.
WireInOrder ==
  \A i \in Conns :
    /\ conns[i] # "connected" \/ i \notin room => wire[i] = <<>>
    /\ \A k, m \in 1..Len(wire[i]) : k < m => wire[i][k] < wire[i][m]
    /\ \A k \in 1..Len(wire[i]) : highestSeq < wire[i][k] /\ wire[i][k] <= seq

Recorded ==
  /\ highestSeq <= seq
  /\ \A n \in received : n <= highestSeq
  /\ IsFiniteSet(received) /\ samples = Cardinality(received)

Inv == TypeOK /\ Places /\ Accounts /\ WireInOrder /\ Recorded

----------------------------------------------------------------------------
LEMMA NextCases ==
  ASSUME [Next]_vars
  PROVE  \/ \E i \in Conns : \/ \E resumed \in BOOLEAN : Connects(i, resumed)
                             \/ FreshConnects(i) \/ JoinArrives(i) \/ Message(i)
                             \/ ConnectFails(i) \/ Hangs(i) \/ Drops(i)
         \/ \E torn \in BOOLEAN : Jitter(torn)
         \/ Reconnects \/ FreshOpens \/ GivesUp \/ Ends \/ Forgets \/ Broadcast
         \/ UNCHANGED vars
BY DEF Next, Connection, Network, Test, Finished

LEMMA Constants == Total \in Nat /\ MaxJitters \in Nat /\ MaxFaults \in Nat
BY JitterAssumption DEF JitterAssumption

\* Messages are numbers.
LEMMA Numbers ==
  ASSUME NEW s \in Seq(1..Total)
  PROVE  Len(s) \in Nat /\ \A k \in 1..Len(s) : s[k] \in 1..Total /\ s[k] \in Nat
<1>1. \A k \in 1..Len(s) : s[k] \in 1..Total
  BY ElementOfSeq
<1> QED BY <1>1, Constants

\* The elements of the two lists, and their length.
LEMMA Lists ==
  ASSUME TypeOK
  PROVE  /\ Latest \in Nat /\ Latest \in Conns /\ Conns = 1..Latest /\ Len(wire) = Latest
         /\ current \in Conns /\ 1 \in Conns
         /\ \A i \in Conns : conns[i] \in ConnState /\ wire[i] \in Seq(1..Total) /\ i \in Nat
<1>1. /\ conns \in Seq(ConnState) /\ Conns = 1..Len(conns) /\ Len(conns) \in Nat
      /\ current \in 1..Len(conns)
  BY DEF TypeOK, Conns
<1>2. Latest \in Conns /\ 1 \in Conns
  BY <1>1 DEF Latest
<1>3. wire \in Seq(Seq(1..Total)) /\ Len(wire) = Len(conns)
  BY DEF TypeOK
<1> QED BY <1>1, <1>2, <1>3 DEF Latest

\* One element of the list of connections, or of the wires, changed.
LEMMA ConnsChanged ==
  ASSUME TypeOK, NEW i \in Conns, NEW s \in ConnState, conns' = [conns EXCEPT ![i] = s]
  PROVE  /\ conns' \in Seq(ConnState) /\ Latest' = Latest /\ Conns' = Conns
         /\ \A k \in Conns : conns'[k] = IF k = i THEN s ELSE conns[k]
<1>1. conns \in Seq(ConnState) /\ i \in 1..Len(conns)
  BY DEF TypeOK, Conns
<1> QED BY <1>1, ExceptSeq DEF Conns, Latest

LEMMA WireChanged ==
  ASSUME TypeOK, NEW i \in Conns, NEW s \in Seq(1..Total), wire' = [wire EXCEPT ![i] = s]
  PROVE  /\ wire' \in Seq(Seq(1..Total)) /\ Len(wire') = Latest
         /\ \A k \in Conns : wire'[k] = IF k = i THEN s ELSE wire[k]
<1>1. wire \in Seq(Seq(1..Total)) /\ i \in 1..Len(wire)
  BY DEF TypeOK, Conns
<1> QED BY <1>1, ExceptSeq DEF Conns, TypeOK, Latest

LEMMA OneMoreFault ==
  ASSUME TypeOK, drops < MaxFaults
  PROVE  drops + 1 \in 0..MaxFaults
BY Constants DEF TypeOK

\* Steps that leave the messages alone, or drop those of connections that end.
LEMMA SameMessages ==
  ASSUME Inv, Conns' = Conns, UNCHANGED <<messages, seq>>,
         \A k \in Conns : wire'[k] = wire[k] \/ wire'[k] = <<>>,
         \A k \in Conns : (conns'[k] # "connected" \/ k \notin room') =>
                          (conns[k] # "connected" \/ k \notin room \/ wire'[k] = <<>>)
  PROVE  WireInOrder' /\ Recorded'
<1>1. Recorded'
  BY DEF Inv, Recorded, messages
<1>2. WireInOrder'
  BY DEF Inv, WireInOrder, messages
<1> QED BY <1>1, <1>2

LEMMA InitInv == Init => Inv
<1> SUFFICES ASSUME Init PROVE Inv
  OBVIOUS
<1>1. /\ conns = <<"connecting">> /\ Conns = {1} /\ Latest = 1 /\ conns[1] = "connecting"
      /\ wire = << <<>> >> /\ Len(wire) = 1 /\ wire[1] = <<>>
  BY DEF Init, Conns, Latest
<1>2. conns \in Seq(ConnState) /\ wire \in Seq(Seq(1..Total))
  BY <1>1 DEF ConnState
<1>3. 0 \in 0..Total /\ 0 \in 0..MaxJitters /\ 0 \in 0..MaxFaults /\ current \in Conns
  BY <1>1, Constants DEF Init
<1>4. TypeOK
  <2>1. Len(wire) = Len(conns)
    BY <1>1 DEF Latest
  <2> QED BY <1>2, <1>3, <2>1 DEF Init, TypeOK
<1>5. Places
  BY <1>1 DEF Init, Places, Active
<1>6. Accounts
  <2>1. ~MayResume
    BY <1>1 DEF MayResume
  <2> QED BY <2>1 DEF Init, Accounts
<1>7. WireInOrder
  BY <1>1 DEF WireInOrder
<1>8. Recorded
  BY FS_EmptySet DEF Init, Recorded
<1> QED BY <1>4, <1>5, <1>6, <1>7, <1>8 DEF Inv


----------------------------------------------------------------------------
(* Connections. *)

LEMMA ConnectsInv ==
  ASSUME Inv, NEW i \in Conns, NEW resumed \in BOOLEAN, Connects(i, resumed)
  PROVE  Inv'
<1>1. /\ "connected" \in ConnState /\ conns' = [conns EXCEPT ![i] = "connected"]
      /\ conns[i] \in {"connecting", "hung"} /\ (i = 1 \/ Reconnecting)
      /\ UNCHANGED <<variant, current, loop, rounds, seq, messages, jitterCount, failedConnects,
                     done, drops>>
      /\ kept' = resumed
  BY DEF Connects, ConnState, Opening
<1>2. /\ conns' \in Seq(ConnState) /\ Latest' = Latest /\ Conns' = Conns
      /\ \A k \in Conns : conns'[k] = IF k = i THEN "connected" ELSE conns[k]
  BY <1>1, ConnsChanged DEF Inv
<1>3. Active(i) /\ i = current /\ (Reconnecting => i = Latest)
  BY <1>1 DEF Inv, Places, Active
<1>4. /\ room' \subseteq Conns /\ joining' \subseteq Conns
      /\ \A k \in Conns : k # i => (k \in room' \cup joining' <=> k \in room \cup joining)
  BY DEF Connects, Inv, TypeOK
<1>5. loop = "ready" /\ ~done /\ wire[i] = <<>>
  BY <1>1, <1>3 DEF Inv, Places, WireInOrder
<1>6. Places'
  <2>1. Reconnecting' = Reconnecting
    BY <1>1 DEF Reconnecting
  <2>2. \A k \in Conns : Active(k)' => k = i \/ Active(k)
    BY <1>2, <1>4, <2>1 DEF Active
  <2> QED BY <1>1, <1>2, <1>3, <1>5, <2>1, <2>2 DEF Inv, Places
<1>7. Accounts' /\ recoveredCount' \in Nat
  <2>1. /\ recoveredCount \in Nat /\ jitterCount \in Nat /\ drops \in Nat /\ Latest \in Nat
        /\ Latest \in Conns /\ 1 \in Conns /\ (Latest = 1 \/ Latest > 1)
    <3>1. Latest \in Nat /\ Latest \in 1..Latest
      BY Lists DEF Inv
    <3> QED BY <3>1, Lists DEF Inv, TypeOK
  <2>2. CASE variant = "csr"
    <3>1. i = Latest /\ conns'[Latest] = "connected" /\ ~MayResume'
      BY <1>2, <1>3, <2>1, <2>2 DEF Reconnecting, MayResume, Opening
    <3>2. resumed => MayResume
      <4>1. resumed => Latest > 1 \/ ~Opening(1)
        BY DEF Connects, Inv, Accounts
      <4> QED BY <1>1, <1>5, <2>1, <3>1, <4>1 DEF MayResume, Opening
    <3>3. recoveredCount' = recoveredCount + (IF resumed THEN 1 ELSE 0)
      BY <2>2 DEF Connects, CountsResume
    <3>4. recoveredCount' <= jitterCount + drops
      BY <2>1, <2>2, <3>2, <3>3 DEF Inv, Accounts
    <3>5. kept' => Latest > 1 \/ ~Opening(1)'
      BY <1>2, <3>1, <2>1 DEF Opening
    <3> QED BY <1>1, <1>2, <2>1, <2>2, <3>1, <3>3, <3>4, <3>5 DEF Inv, Accounts
  <2>3. CASE variant # "csr"
    <3>1. recoveredCount' = 0
      BY <2>3 DEF Connects, CountsResume, Inv, Accounts
    <3>2. kept' => Latest > 1 \/ ~Opening(1)'
      <4>1. CASE i = 1
        BY <1>2, <4>1 DEF Opening
      <4>2. CASE i # 1
        BY <1>1, <1>3, <2>1, <4>2, Lists DEF Inv, Conns
      <4> QED BY <4>1, <4>2
    <3> QED BY <1>1, <1>2, <2>3, <3>1, <3>2 DEF Inv, Accounts
  <2> QED BY <2>2, <2>3
<1> USE DEF messages
<1>8. CASE ~resumed
  <2>1. wire' = wire /\ room' = room /\ everConnected' = TRUE
    BY <1>8 DEF Connects
  <2>2. TypeOK'
    BY <1>1, <1>2, <1>4, <1>7, <2>1 DEF Inv, TypeOK, Latest
  <2>3. WireInOrder' /\ Recorded'
    <3>1. \A k \in Conns : (conns'[k] # "connected" \/ k \notin room') =>
                           (conns[k] # "connected" \/ k \notin room \/ wire'[k] = <<>>)
      BY <1>2, <1>5, <2>1
    <3> QED BY <1>1, <1>2, <2>1, <3>1, SameMessages
  <2> QED BY <1>6, <1>7, <2>2, <2>3 DEF Inv
<1>9. CASE resumed
  <2> DEFINE n == seq - highestSeq
             w == [k \in 1..n |-> highestSeq + k]
  <2>1. /\ seq \in 0..Total /\ highestSeq \in 0..Total /\ highestSeq <= seq /\ n \in Nat
        /\ Total \in Nat
    BY Constants DEF Inv, TypeOK, Recorded
  <2>2. /\ w \in Seq(1..Total) /\ Len(w) = n
        /\ \A k \in 1..n : w[k] = highestSeq + k
    <3>1. \A k \in 1..n : highestSeq + k \in 1..Total
      BY <2>1
    <3> HIDE DEF n
    <3> QED BY <2>1, <3>1
  <2>3. wire' = [wire EXCEPT ![i] = w] /\ room' = room \cup {i} /\ everConnected' = TRUE
    BY <1>9 DEF Connects
  <2> HIDE DEF w
  <2>4. /\ wire' \in Seq(Seq(1..Total)) /\ Len(wire') = Latest
        /\ \A k \in Conns : wire'[k] = IF k = i THEN w ELSE wire[k]
    BY <2>2, <2>3, WireChanged DEF Inv
  <2>5. TypeOK'
    BY <1>1, <1>2, <1>4, <1>7, <2>3, <2>4 DEF Inv, TypeOK, Latest
  <2>6. WireInOrder'
    <3> SUFFICES ASSUME NEW c \in Conns
                 PROVE  /\ conns'[c] # "connected" \/ c \notin room' => wire'[c] = <<>>
                        /\ \A k, m \in 1..Len(wire'[c]) : k < m => wire'[c][k] < wire'[c][m]
                        /\ \A k \in 1..Len(wire'[c]) :
                             highestSeq < wire'[c][k] /\ wire'[c][k] <= seq
      BY <1>1, <1>2 DEF WireInOrder
    <3>1. CASE c = i
      <4>1. wire'[c] = w /\ conns'[c] = "connected" /\ c \in room'
        BY <1>2, <2>3, <2>4, <3>1
      <4>2. \A k \in 1..n : highestSeq < highestSeq + k /\ highestSeq + k <= seq
        BY <2>1
      <4>3. \A k, m \in 1..n : k < m => highestSeq + k < highestSeq + m
        BY <2>1
      <4> HIDE DEF n
      <4> QED BY <2>2, <4>1, <4>2, <4>3
    <3>2. CASE c # i
      BY <1>2, <2>3, <2>4, <3>2 DEF Inv, WireInOrder
    <3> QED BY <3>1, <3>2
  <2>7. Recorded'
    BY <1>1 DEF Inv, Recorded
  <2> QED BY <1>6, <1>7, <2>5, <2>6, <2>7 DEF Inv
<1> QED BY <1>8, <1>9

LEMMA FreshConnectsInv == ASSUME Inv, NEW i \in Conns, FreshConnects(i) PROVE Inv'
<1> USE DEF messages, counts
<1>1. /\ "connected" \in ConnState /\ conns' = [conns EXCEPT ![i] = "connected"]
      /\ conns[i] \in {"connecting", "hung"} /\ i > 1 /\ ~Reconnecting
      /\ UNCHANGED <<variant, rounds, room, kept, wire, seq, messages, counts, done, drops>>
  BY DEF FreshConnects, ConnState, Opening
<1>2. /\ conns' \in Seq(ConnState) /\ Latest' = Latest /\ Conns' = Conns
      /\ \A k \in Conns : conns'[k] = IF k = i THEN "connected" ELSE conns[k]
  BY <1>1, ConnsChanged DEF Inv
<1>3. \/ Awaited(i) /\ joining' = joining \cup {i} /\ current' = i /\ loop' = "ready"
      \/ UNCHANGED <<joining, current, loop>>
  BY DEF FreshConnects
<1>4. ~Reconnecting' /\ variant # "csr" /\ 1 # i
  BY <1>1 DEF Reconnecting
<1>5. TypeOK'
  BY <1>1, <1>2, <1>3 DEF Inv, TypeOK, Latest
<1>6. Places'
  <2>1. CASE UNCHANGED <<joining, current, loop>>
    <3>1. \A k \in Conns : Active(k)' => Active(k)
      BY <1>1, <1>2, <1>4, <2>1 DEF Active
    <3>2. loop # "ready" \/ done => i # current
      BY <1>1 DEF Inv, Places
    <3> QED BY <1>1, <1>2, <1>4, <2>1, <3>1, <3>2 DEF Inv, Places, TypeOK
  <2>2. CASE Awaited(i) /\ joining' = joining \cup {i} /\ current' = i /\ loop' = "ready"
    <3>1. loop # "ready" /\ ~done /\ conns[current] = "closed"
      BY <2>2 DEF Awaited, Inv, Places
    <3>2. \A k \in Conns : Active(k)' => k = i \/ Active(k)
      BY <1>1, <1>2, <1>4, <2>2 DEF Active
    <3>3. \A k \in Conns : ~Active(k)
      BY <3>1 DEF Inv, Places, Active
    <3> QED BY <1>1, <1>2, <1>4, <2>2, <3>1, <3>2, <3>3 DEF Places
  <2> QED BY <1>3, <2>1, <2>2
<1>7. Accounts'
  BY <1>1, <1>2, <1>4, Lists DEF Inv, Accounts, Opening
<1>8. WireInOrder' /\ Recorded'
  <2>1. \A k \in Conns : (conns'[k] # "connected" \/ k \notin room') =>
                         (conns[k] # "connected" \/ k \notin room \/ wire'[k] = <<>>)
    BY <1>1, <1>2
  <2> QED BY <1>1, <1>2, <2>1, SameMessages
<1> QED BY <1>5, <1>6, <1>7, <1>8 DEF Inv

\* Steps that only end connections, or none.
LEMMA PlacesKept ==
  ASSUME Inv, Conns' = Conns, Latest' = Latest, UNCHANGED <<variant, current, done>>,
         \A k \in Conns : conns[k] = "closed" => conns'[k] = "closed",
         room' \cup joining' \subseteq room \cup joining,
         loop' \in {loop, "ready"}
  PROVE  Places'
<1>1. \A k \in Conns : Active(k)' => Active(k)
  BY DEF Active, Reconnecting
<1>2. current \in Conns /\ Reconnecting' = Reconnecting
  BY DEF Inv, TypeOK, Reconnecting
<1> QED BY <1>1, <1>2 DEF Inv, Places

LEMMA ConnectFailsInv == ASSUME Inv, NEW i \in Conns, ConnectFails(i) PROVE Inv'
<1> USE DEF messages, counts, server
<1>1. /\ "closed" \in ConnState /\ conns' = [conns EXCEPT ![i] = "closed"]
      /\ Opening(i) /\ conns[i] \in {"connecting", "hung"} /\ drops' = drops + 1
      /\ loop' \in {loop, "ready"}
      /\ UNCHANGED <<variant, current, rounds, server, messages, everConnected, jitterCount,
                     recoveredCount, done>>
  BY DEF ConnectFails, ConnState, Opening
<1>2. /\ conns' \in Seq(ConnState) /\ Latest' = Latest /\ Conns' = Conns
      /\ \A k \in Conns : conns'[k] = IF k = i THEN "closed" ELSE conns[k]
  BY <1>1, ConnsChanged DEF Inv
<1>3. failedConnects' \in Nat /\ drops' \in 0..MaxFaults
  BY OneMoreFault DEF ConnectFails, Inv, TypeOK
<1>4. TypeOK'
  BY <1>1, <1>2, <1>3 DEF Inv, TypeOK, Latest
<1>5. Places'
  BY <1>1, <1>2, PlacesKept
<1>6. Accounts'
  <2>1. /\ recoveredCount \in Nat /\ jitterCount \in Nat /\ drops \in Nat
    BY DEF Inv, TypeOK
  <2>2. variant = "csr" => recoveredCount <= jitterCount + drops
    BY <2>1 DEF Inv, Accounts
  <2>3. variant = "csr" => recoveredCount + 1 <= jitterCount + drops'
    BY <1>1, <2>1, <2>2
  <2>4. variant = "csr" => recoveredCount' + (IF MayResume' THEN 1 ELSE 0) <= jitterCount' + drops'
    BY <1>1, <2>1, <2>3, <2>2
  <2>5. kept' => Latest' > 1 \/ ~Opening(1)'
    BY <1>1, <1>2, Lists DEF Inv, Accounts, Opening
  <2> QED BY <1>1, <2>4, <2>5 DEF Inv, Accounts
<1>7. WireInOrder' /\ Recorded'
  <2>1. \A k \in Conns : (conns'[k] # "connected" \/ k \notin room') =>
                         (conns[k] # "connected" \/ k \notin room \/ wire'[k] = <<>>)
    BY <1>1, <1>2
  <2> QED BY <1>1, <1>2, <2>1, SameMessages
<1> QED BY <1>4, <1>5, <1>6, <1>7 DEF Inv

LEMMA HangsInv == ASSUME Inv, NEW i \in Conns, Hangs(i) PROVE Inv'
<1> USE DEF messages, counts, server
<1>1. /\ "hung" \in ConnState /\ conns' = [conns EXCEPT ![i] = "hung"]
      /\ conns[i] = "connecting" /\ drops' = drops + 1
      /\ UNCHANGED <<variant, current, loop, rounds, server, messages, counts, done>>
  BY DEF Hangs, ConnState
<1>2. /\ conns' \in Seq(ConnState) /\ Latest' = Latest /\ Conns' = Conns
      /\ \A k \in Conns : conns'[k] = IF k = i THEN "hung" ELSE conns[k]
  BY <1>1, ConnsChanged DEF Inv
<1>3. drops' \in 0..MaxFaults
  BY OneMoreFault DEF Hangs, Inv
<1>4. TypeOK'
  BY <1>1, <1>2, <1>3 DEF Inv, TypeOK, Latest
<1>5. Places'
  BY <1>1, <1>2, PlacesKept
<1>6. Accounts'
  <2>1. /\ recoveredCount \in Nat /\ jitterCount \in Nat /\ drops \in Nat
    BY DEF Inv, TypeOK
  <2>2. MayResume' = MayResume
    BY <1>1, <1>2, Lists DEF MayResume, Opening, Inv
  <2>3. variant = "csr" => recoveredCount' + (IF MayResume' THEN 1 ELSE 0) <= jitterCount' + drops'
    BY <1>1, <2>1, <2>2 DEF Inv, Accounts
  <2>5. kept' => Latest' > 1 \/ ~Opening(1)'
    BY <1>1, <1>2, Lists DEF Inv, Accounts, Opening
  <2> QED BY <1>1, <2>3, <2>5 DEF Inv, Accounts
<1>7. WireInOrder' /\ Recorded'
  <2>1. \A k \in Conns : (conns'[k] # "connected" \/ k \notin room') =>
                         (conns[k] # "connected" \/ k \notin room \/ wire'[k] = <<>>)
    BY <1>1, <1>2
  <2> QED BY <1>1, <1>2, <2>1, SameMessages
<1> QED BY <1>4, <1>5, <1>6, <1>7 DEF Inv

LEMMA DropsInv == ASSUME Inv, NEW i \in Conns, Drops(i) PROVE Inv'
<1> USE DEF messages, counts
<1>1. /\ "closed" \in ConnState /\ conns' = [conns EXCEPT ![i] = "closed"]
      /\ <<>> \in Seq(1..Total) /\ wire' = [wire EXCEPT ![i] = <<>>]
      /\ conns[i] = "connected" /\ drops' = drops + 1
      /\ UNCHANGED <<variant, current, loop, rounds, joining, room, kept, seq, messages, counts,
                     done>>
  BY DEF Drops, ConnState
<1>2. /\ conns' \in Seq(ConnState) /\ Latest' = Latest /\ Conns' = Conns
      /\ \A k \in Conns : conns'[k] = IF k = i THEN "closed" ELSE conns[k]
  BY <1>1, ConnsChanged DEF Inv
<1>3. /\ wire' \in Seq(Seq(1..Total)) /\ Len(wire') = Latest
      /\ \A k \in Conns : wire'[k] = IF k = i THEN <<>> ELSE wire[k]
  BY <1>1, WireChanged DEF Inv
<1>4. TypeOK'
  <2>1. drops' \in 0..MaxFaults
    BY OneMoreFault DEF Drops, Inv
  <2> QED BY <1>1, <1>2, <1>3, <2>1 DEF Inv, TypeOK, Latest
<1>5. Places'
  BY <1>1, <1>2, PlacesKept
<1>6. Accounts'
  <2>1. /\ recoveredCount \in Nat /\ jitterCount \in Nat /\ drops \in Nat
    BY DEF Inv, TypeOK
  <2>2. variant = "csr" => recoveredCount <= jitterCount + drops
    BY <2>1 DEF Inv, Accounts
  <2>4. variant = "csr" => recoveredCount' + (IF MayResume' THEN 1 ELSE 0) <= jitterCount' + drops'
    BY <1>1, <2>1, <2>2
  <2>5. kept' => Latest' > 1 \/ ~Opening(1)'
    BY <1>1, <1>2, Lists DEF Inv, Accounts, Opening
  <2> QED BY <1>1, <2>4, <2>5 DEF Inv, Accounts
<1>7. WireInOrder' /\ Recorded'
  <2>1. \A k \in Conns : (conns'[k] # "connected" \/ k \notin room') =>
                         (conns[k] # "connected" \/ k \notin room \/ wire'[k] = <<>>)
    BY <1>1, <1>2, <1>3
  <2> QED BY <1>1, <1>2, <1>3, <2>1, SameMessages
<1> QED BY <1>4, <1>5, <1>6, <1>7 DEF Inv

LEMMA JoinArrivesInv == ASSUME Inv, NEW i \in Conns, JoinArrives(i) PROVE Inv'
<1> USE DEF messages, counts
<1>1. /\ i \in joining /\ joining' = joining \ {i}
      /\ room' = IF conns[i] = "connected" THEN room \cup {i} ELSE room
      /\ kept' = (conns[i] = "connected" \/ kept)
      /\ UNCHANGED <<variant, conns, current, loop, rounds, wire, seq, messages, counts, done,
                     drops>>
  BY DEF JoinArrives
<1>2. Conns' = Conns /\ Latest' = Latest
  BY <1>1 DEF Conns, Latest
<1>3. TypeOK'
  <2>1. kept' \in BOOLEAN
    BY <1>1
  <2> QED BY <1>1, <1>2, <2>1 DEF Inv, TypeOK
<1>4. Places'
  BY <1>1, <1>2, PlacesKept
<1>5. Accounts'
  <2>1. MayResume' = MayResume
    BY <1>1, <1>2 DEF MayResume, Opening
  <2>2. i = 1 \/ Latest > 1
    BY Lists DEF Inv
  <2>3. kept' => Latest > 1 \/ ~Opening(1)'
    BY <1>1, <2>2 DEF Inv, Accounts, Opening
  <2> QED BY <1>1, <1>2, <2>1, <2>3 DEF Inv, Accounts
<1>6. WireInOrder' /\ Recorded'
  <2>1. \A k \in Conns : (conns'[k] # "connected" \/ k \notin room') =>
                         (conns[k] # "connected" \/ k \notin room \/ wire'[k] = <<>>)
    BY <1>1
  <2> QED BY <1>1, <1>2, <2>1, SameMessages
<1> QED BY <1>3, <1>4, <1>5, <1>6 DEF Inv

LEMMA ForgetsInv == ASSUME Inv, Forgets PROVE Inv'
<1> USE DEF messages, counts
<1>1. /\ kept' = FALSE
      /\ UNCHANGED <<variant, conns, current, loop, rounds, joining, room, wire, seq, messages,
                     counts, done, drops>>
  BY DEF Forgets
<1>2. Conns' = Conns /\ Latest' = Latest
  BY <1>1 DEF Conns, Latest
<1>3. TypeOK'
  BY <1>1, <1>2 DEF Inv, TypeOK
<1>4. Places'
  BY <1>1, <1>2, PlacesKept
<1>5. Accounts'
  BY <1>1, <1>2 DEF Inv, Accounts, MayResume, Opening
<1>6. WireInOrder' /\ Recorded'
  BY <1>1, <1>2, SameMessages
<1> QED BY <1>3, <1>4, <1>5, <1>6 DEF Inv

LEMMA GivesUpInv == ASSUME Inv, GivesUp PROVE Inv'
<1> USE DEF messages, counts, server
<1>1. /\ loop = "opening" /\ loop' = "ready"
      /\ UNCHANGED <<variant, conns, current, rounds, server, messages, counts, done, drops>>
  BY DEF GivesUp, WaitIsOver
<1>2. Conns' = Conns /\ Latest' = Latest
  BY <1>1 DEF Conns, Latest
<1>3. Places'
  BY <1>1, <1>2, PlacesKept
<1>4. TypeOK'
  BY <1>1, <1>2 DEF Inv, TypeOK
<1>5. Accounts' /\ WireInOrder' /\ Recorded'
  BY <1>1, <1>2 DEF Inv, Accounts, MayResume, Opening, WireInOrder, Recorded
<1> QED BY <1>3, <1>4, <1>5 DEF Inv

----------------------------------------------------------------------------
(* The jitter loop, and new connections. *)

LEMMA JitterInv == ASSUME Inv, NEW torn \in BOOLEAN, Jitter(torn) PROVE Inv'
<1> USE DEF messages, counts
<1>0. /\ conns \in Seq(ConnState) /\ Conns = 1..Len(conns) /\ current \in Conns
      /\ jitterCount \in Nat /\ rounds \in Nat /\ recoveredCount \in Nat /\ drops \in Nat
      /\ failedConnects \in Nat
  BY DEF Inv, TypeOK, Conns
<1>1. /\ "closed" \in ConnState /\ conns' = [conns EXCEPT ![current] = "closed"]
      /\ ~done /\ loop = "ready" /\ rounds < MaxJitters /\ rounds' = rounds + 1
      /\ loop' = (IF Reconnecting THEN "ready" ELSE "offline")
      /\ UNCHANGED <<variant, current, joining, room, kept, seq, messages, everConnected,
                     recoveredCount, done, drops>>
  BY DEF Jitter, Severed, ConnState
<1>2. /\ conns' \in Seq(ConnState) /\ Latest' = Latest /\ Conns' = Conns
      /\ \A k \in Conns : conns'[k] = IF k = current THEN "closed" ELSE conns[k]
  BY <1>0, <1>1, ConnsChanged DEF Inv
<1>3. /\ wire' \in Seq(Seq(1..Total)) /\ Len(wire') = Latest
      /\ \A k \in Conns : wire'[k] = IF k = current THEN <<>> ELSE wire[k]
  <2>1. Severed[current] = "closed" /\ <<>> \in Seq(1..Total)
    BY <1>0 DEF Severed
  <2>2. wire' = [wire EXCEPT ![current] = <<>>]
    BY <2>1 DEF Jitter
  <2> QED BY <1>0, <2>1, <2>2, WireChanged DEF Inv
<1>4. /\ jitterCount' \in Nat /\ failedConnects' \in Nat
      /\ jitterCount' = jitterCount + (IF torn THEN 1 ELSE 0)
      /\ conns[current] # "closed" => torn
  BY <1>0 DEF Jitter
<1>5. jitterCount' <= rounds' /\ rounds' \in 0..MaxJitters /\ jitterCount' \in 0..MaxJitters
  <2>1. jitterCount <= rounds /\ MaxJitters \in Nat
    BY Constants DEF Inv, Accounts
  <2> QED BY <1>0, <1>1, <1>4, <2>1
<1>6. TypeOK'
  BY <1>1, <1>2, <1>3, <1>4, <1>5 DEF Inv, TypeOK, Latest
<1>7. Places'
  <2>1. Reconnecting' = Reconnecting /\ \A k \in Conns : Active(k)' => Active(k)
    BY <1>1, <1>2 DEF Active, Reconnecting
  <2> QED BY <1>0, <1>1, <1>2, <2>1 DEF Inv, Places
<1>8. Accounts'
  <2>1. variant = "csr" => current = Latest
    BY DEF Inv, Places, Reconnecting
  <2>2. conns[current] = "closed" /\ current = Latest => MayResume
    BY <1>1 DEF MayResume
  <2>3. variant = "csr" => recoveredCount + 1 <= jitterCount' + drops
    BY <1>0, <1>4, <2>1, <2>2 DEF Inv, Accounts
  <2>4. variant = "csr" => recoveredCount' + (IF MayResume' THEN 1 ELSE 0) <= jitterCount' + drops'
    BY <1>0, <1>1, <1>4, <2>3
  <2>5. kept' => Latest' > 1 \/ ~Opening(1)'
    BY <1>1, <1>2, Lists DEF Inv, Accounts, Opening
  <2> QED BY <1>1, <1>5, <2>4, <2>5 DEF Inv, Accounts
<1>9. WireInOrder' /\ Recorded'
  <2>1. \A k \in Conns : (conns'[k] # "connected" \/ k \notin room') =>
                         (conns[k] # "connected" \/ k \notin room \/ wire'[k] = <<>>)
    BY <1>1, <1>2, <1>3
  <2> QED BY <1>1, <1>2, <1>3, <2>1, SameMessages
<1> QED BY <1>6, <1>7, <1>8, <1>9 DEF Inv

LEMMA EndsInv == ASSUME Inv, Ends PROVE Inv'
<1> USE DEF messages, counts
<1>0. current \in Conns
  BY DEF Inv, TypeOK
<1>1. /\ "closed" \in ConnState /\ conns' = [conns EXCEPT ![current] = "closed"]
      /\ <<>> \in Seq(1..Total) /\ wire' = [wire EXCEPT ![current] = <<>>]
      /\ ~done /\ loop = "ready" /\ done' = TRUE
      /\ UNCHANGED <<variant, current, loop, rounds, joining, room, kept, seq, messages, counts,
                     drops>>
  BY DEF Ends, InUse, ConnState
<1>2. /\ conns' \in Seq(ConnState) /\ Latest' = Latest /\ Conns' = Conns
      /\ \A k \in Conns : conns'[k] = IF k = current THEN "closed" ELSE conns[k]
  BY <1>0, <1>1, ConnsChanged DEF Inv
<1>3. /\ wire' \in Seq(Seq(1..Total)) /\ Len(wire') = Latest
      /\ \A k \in Conns : wire'[k] = IF k = current THEN <<>> ELSE wire[k]
  BY <1>0, <1>1, WireChanged DEF Inv
<1>4. TypeOK'
  BY <1>1, <1>2, <1>3 DEF Inv, TypeOK, Latest
<1>5. Places'
  <2>1. Reconnecting' = Reconnecting /\ \A k \in Conns : Active(k)' => Active(k)
    BY <1>1, <1>2 DEF Active, Reconnecting
  <2> QED BY <1>0, <1>1, <1>2, <2>1 DEF Inv, Places
<1>6. Accounts'
  <2>1. ~MayResume' /\ recoveredCount \in Nat /\ jitterCount \in Nat /\ drops \in Nat
    BY <1>1 DEF MayResume, Inv, TypeOK
  <2>2. variant = "csr" => recoveredCount <= jitterCount + drops
    BY <2>1 DEF Inv, Accounts
  <2>3. kept' => Latest' > 1 \/ ~Opening(1)'
    BY <1>1, <1>2, Lists DEF Inv, Accounts, Opening
  <2> QED BY <1>1, <2>1, <2>2, <2>3 DEF Inv, Accounts
<1>7. WireInOrder' /\ Recorded'
  <2>1. \A k \in Conns : (conns'[k] # "connected" \/ k \notin room') =>
                         (conns[k] # "connected" \/ k \notin room \/ wire'[k] = <<>>)
    BY <1>1, <1>2, <1>3
  <2> QED BY <1>1, <1>2, <1>3, <2>1, SameMessages
<1> QED BY <1>4, <1>5, <1>6, <1>7 DEF Inv

\* A new connection attempt: nothing is on its way on it, and what it may
\* receive does not change.
LEMMA AppendsProperties ==
  ASSUME Inv, NEW c \in Nat, Appends(c), c \in 1..(Latest + 1)
  PROVE  /\ Latest \in Nat /\ Conns = 1..Latest
         /\ Latest' = Latest + 1 /\ Conns' = Conns \cup {Latest + 1} /\ Latest + 1 \notin Conns
         /\ \A k \in Conns : conns'[k] = conns[k] /\ wire'[k] = wire[k]
         /\ conns'[Latest + 1] = "connecting" /\ wire'[Latest + 1] = <<>>
         /\ loop' \in {"ready", "offline", "opening"} => TypeOK'
         /\ WireInOrder' /\ Recorded'
<1> USE DEF messages, counts
<1>1. /\ conns' = Append(conns, "connecting") /\ wire' = Append(wire, <<>>) /\ current' = c
      /\ "connecting" \in ConnState /\ <<>> \in Seq(1..Total)
      /\ UNCHANGED <<variant, rounds, joining, room, kept, seq, messages, counts, done, drops>>
  BY DEF Appends, ConnState
<1>2. /\ conns \in Seq(ConnState) /\ wire \in Seq(Seq(1..Total)) /\ Len(wire) = Latest
      /\ Latest \in Nat /\ Latest = Len(conns) /\ Conns = 1..Latest
  BY Lists DEF Inv, TypeOK, Latest
<1>3. /\ conns' \in Seq(ConnState) /\ Latest' = Latest + 1 /\ Conns' = 1..(Latest + 1)
      /\ \A k \in 1..Latest : conns'[k] = conns[k]
      /\ conns'[Latest + 1] = "connecting"
  BY <1>1, <1>2 DEF Latest, Conns
<1>4. /\ wire' \in Seq(Seq(1..Total)) /\ Len(wire') = Latest + 1
      /\ \A k \in 1..Latest : wire'[k] = wire[k]
      /\ wire'[Latest + 1] = <<>>
  BY <1>1, <1>2
<1>5. Conns' = Conns \cup {Latest + 1} /\ Latest + 1 \notin Conns
  BY <1>2, <1>3
<1>6. loop' \in {"ready", "offline", "opening"} => TypeOK'
  BY <1>1, <1>2, <1>3, <1>4, <1>5 DEF Inv, TypeOK, Latest
<1>7. WireInOrder'
  <2> SUFFICES ASSUME NEW k \in Conns'
               PROVE  /\ conns'[k] # "connected" \/ k \notin room => wire'[k] = <<>>
                      /\ \A m, n \in 1..Len(wire'[k]) : m < n => wire'[k][m] < wire'[k][n]
                      /\ \A m \in 1..Len(wire'[k]) :
                           highestSeq < wire'[k][m] /\ wire'[k][m] <= seq
    BY <1>1 DEF WireInOrder
  <2>1. CASE k \in Conns
    BY <1>2, <1>3, <1>4, <2>1 DEF Inv, WireInOrder
  <2>2. CASE k = Latest + 1
    BY <1>4, <2>2
  <2> QED BY <1>5, <2>1, <2>2
<1>8. Recorded'
  BY <1>1 DEF Inv, Recorded
<1> QED BY <1>2, <1>3, <1>4, <1>5, <1>6, <1>7, <1>8

LEMMA ReconnectsInv == ASSUME Inv, Reconnects PROVE Inv'
<1> USE DEF messages, counts
<1>1. /\ Reconnecting /\ ~done /\ conns[Latest] = "closed" /\ Appends(Latest + 1)
      /\ current' = Latest + 1 /\ loop' = loop /\ loop \in {"ready", "offline", "opening"}
      /\ UNCHANGED <<variant, rounds, joining, room, kept, seq, messages, counts, done, drops>>
  BY DEF Reconnects, Appends, Inv, TypeOK
<1>2. Latest \in Nat /\ Latest + 1 \in 1..(Latest + 1) /\ Latest + 1 > 1 /\ Latest >= 1
  <2>1. Latest \in Nat /\ Latest \in 1..Latest
    BY Lists DEF Inv
  <2> QED BY <2>1
<1>3. /\ Latest' = Latest + 1 /\ Conns' = Conns \cup {Latest + 1} /\ Latest + 1 \notin Conns
      /\ \A k \in Conns : conns'[k] = conns[k]
      /\ conns'[Latest + 1] = "connecting"
      /\ TypeOK' /\ WireInOrder' /\ Recorded'
  BY <1>1, <1>2, AppendsProperties
<1>4. Places'
  <2>1. Reconnecting' /\ current = Latest /\ loop = "ready"
    BY <1>1 DEF Reconnecting, Inv, Places
  <2>2. \A k \in Conns : ~Active(k)
    BY <1>1, <2>1 DEF Inv, Places, Active
  <2>3. \A k \in Conns : conns[k] = "closed"
    BY <1>1, <2>2 DEF Active
  <2>4. \A k \in Conns' : Active(k)' => k = Latest + 1
    BY <1>3, <2>3 DEF Active
  <2> QED BY <1>1, <1>3, <2>1, <2>4 DEF Places
<1>5. Accounts'
  <2>1. MayResume
    BY <1>1 DEF MayResume
  <2>2. /\ recoveredCount \in Nat /\ jitterCount \in Nat /\ drops \in Nat
    BY DEF Inv, TypeOK
  <2>3. variant = "csr" => recoveredCount + 1 <= jitterCount + drops
    BY <2>1, <2>2 DEF Inv, Accounts
  <2>4. variant = "csr" => recoveredCount' + (IF MayResume' THEN 1 ELSE 0) <= jitterCount' + drops'
    BY <1>1, <2>2, <2>3
  <2>5. Latest' > 1
    BY <1>2, <1>3
  <2> QED BY <1>1, <2>4, <2>5 DEF Inv, Accounts
<1> QED BY <1>3, <1>4, <1>5 DEF Inv

LEMMA FreshOpensInv == ASSUME Inv, FreshOpens PROVE Inv'
<1> USE DEF messages, counts
<1>1. /\ loop = "offline" /\ loop' = "opening" /\ Appends(current) /\ current' = current
      /\ UNCHANGED <<variant, rounds, joining, room, kept, seq, messages, counts, done, drops>>
  BY DEF FreshOpens, Appends
<1>2. /\ Latest \in Nat /\ current \in Nat /\ current \in Conns /\ current \in 1..(Latest + 1)
      /\ Latest >= 1 /\ Latest + 1 # 1 /\ Latest + 1 > 1
  <2>1. Latest \in Nat /\ Latest \in 1..Latest /\ current \in 1..Latest /\ current \in Conns
    BY Lists DEF Inv
  <2> QED BY <2>1
<1>3. /\ Latest' = Latest + 1 /\ Conns' = Conns \cup {Latest + 1} /\ Latest + 1 \notin Conns
      /\ \A k \in Conns : conns'[k] = conns[k]
      /\ TypeOK' /\ WireInOrder' /\ Recorded'
  BY <1>1, <1>2, AppendsProperties
<1>4. ~Reconnecting /\ ~Reconnecting' /\ ~done /\ conns[current] = "closed" /\ variant # "csr"
  BY <1>1 DEF Inv, Places, Reconnecting
<1>5. Places'
  <2>1. room \cup joining \subseteq Conns
    BY DEF Inv, TypeOK
  <2>2. \A k \in Conns' : k = Latest + 1 => ~Active(k)'
    BY <1>1, <1>2, <1>3, <1>4, <2>1 DEF Active
  <2>3. \A k \in Conns : Active(k)' => Active(k)
    BY <1>1, <1>3, <1>4 DEF Active
  <2> QED BY <1>1, <1>2, <1>3, <1>4, <2>2, <2>3 DEF Inv, Places
<1>6. Accounts'
  <2>1. Latest' > 1
    BY <1>2, <1>3
  <2> QED BY <1>1, <1>4, <2>1 DEF Inv, Accounts
<1> QED BY <1>3, <1>5, <1>6 DEF Inv

----------------------------------------------------------------------------
(* Messages. *)

LEMMA MessageInv == ASSUME Inv, NEW i \in Conns, Message(i) PROVE Inv'
<1> USE DEF counts
<1> DEFINE w == wire[i]
           t == Tail(wire[i])
           n == Head(wire[i])
<1>1. /\ w \in Seq(1..Total) /\ w # <<>> /\ conns[i] = "connected" /\ i \in room
      /\ t = Tail(w) /\ n = Head(w)
      /\ received' = received \cup {n} /\ samples' = samples + 1
      /\ highestSeq' = (IF n > highestSeq THEN n ELSE highestSeq)
      /\ wire' = [wire EXCEPT ![i] = t]
      /\ UNCHANGED <<variant, conns, current, loop, rounds, joining, room, kept, seq, counts,
                     done, drops>>
  BY Lists DEF Message, Inv, WireInOrder
<1>2. /\ \A k, m \in 1..Len(w) : k < m => w[k] < w[m]
      /\ \A k \in 1..Len(w) : highestSeq < w[k] /\ w[k] <= seq
  BY DEF Inv, WireInOrder
<1> HIDE DEF w, t, n
<1>3. /\ Len(w) \in Nat /\ 1 \in 1..Len(w) /\ w[1] \in 1..Total /\ n = w[1]
      /\ t \in Seq(1..Total) /\ Len(t) = Len(w) - 1
      /\ \A k \in 1..Len(t) : t[k] = w[k + 1]
  <2>1. Len(w) \in Nat /\ 1 \in 1..Len(w)
    BY <1>1, EmptySeq
  <2>2. w[1] \in 1..Total /\ t \in Seq(1..Total) /\ Len(t) = Len(w) - 1
        /\ \A k \in 1..Len(t) : t[k] = w[k + 1]
    BY <1>1, <2>1, HeadTailProperties, ElementOfSeq
  <2>3. n = w[1]
    BY <1>1
  <2> QED BY <2>1, <2>2, <2>3
<1>4. \A k \in 1..Len(t) : k + 1 \in 1..Len(w) /\ 1 < k + 1
  BY <1>3
<1>5. /\ wire' \in Seq(Seq(1..Total)) /\ Len(wire') = Latest
      /\ \A k \in Conns : wire'[k] = IF k = i THEN t ELSE wire[k]
  BY <1>1, <1>3, WireChanged DEF Inv
<1>6. /\ seq \in Nat /\ highestSeq \in Nat /\ n \in Nat /\ n \in 1..Total /\ n \in 0..Total
      /\ samples \in Nat /\ Total \in Nat /\ received \subseteq 1..Total
  BY <1>3, Constants DEF Inv, TypeOK
<1>7. n > highestSeq /\ n <= seq /\ highestSeq' = n
  BY <1>1, <1>2, <1>3, <1>6
<1>8. Conns' = Conns /\ Latest' = Latest
  BY <1>1 DEF Conns, Latest
<1>0. UNCHANGED <<variant, conns, current, loop, rounds, joining, room, kept, seq, counts,
                  done, drops>>
  BY <1>1
<1>9. TypeOK'
  <2>1. samples' \in Nat /\ highestSeq' \in 0..Total
    <3>1. samples' = samples + 1
      BY <1>1
    <3> QED BY <1>6, <1>7, <3>1
  <2>2. received' \subseteq 1..Total
    <3>1. received' = received \cup {n}
      BY <1>1
    <3> QED BY <1>6, <3>1
  <2> QED BY <1>0, <1>5, <1>8, <2>1, <2>2 DEF Inv, TypeOK, Latest
<1>10. Places' /\ Accounts'
  BY <1>0, <1>8 DEF Inv, Places, Active, Reconnecting, Accounts, MayResume, Opening
<1>11. Recorded'
  <2>1. \A k \in received : k <= highestSeq /\ k \in Nat
    BY <1>6 DEF Inv, Recorded
  <2>2. n \notin received
    BY <1>6, <1>7, <2>1
  <2>3. IsFiniteSet(received') /\ Cardinality(received') = Cardinality(received) + 1
    BY <1>1, <2>2, FS_AddElement DEF Inv, Recorded
  <2>4. \A k \in received' : k <= n
    BY <1>1, <1>6, <1>7, <2>1
  <2> QED BY <1>1, <1>7, <2>3, <2>4 DEF Inv, Recorded
<1>12. WireInOrder'
  <2>1. \A k \in Conns : k # i => wire[k] = <<>>
    <3>1. \A k \in Conns : conns[k] = "connected" /\ k \in room => k = current
      BY DEF Inv, Places, Active
    <3> QED BY <1>1, <3>1 DEF Inv, WireInOrder
  <2>2. \A k \in 1..Len(t) : n < t[k] /\ t[k] <= seq
    BY <1>2, <1>3, <1>4
  <2>3. \A k, m \in 1..Len(t) : k < m => t[k] < t[m]
    <3> TAKE k, m \in 1..Len(t)
    <3>1. /\ t[k] = w[k + 1] /\ k + 1 \in 1..Len(w)
          /\ t[m] = w[m + 1] /\ m + 1 \in 1..Len(w)
          /\ k < m => k + 1 < m + 1
      BY <1>3, <1>4
    <3> QED BY <1>2, <3>1
  <2> SUFFICES ASSUME NEW c \in Conns
               PROVE  /\ conns[c] # "connected" \/ c \notin room => wire'[c] = <<>>
                      /\ \A k, m \in 1..Len(wire'[c]) : k < m => wire'[c][k] < wire'[c][m]
                      /\ \A k \in 1..Len(wire'[c]) : n < wire'[c][k] /\ wire'[c][k] <= seq
    BY <1>0, <1>7, <1>8, Zenon DEF WireInOrder
  <2>4. CASE c = i
    BY <1>1, <1>5, <2>2, <2>3, <2>4
  <2>5. CASE c # i
    <3>1. wire'[c] = <<>>
      BY <1>5, <2>1, <2>5
    <3> QED BY <3>1
  <2> QED BY <2>4, <2>5
<1> QED BY <1>9, <1>10, <1>11, <1>12 DEF Inv

LEMMA BroadcastInv == ASSUME Inv, Broadcast PROVE Inv'
<1> USE DEF counts, messages
<1> DEFINE f(k) == IF k \in room /\ conns[k] = "connected" THEN Append(wire[k], seq + 1)
                   ELSE wire[k]
<1>1. /\ seq \in Nat /\ seq + 1 \in 1..Total /\ seq + 1 \in 0..Total /\ highestSeq \in Nat
      /\ highestSeq <= seq
  BY Constants DEF Broadcast, MoreToPublish, Inv, TypeOK, Recorded
<1>2. /\ seq' = seq + 1 /\ wire' = [k \in Conns |-> f(k)]
      /\ UNCHANGED <<variant, conns, current, loop, rounds, joining, room, kept, messages,
                     counts, done, drops>>
  BY DEF Broadcast
<1>3. /\ Latest \in Nat /\ Conns = 1..Latest /\ Conns' = Conns /\ Latest' = Latest
      /\ \A k \in Conns : wire[k] \in Seq(1..Total)
  BY <1>2, Lists DEF Conns, Latest, Inv
<1>4. \A k \in Conns : f(k) \in Seq(1..Total)
  <2> TAKE k \in Conns
  <2>1. wire[k] \in Seq(1..Total)
    BY <1>3
  <2>2. Append(wire[k], seq + 1) \in Seq(1..Total)
    BY <1>1, <2>1
  <2> QED BY <2>1, <2>2
<1>5. \A k \in Conns : \/ f(k) = wire[k]
                       \/ k \in room /\ conns[k] = "connected" /\ f(k) = Append(wire[k], seq + 1)
  OBVIOUS
<1> HIDE DEF f
<1>6. /\ wire' \in Seq(Seq(1..Total)) /\ Len(wire') = Latest
      /\ \A k \in Conns : wire'[k] = f(k)
  BY <1>2, <1>3, <1>4
<1>7. TypeOK'
  BY <1>1, <1>2, <1>3, <1>6 DEF Inv, TypeOK, Latest
<1>8. Places' /\ Accounts'
  BY <1>2, <1>3 DEF Inv, Places, Active, Reconnecting, Accounts, MayResume, Opening
<1>9. Recorded'
  BY <1>1, <1>2 DEF Inv, Recorded
<1>10. WireInOrder'
  <2> SUFFICES ASSUME NEW c \in Conns
               PROVE  /\ conns[c] # "connected" \/ c \notin room => f(c) = <<>>
                      /\ \A k, m \in 1..Len(f(c)) : k < m => f(c)[k] < f(c)[m]
                      /\ \A k \in 1..Len(f(c)) : highestSeq < f(c)[k] /\ f(c)[k] <= seq + 1
    BY <1>2, <1>3, <1>6 DEF WireInOrder
  <2> DEFINE w == wire[c]
  <2>1. /\ w \in Seq(1..Total) /\ Len(w) \in Nat /\ \A k \in 1..Len(w) : w[k] \in Nat
        /\ conns[c] # "connected" \/ c \notin room => w = <<>>
        /\ \A k, m \in 1..Len(w) : k < m => w[k] < w[m]
        /\ \A k \in 1..Len(w) : highestSeq < w[k] /\ w[k] <= seq
    BY <1>3, Numbers DEF Inv, WireInOrder
  <2>2. CASE f(c) = wire[c]
    <3>1. f(c) = w
      BY <2>2
    <3> HIDE DEF w
    <3> QED BY <1>1, <2>1, <3>1
  <2>3. CASE c \in room /\ conns[c] = "connected" /\ f(c) = Append(wire[c], seq + 1)
    <3>1. f(c) = Append(w, seq + 1)
      BY <2>3
    <3> HIDE DEF w
    <3>2. /\ Len(f(c)) = Len(w) + 1 /\ f(c)[Len(w) + 1] = seq + 1
          /\ \A k \in 1..Len(w) : f(c)[k] = w[k]
      BY <1>1, <2>1, <3>1
    <3>3. \A k \in 1..Len(f(c)) : k \in 1..Len(w) \/ k = Len(w) + 1
      BY <2>1, <3>2
    <3>4. ASSUME NEW k \in 1..Len(f(c)), NEW m \in 1..Len(f(c)), k < m
          PROVE  f(c)[k] < f(c)[m]
      <4>1. k \in 1..Len(w)
        BY <2>1, <3>2, <3>4
      <4>2. CASE m \in 1..Len(w)
        BY <2>1, <3>2, <3>4, <4>1, <4>2
      <4>3. CASE m = Len(w) + 1
        BY <1>1, <2>1, <3>2, <4>1, <4>3
      <4> QED BY <3>3, <4>2, <4>3
    <3>5. \A k \in 1..Len(f(c)) : highestSeq < f(c)[k] /\ f(c)[k] <= seq + 1
      BY <1>1, <2>1, <3>2, <3>3
    <3> QED BY <2>3, <3>4, <3>5
  <2> QED BY <1>5, <2>2, <2>3
<1> QED BY <1>7, <1>8, <1>9, <1>10 DEF Inv

LEMMA StepInv == Inv /\ [Next]_vars => Inv'
<1> SUFFICES ASSUME Inv, [Next]_vars PROVE Inv'
  OBVIOUS
<1>1. CASE UNCHANGED vars
  BY <1>1 DEF vars, server, messages, counts, Inv, TypeOK, Places, Active, Reconnecting,
     Accounts, MayResume, Opening, Latest, Conns, WireInOrder, Recorded
<1> QED BY <1>1, NextCases, ConnectsInv, FreshConnectsInv, JoinArrivesInv, MessageInv,
           ConnectFailsInv, HangsInv, DropsInv, JitterInv, ReconnectsInv, FreshOpensInv,
           GivesUpInv, EndsInv, ForgetsInv, BroadcastInv

----------------------------------------------------------------------------
\* The types of the state of the client, the room and the publisher.
THEOREM TypeCorrect == Spec => []TypeOK
<1>1. Inv => TypeOK
  BY DEF Inv
<1> QED BY <1>1, InitInv, StepInv, PTL DEF Spec

\* However many sockets a client has had, each delivery it counts has one
\* latency sample (RecordedOnce).
THEOREM RecordsOnce == Spec => []RecordedOnce
<1>1. Inv => RecordedOnce
  BY DEF Inv, Recorded, RecordedOnce
<1> QED BY <1>1, InitInv, StepInv, PTL DEF Spec

\* Every resume counted has a jitter counted, or a failure, of its own
\* (ResumesWithinJitters).
THEOREM ResumesHaveCauses == Spec => []ResumesWithinJitters
<1>1. Inv => ResumesWithinJitters
  <2> SUFFICES ASSUME Inv PROVE recoveredCount <= jitterCount + drops
    BY DEF ResumesWithinJitters
  <2>1. recoveredCount \in Nat /\ jitterCount \in Nat /\ drops \in Nat
    BY DEF Inv, TypeOK
  <2> QED BY <2>1 DEF Inv, Accounts
<1> QED BY <1>1, InitInv, StepInv, PTL DEF Spec

\* When the test is over, nothing that is or will be in the room is open
\* (EndsClean).
THEOREM LeavesNothing == Spec => []EndsClean
<1>1. Inv => EndsClean
  <2> SUFFICES ASSUME Inv, done, NEW i \in room \cup joining
               PROVE  conns[i] = "closed"
    BY DEF EndsClean
  <2>1. i \in Conns
    BY DEF Inv, TypeOK
  <2> QED BY <2>1 DEF Inv, Places, Active
<1> QED BY <1>1, InitInv, StepInv, PTL DEF Spec

=============================================================================
