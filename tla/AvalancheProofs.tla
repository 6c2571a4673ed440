------------------------- MODULE AvalancheProofs --------------------------
(***************************************************************************)
(* Theorems about the avalanche runners, for any number of clients and     *)
(* failures: the types, that the counters agree with the clients in a run  *)
(* where everybody goes through one cycle, that the Socket.io runner       *)
(* counts the connections the server dropped, and that the recovery time   *)
(* covers the reconnects it stands for.                                    *)
(***************************************************************************)
EXTENDS Avalanche, FiniteSetTheorems, SequenceTheorems, TLAPS

\* The clock and the two deadlines, and when the restart was detected.
Clock ==
  /\ pc = "ramp" => now = 1 /\ disconnected = 0 /\ reconnected = 0
  /\ pc = "arm" => deadline = 1 + Prearm /\ now <= Prearm + 2
  /\ pc = "recover" => /\ restartDetectedAt \in 1..(Prearm + 2)
                       /\ deadline = restartDetectedAt + RecoveryWait
  /\ restartDetectedAt <= now
  /\ restartDetectedAt > 0 <=> disconnected > 0

\* Who was dropped after the ramp is the cause of what the listeners saw.
Causes ==
  /\ pc = "ramp" => back = {} /\ \A c \in Client : drops[c] = 0
  /\ pc = "returned" => \A c \in Client : conn[c] = "closed"
  /\ \A c \in once : drops[c] > 0 => restartDetectedAt > 0
  /\ flapped = {} => \A c \in once : drops[c] = 0 => conn[c] \in {"up", "closed"} /\ c \notin back

\* The counters in a run of one cycle, which may still be in its ramp.
Counters ==
  /\ flapped = {} => initiallyConnected = Cardinality(once)
  /\ OneCycle => /\ reconnected = Cardinality(back)
                 /\ \A c \in back : drops[c] = 1 /\ conn[c] \in {"up", "closed"}

Inv == TypeOK /\ Clock /\ Causes /\ Counters

----------------------------------------------------------------------------
LEMMA NextCases ==
  ASSUME [Next]_vars
  PROVE  \/ \E c \in Client : RampUp(c) \/ Close(c)
         \/ RampEnds \/ ArmEnds \/ RecoveryEnds \/ Returns
         \/ \E c \in Client : /\ pc # "teardown"
                              /\ Connects(c) \/ Drop(c) \/ AttemptFails(c)
         \/ TimePasses
         \/ UNCHANGED vars
BY DEF Next, Runner, Network, Finished

LEMMA Constants ==
  /\ Prearm \in Nat /\ RecoveryWait \in Nat /\ MaxFaults \in Nat /\ IsFiniteSet(Client)
  /\ MaxClock = Prearm + RecoveryWait + 3
BY AvalancheAssumption DEF AvalancheAssumption, MaxClock

LEMMA Numbers ==
  ASSUME TypeOK
  PROVE  /\ now \in Nat /\ now > 0 /\ now <= MaxClock /\ deadline \in Nat
         /\ disconnected \in Nat /\ reconnected \in Nat /\ initiallyConnected \in Nat
         /\ restartDetectedAt \in Nat /\ restartDetectedAt <= MaxClock
         /\ conn \in [Client -> {"absent", "down", "up", "closed"}]
         /\ drops \in [Client -> Nat] /\ \A c \in Client : drops[c] \in Nat
         /\ once \subseteq Client /\ back \subseteq Client
BY Constants DEF TypeOK

LEMMA FiniteClients ==
  ASSUME TypeOK
  PROVE  IsFiniteSet(once) /\ IsFiniteSet(back)
BY Constants, FS_Subset DEF TypeOK

LEMMA OneMoreFault ==
  ASSUME TypeOK, faults < MaxFaults
  PROVE  faults + 1 \in 0..MaxFaults
BY Constants DEF TypeOK

\* The listener of a connection that ends.
LEMMA Listener ==
  ASSUME TypeOK, Clock, NEW c \in Client, Disconnected(c)
  PROVE  /\ disconnected' \in Nat
         /\ restartDetectedAt' \in 0..MaxClock /\ restartDetectedAt' <= now
         /\ allDisconnectedAt' \in 0..MaxClock
         /\ restartDetectedAt' > 0 <=> disconnected' > 0
         /\ CountsDisconnect(c) => restartDetectedAt' > 0
         /\ restartDetectedAt' = restartDetectedAt \/ (restartDetectedAt = 0 /\ restartDetectedAt' = now)
         /\ ~ Listening => UNCHANGED <<disconnected, times>>
<1>0. /\ now \in 1..MaxClock /\ disconnected \in Nat
      /\ restartDetectedAt \in 0..MaxClock /\ allDisconnectedAt \in 0..MaxClock
      /\ restartDetectedAt <= now /\ (restartDetectedAt > 0 <=> disconnected > 0)
      /\ MaxClock \in Nat
  BY Constants DEF TypeOK, Clock
<1>1. CASE CountsDisconnect(c)
  <2>1. /\ disconnected' = disconnected + 1
        /\ restartDetectedAt' = IF disconnected = 0 THEN now ELSE restartDetectedAt
        /\ allDisconnectedAt' = now \/ allDisconnectedAt' = allDisconnectedAt
    BY <1>0, <1>1 DEF Disconnected, IsRestart
  <2>2. Listening
    BY <1>1 DEF CountsDisconnect
  <2> QED BY <1>0, <2>1, <2>2
<1>2. CASE ~ CountsDisconnect(c)
  BY <1>0, <1>2 DEF Disconnected, times
<1> QED BY <1>1, <1>2

\* The listener of a connection that opens after the ramp.
LEMMA Returning ==
  ASSUME TypeOK, Clock, Reconnects
  PROVE  /\ reconnected' \in Nat /\ reconnectTimes' \in Seq(Nat)
         /\ Len(reconnectTimes') = reconnected' /\ allReconnectedAt' \in 0..MaxClock
         /\ reconnected' = IF restartDetectedAt > 0 THEN reconnected + 1 ELSE reconnected
<1>0. /\ now \in 1..MaxClock /\ reconnected \in Nat /\ restartDetectedAt \in 0..MaxClock
      /\ allReconnectedAt \in 0..MaxClock /\ restartDetectedAt <= now
      /\ reconnectTimes \in Seq(Nat) /\ Len(reconnectTimes) = reconnected /\ MaxClock \in Nat
  BY Constants DEF TypeOK, Clock
<1>1. CASE restartDetectedAt > 0
  <2>1. now - restartDetectedAt \in Nat
    BY <1>0
  <2>2. /\ reconnected' = reconnected + 1
        /\ reconnectTimes' = Append(reconnectTimes, now - restartDetectedAt)
        /\ allReconnectedAt' = now \/ allReconnectedAt' = allReconnectedAt
    BY <1>1 DEF Reconnects
  <2> QED BY <1>0, <1>1, <2>1, <2>2, AppendProperties
<1>2. CASE ~ (restartDetectedAt > 0)
  BY <1>0, <1>2 DEF Reconnects
<1> QED BY <1>1, <1>2

----------------------------------------------------------------------------
(* The types and the clock. *)

LEMMA TypeStep ==
  ASSUME TypeOK, Clock, [Next]_vars
  PROVE  TypeOK' /\ Clock'
<1> USE DEF times, history
<1>0. MaxClock \in Nat /\ Prearm \in Nat /\ RecoveryWait \in Nat
  BY Constants
<1>1. ASSUME NEW c \in Client, RampUp(c) PROVE TypeOK' /\ Clock'
  BY <1>1 DEF RampUp, TypeOK, Clock
<1>2. ASSUME NEW c \in Client, Close(c) PROVE TypeOK' /\ Clock'
  <2>1. ~ Listening /\ UNCHANGED <<disconnected, times>>
    BY <1>2, Listener DEF Close, Listening
  <2> QED BY <1>2, <2>1 DEF Close, TypeOK, Clock
<1>3. CASE RampEnds
  BY <1>0, <1>3 DEF RampEnds, TypeOK, Clock
<1>4. CASE ArmEnds
  BY <1>0, <1>4 DEF ArmEnds, TypeOK, Clock
<1>5. CASE RecoveryEnds
  <2>1. allReconnectedAt' \in 0..MaxClock
    BY <1>0, <1>5 DEF RecoveryEnds, TypeOK
  <2> QED BY <1>5, <2>1 DEF RecoveryEnds, TypeOK, Clock
<1>6. CASE Returns
  BY <1>6 DEF Returns, TypeOK, Clock
<1>7. ASSUME NEW c \in Client, Connects(c) PROVE TypeOK' /\ Clock'
  <2>1. /\ conn' \in [Client -> {"absent", "down", "up", "closed"}]
        /\ UNCHANGED <<variant, now, pc, disconnected, times, deadline, drops, flapped, faults>>
    BY <1>7 DEF Connects, TypeOK
  <2>2. CASE pc = "ramp"
    <3>1. once' \in SUBSET Client /\ initiallyConnected' \in Nat
      BY <1>7, <2>2 DEF Connects, TypeOK
    <3>2. UNCHANGED <<reconnected, reconnectTimes, allReconnectedAt, back>>
      BY <1>7, <2>2 DEF Connects
    <3> QED BY <2>1, <3>1, <3>2 DEF TypeOK, Clock
  <2>3. CASE pc # "ramp"
    <3>1. Reconnects /\ back' \in SUBSET Client /\ UNCHANGED <<once, initiallyConnected>>
      BY <1>7, <2>3 DEF Connects, TypeOK
    <3> QED BY <2>1, <2>3, <3>1, Returning DEF TypeOK, Clock
  <2> QED BY <2>2, <2>3
<1>8. ASSUME NEW c \in Client, pc # "teardown", Drop(c) PROVE TypeOK' /\ Clock'
  <2>0. faults' \in 0..MaxFaults /\ conn' \in [Client -> {"absent", "down", "up", "closed"}]
    BY <1>8, OneMoreFault DEF Drop, TypeOK
  <2>1. drops' \in [Client -> Nat] /\ flapped' \in SUBSET Client
    <3>1. CASE pc = "ramp"
      BY <1>8, <3>1 DEF Drop, TypeOK
    <3>2. CASE pc # "ramp"
      BY <1>8, <3>2 DEF Drop, TypeOK
    <3> QED BY <3>1, <3>2
  <2>2. /\ Disconnected(c)
        /\ UNCHANGED <<variant, now, pc, once, initiallyConnected, reconnected,
                       reconnectTimes, allReconnectedAt, deadline, back>>
    BY <1>8 DEF Drop
  <2>3. TypeOK'
    BY <2>0, <2>1, <2>2, Listener DEF TypeOK
  <2>4. pc = "ramp" => ~ Listening
    BY DEF Listening
  <2>5. Clock'
    BY <2>2, <2>4, Listener, Numbers DEF Clock
  <2> QED BY <2>3, <2>5
<1>9. ASSUME NEW c \in Client, AttemptFails(c) PROVE TypeOK' /\ Clock'
  <2>1. faults' \in 0..MaxFaults
    BY <1>9, OneMoreFault DEF AttemptFails
  <2>2. /\ Disconnected(c)
        /\ UNCHANGED <<variant, now, pc, conn, once, initiallyConnected, reconnected,
                       reconnectTimes, allReconnectedAt, deadline, history>>
    BY <1>9 DEF AttemptFails
  <2>3. TypeOK'
    BY <2>1, <2>2, Listener DEF TypeOK
  <2>4. pc = "ramp" => ~ Listening
    BY DEF Listening
  <2>5. Clock'
    BY <2>2, <2>4, Listener, Numbers DEF Clock
  <2> QED BY <2>3, <2>5
<1>10. CASE TimePasses
  <2>1. /\ pc \in {"arm", "recover"} /\ now <= deadline /\ now' = now + 1
        /\ UNCHANGED <<variant, pc, conn, once, initiallyConnected, disconnected, reconnected,
                 reconnectTimes, times, allReconnectedAt, deadline, history, faults>>
    BY <1>10 DEF TimePasses
  <2>2. deadline <= Prearm + RecoveryWait + 2
    BY <1>0, <2>1, Numbers DEF Clock
  <2>3. now' \in 1..MaxClock
    BY <1>0, <2>1, <2>2, Numbers, Constants
  <2>4. TypeOK'
    BY <2>1, <2>3 DEF TypeOK
  <2>5. Clock'
    BY <1>0, <2>1, <2>3, Numbers DEF Clock
  <2> QED BY <2>4, <2>5
<1>11. CASE UNCHANGED vars
  BY <1>11 DEF vars, TypeOK, Clock
<1> QED BY <1>1, <1>2, <1>3, <1>4, <1>5, <1>6, <1>7, <1>8, <1>9, <1>10, <1>11, NextCases


----------------------------------------------------------------------------
(* Clients and counters. *)

LEMMA CausesStep ==
  ASSUME Inv, [Next]_vars
  PROVE  Causes'
<1> USE DEF history, times
<1>0. /\ TypeOK /\ Clock /\ Causes
      /\ restartDetectedAt \in Nat /\ now \in Nat /\ now > 0
      /\ conn \in [Client -> {"absent", "down", "up", "closed"}]
      /\ drops \in [Client -> Nat] /\ once \subseteq Client
      /\ \A c \in Client : drops[c] \in Nat
  BY Numbers DEF Inv
<1>1. ASSUME NEW c \in Client, RampUp(c) PROVE Causes'
  <2>1. /\ pc = "ramp" /\ conn[c] = "absent" /\ conn' = [conn EXCEPT ![c] = "down"]
        /\ UNCHANGED <<pc, once, restartDetectedAt, drops, back, flapped>>
    BY <1>1 DEF RampUp
  <2>2. \A d \in Client : conn'[d] = conn[d] \/ conn[d] = "absent"
    BY <1>0, <2>1
  <2> QED BY <1>0, <2>1, <2>2 DEF Causes
<1>2. ASSUME NEW c \in Client, Close(c) PROVE Causes'
  <2>1. /\ pc = "teardown" /\ conn' = [conn EXCEPT ![c] = "closed"]
        /\ UNCHANGED <<pc, once, drops, back, flapped>>
    BY <1>2 DEF Close
  <2>2. restartDetectedAt' = restartDetectedAt
    BY <1>0, <1>2, Listener DEF Close, Listening
  <2>3. \A d \in Client : conn'[d] = conn[d] \/ conn'[d] = "closed"
    BY <1>0, <2>1
  <2> QED BY <1>0, <2>1, <2>2, <2>3 DEF Causes
<1>3. CASE RampEnds \/ ArmEnds \/ RecoveryEnds
  BY <1>0, <1>3 DEF RampEnds, ArmEnds, RecoveryEnds, Causes
<1>4. CASE Returns
  BY <1>0, <1>4 DEF Returns, Causes
<1>5. ASSUME NEW c \in Client, Connects(c) PROVE Causes'
  <2>1. /\ conn[c] = "down" /\ conn' = [conn EXCEPT ![c] = "up"]
        /\ UNCHANGED <<pc, restartDetectedAt, drops, flapped>>
    BY <1>5 DEF Connects
  <2>2. conn'[c] = "up" /\ \A d \in Client : d # c => conn'[d] = conn[d]
    BY <1>0, <2>1
  <2>3. CASE pc = "ramp"
    <3>1. once' = once \cup {c} /\ back' = back
      BY <1>5, <2>3 DEF Connects
    <3> QED BY <1>0, <2>1, <2>2, <2>3, <3>1 DEF Causes
  <2>4. CASE pc # "ramp"
    <3>1. once' = once /\ back' = back \cup {c}
      BY <1>5, <2>4 DEF Connects
    <3> QED BY <1>0, <2>1, <2>2, <2>4, <3>1 DEF Causes
  <2> QED BY <2>3, <2>4
<1>6. ASSUME NEW c \in Client, pc # "teardown", Drop(c) PROVE Causes'
  <2>1. /\ conn[c] = "up" /\ conn' = [conn EXCEPT ![c] = "down"] /\ Disconnected(c)
        /\ UNCHANGED <<now, pc, once, back>>
    BY <1>6 DEF Drop
  <2>2. \A d \in Client : d # c => conn'[d] = conn[d]
    BY <1>0, <2>1
  <2>3. pc # "returned"
    BY <1>0, <2>1 DEF Causes
  <2>4. restartDetectedAt > 0 => restartDetectedAt' > 0
    BY <1>0, <2>1, Listener
  <2>5. CASE pc = "ramp"
    <3>1. flapped' = flapped \cup {c} /\ drops' = drops
      BY <1>6, <2>5 DEF Drop
    <3> QED BY <1>0, <2>1, <2>3, <2>5, <3>1 DEF Causes
  <2>6. CASE pc # "ramp"
    <3>1. flapped' = flapped /\ drops' = [drops EXCEPT ![c] = @ + 1]
      BY <1>6, <2>6 DEF Drop
    <3>2. /\ drops'[c] = drops[c] + 1 /\ drops'[c] # 0
          /\ \A d \in Client : d # c => drops'[d] = drops[d]
      BY <1>0, <3>1
    <3>3. c \in once => restartDetectedAt' > 0
      <4>1. c \in once => CountsDisconnect(c)
        BY <1>0, <1>6, <2>3, <2>6 DEF CountsDisconnect, Listening, TypeOK
      <4> QED BY <1>0, <2>1, <4>1, Listener
    <3> QED BY <1>0, <2>1, <2>2, <2>3, <2>4, <2>6, <3>1, <3>2, <3>3 DEF Causes
  <2> QED BY <2>5, <2>6
<1>7. ASSUME NEW c \in Client, AttemptFails(c) PROVE Causes'
  <2>1. Disconnected(c) /\ UNCHANGED <<now, pc, conn, once, history>>
    BY <1>7 DEF AttemptFails
  <2>2. restartDetectedAt > 0 => restartDetectedAt' > 0
    BY <1>0, <2>1, Listener
  <2> QED BY <1>0, <2>1, <2>2 DEF Causes
<1>8. CASE TimePasses \/ UNCHANGED vars
  BY <1>0, <1>8 DEF TimePasses, vars, Causes
<1> QED BY <1>1, <1>2, <1>3, <1>4, <1>5, <1>6, <1>7, <1>8, NextCases

LEMMA CountersStep ==
  ASSUME Inv, [Next]_vars
  PROVE  Counters'
<1> USE DEF history, times
<1>0. /\ TypeOK /\ Clock /\ Causes /\ Counters
      /\ conn \in [Client -> {"absent", "down", "up", "closed"}]
      /\ drops \in [Client -> Nat] /\ once \subseteq Client /\ back \subseteq Client
      /\ IsFiniteSet(once) /\ IsFiniteSet(back)
      /\ initiallyConnected \in Nat /\ reconnected \in Nat
      /\ \A c \in Client : drops[c] \in Nat
  BY Numbers, FiniteClients DEF Inv
<1>1. ASSUME NEW c \in Client, RampUp(c) PROVE Counters'
  <2>1. /\ conn' = [conn EXCEPT ![c] = "down"] /\ back = {}
        /\ UNCHANGED <<once, initiallyConnected, reconnected, drops, back, flapped>>
    BY <1>0, <1>1 DEF RampUp, Causes
  <2> QED BY <1>0, <2>1 DEF Counters, OneCycle
<1>2. ASSUME NEW c \in Client, Close(c) PROVE Counters'
  <2>1. /\ conn' = [conn EXCEPT ![c] = "closed"]
        /\ UNCHANGED <<once, initiallyConnected, reconnected, drops, back, flapped>>
    BY <1>2 DEF Close
  <2>2. \A d \in Client : conn'[d] = conn[d] \/ conn'[d] = "closed"
    BY <1>0, <2>1
  <2> QED BY <1>0, <2>1, <2>2 DEF Counters, OneCycle
<1>3. CASE UNCHANGED <<conn, once, initiallyConnected, reconnected, drops, back, flapped>>
  BY <1>0, <1>3 DEF Counters, OneCycle
<1>4. ASSUME NEW c \in Client, Connects(c) PROVE Counters'
  <2>1. /\ conn[c] = "down" /\ conn' = [conn EXCEPT ![c] = "up"]
        /\ UNCHANGED <<variant, pc, drops, flapped>>
    BY <1>4 DEF Connects
  <2>2. conn'[c] = "up" /\ \A d \in Client : d # c => conn'[d] = conn[d]
    BY <1>0, <2>1
  <2>3. CASE pc = "ramp"
    <3>1. /\ once' = once \cup {c} /\ UNCHANGED <<reconnected, back>> /\ back = {}
          /\ initiallyConnected' = initiallyConnected + IF CountsInitial(c) THEN 1 ELSE 0
      BY <1>0, <1>4, <2>3 DEF Connects, Causes
    <3>2. reconnected = Cardinality(back)
      BY <1>0, <2>3, <3>1, FS_EmptySet DEF Clock
    <3>3. flapped = {} => c \notin once
      BY <1>0, <2>1, <2>3 DEF Causes
    <3>4. ASSUME flapped = {} PROVE initiallyConnected' = Cardinality(once')
      <4>1. initiallyConnected' = initiallyConnected + 1
        BY <3>1, <3>3, <3>4 DEF CountsInitial
      <4>2. Cardinality(once') = Cardinality(once) + 1
        BY <1>0, <3>1, <3>3, <3>4, FS_AddElement
      <4> QED BY <1>0, <3>4, <4>1, <4>2 DEF Counters
    <3> QED BY <2>1, <3>1, <3>2, <3>4 DEF Counters
  <2>4. CASE pc # "ramp"
    <3>1. Reconnects /\ back' = back \cup {c} /\ UNCHANGED <<once, initiallyConnected>>
      BY <1>4, <2>4 DEF Connects
    <3>2. ASSUME OneCycle'
          PROVE  /\ reconnected' = Cardinality(back')
                 /\ \A d \in back' : drops'[d] = 1 /\ conn'[d] \in {"up", "closed"}
      <4>1. OneCycle /\ c \in once /\ flapped = {}
        BY <2>1, <3>1, <3>2 DEF OneCycle
      <4>2. drops[c] # 0
        BY <1>0, <2>1, <4>1 DEF Causes
      <4>3. drops[c] = 1
        BY <1>0, <4>1, <4>2 DEF OneCycle
      <4>4. c \notin back
        BY <1>0, <2>1, <4>1 DEF Counters
      <4>5. restartDetectedAt > 0
        BY <1>0, <4>1, <4>3 DEF Causes
      <4>6. reconnected' = reconnected + 1
        BY <1>0, <3>1, <4>5, Returning
      <4>7. Cardinality(back') = Cardinality(back) + 1
        BY <1>0, <3>1, <4>4, FS_AddElement
      <4>8. reconnected' = Cardinality(back')
        BY <1>0, <4>1, <4>6, <4>7 DEF Counters
      <4>9. ASSUME NEW d \in back' PROVE drops'[d] = 1 /\ conn'[d] \in {"up", "closed"}
        BY <1>0, <2>1, <2>2, <3>1, <4>1, <4>3, <4>9 DEF Counters
      <4> QED BY <4>8, <4>9
    <3>3. flapped' = {} => initiallyConnected' = Cardinality(once')
      BY <1>0, <2>1, <3>1 DEF Counters
    <3> QED BY <3>2, <3>3 DEF Counters
  <2> QED BY <2>3, <2>4
<1>5. ASSUME NEW c \in Client, pc # "teardown", Drop(c) PROVE Counters'
  <2>1. /\ conn[c] = "up" /\ conn' = [conn EXCEPT ![c] = "down"]
        /\ UNCHANGED <<once, initiallyConnected, reconnected, back>>
    BY <1>5 DEF Drop
  <2>2. \A d \in Client : d # c => conn'[d] = conn[d]
    BY <1>0, <2>1
  <2>3. CASE pc = "ramp"
    <3>1. flapped' = flapped \cup {c}
      BY <1>5, <2>3 DEF Drop
    <3> QED BY <3>1 DEF Counters, OneCycle
  <2>4. CASE pc # "ramp"
    <3>1. flapped' = flapped /\ drops' = [drops EXCEPT ![c] = @ + 1]
      BY <1>5, <2>4 DEF Drop
    <3>2. /\ drops'[c] = drops[c] + 1
          /\ \A d \in Client : d # c => drops'[d] = drops[d]
      BY <1>0, <3>1
    <3>3. ASSUME OneCycle'
          PROVE  /\ reconnected' = Cardinality(back')
                 /\ \A d \in back' : drops'[d] = 1 /\ conn'[d] \in {"up", "closed"}
      <4>1. OneCycle
        <5>1. once = Client /\ flapped = {} /\ \A d \in Client : drops'[d] <= 1
          BY <2>1, <3>1, <3>3 DEF OneCycle
        <5>2. \A d \in Client : drops[d] <= drops'[d] /\ drops'[d] \in Nat
          BY <1>0, <3>2
        <5>3. \A d \in Client : drops[d] <= 1
          BY <1>0, <5>1, <5>2
        <5> QED BY <5>1, <5>3 DEF OneCycle
      <4>2. drops[c] = 0
        BY <1>0, <3>2, <3>3 DEF OneCycle
      <4>3. c \notin back
        BY <1>0, <4>1, <4>2 DEF Counters
      <4> QED BY <1>0, <2>1, <2>2, <3>2, <4>1, <4>3 DEF Counters
    <3>4. flapped' = {} => initiallyConnected' = Cardinality(once')
      BY <1>0, <2>1, <3>1 DEF Counters
    <3> QED BY <3>3, <3>4 DEF Counters
  <2> QED BY <2>3, <2>4
<1>6. \/ UNCHANGED <<conn, once, initiallyConnected, reconnected, drops, back, flapped>>
      \/ \E c \in Client : RampUp(c) \/ Close(c) \/ Connects(c) \/ (pc # "teardown" /\ Drop(c))
  BY NextCases DEF RampEnds, ArmEnds, RecoveryEnds, Returns, AttemptFails, TimePasses, vars
<1> QED BY <1>1, <1>2, <1>3, <1>4, <1>5, <1>6

----------------------------------------------------------------------------
LEMMA InitInv == Init => Inv
<1> SUFFICES ASSUME Init PROVE Inv
  OBVIOUS
<1> USE Constants DEF Init
<1>1. TypeOK
  <2>1. <<>> \in Seq(Nat) /\ Len(<<>>) = 0 /\ 1 \in 1..MaxClock /\ 0 \in 0..MaxClock
        /\ 0 \in 0..MaxFaults
    OBVIOUS
  <2> QED BY <2>1 DEF TypeOK
<1>2. Clock /\ Causes
  BY DEF Clock, Causes
<1>3. Counters
  BY FS_EmptySet DEF Counters
<1> QED BY <1>1, <1>2, <1>3 DEF Inv

LEMMA StepInv == Inv /\ [Next]_vars => Inv'
BY TypeStep, CausesStep, CountersStep DEF Inv

\* The types of the runner's state, and that its clock keeps to the two deadlines.
THEOREM TypeCorrect == Spec => []TypeOK
<1>1. Inv => TypeOK
  BY DEF Inv
<1> QED BY <1>1, InitInv, StepInv, PTL DEF Spec

\* When each client goes through one cycle, the counters, which know no clients,
\* count them: reconnected is how many came back, and only those that were dropped
\* did (ReconnectedAreBack).
THEOREM CountersCountClients == Spec => []ReconnectedAreBack
<1>1. Inv => ReconnectedAreBack
  BY DEF Inv, Counters, ReconnectedAreBack, OneCycle
<1> QED BY <1>1, InitInv, StepInv, PTL DEF Spec

----------------------------------------------------------------------------
(* The disconnects the Socket.io runner counts. *)

DropsCounted ==
  /\ IsFiniteSet(ServerDrops)
  /\ CountsServerDrops

LEMMA InitDrops == Init => DropsCounted
<1> SUFFICES ASSUME Init PROVE DropsCounted
  OBVIOUS
<1>1. ServerDrops = {}
  BY DEF Init, ServerDrops
<1>2. disconnected = 0
  BY DEF Init
<1> QED BY <1>1, <1>2, FS_EmptySet DEF DropsCounted, CountsServerDrops

\* One more break is one more pair.
LEMMA OneMoreDrop ==
  ASSUME TypeOK, IsFiniteSet(ServerDrops), NEW c \in Client,
         drops' = [drops EXCEPT ![c] = @ + 1]
  PROVE  IsFiniteSet(ServerDrops') /\ Cardinality(ServerDrops') = Cardinality(ServerDrops) + 1
<1>1. drops \in [Client -> Nat] /\ drops[c] \in Nat
  BY Numbers
<1> DEFINE e == <<c, drops[c] + 1>>
<1>2. /\ 1..drops'[c] = 1..drops[c] \cup {drops[c] + 1}
      /\ \A d \in Client : d # c => drops'[d] = drops[d]
  <2>1. drops'[c] = drops[c] + 1
    BY <1>1
  <2>2. 1..(drops[c] + 1) = 1..drops[c] \cup {drops[c] + 1}
    BY <1>1
  <2> QED BY <1>1, <2>1, <2>2
<1>3. ServerDrops' = ServerDrops \cup {e}
  <2>1. ASSUME NEW x \in ServerDrops' PROVE x \in ServerDrops \cup {e}
    <3>1. PICK d \in Client : x \in {d} \X (1..drops'[d])
      BY DEF ServerDrops
    <3> QED BY <1>2, <3>1 DEF ServerDrops
  <2>2. ASSUME NEW x \in ServerDrops PROVE x \in ServerDrops'
    <3>1. PICK d \in Client : x \in {d} \X (1..drops[d])
      BY DEF ServerDrops
    <3>2. x \in {d} \X (1..drops'[d])
      BY <1>2, <3>1
    <3> QED BY <3>2 DEF ServerDrops
  <2>3. e \in ServerDrops'
    <3>1. e \in {c} \X (1..drops'[c])
      BY <1>2
    <3> QED BY <3>1 DEF ServerDrops
  <2> QED BY <2>1, <2>2, <2>3
<1>4. e \notin ServerDrops
  BY <1>1 DEF ServerDrops
<1> HIDE DEF e
<1> QED BY <1>3, <1>4, FS_AddElement

LEMMA DropsStep ==
  ASSUME Inv, DropsCounted, [Next]_vars
  PROVE  DropsCounted'
<1> USE DEF history, times
<1>0. TypeOK /\ Clock /\ Causes
  BY DEF Inv
<1>1. CASE UNCHANGED <<variant, drops, disconnected>>
  BY <1>1 DEF DropsCounted, CountsServerDrops, ServerDrops
<1>2. ASSUME NEW c \in Client, Close(c) PROVE UNCHANGED <<variant, drops, disconnected>>
  BY <1>0, <1>2, Listener DEF Close, Listening
<1>3. ASSUME NEW c \in Client, AttemptFails(c) PROVE DropsCounted'
  <2>1. variant = "uws" /\ UNCHANGED <<variant, drops>>
    BY <1>3 DEF AttemptFails
  <2> QED BY <2>1 DEF DropsCounted, CountsServerDrops, ServerDrops
<1>4. ASSUME NEW c \in Client, pc # "teardown", Drop(c) PROVE DropsCounted'
  <2>1. conn[c] = "up" /\ Disconnected(c) /\ UNCHANGED <<variant, pc>>
    BY <1>4 DEF Drop
  <2>2. CASE pc = "ramp"
    <3>1. UNCHANGED <<drops, disconnected>>
      BY <1>0, <1>4, <2>1, <2>2, Listener DEF Drop, Listening
    <3> QED BY <1>1, <2>1, <3>1
  <2>3. CASE pc # "ramp"
    <3>1. Listening
      BY <1>0, <1>4, <2>1, <2>3 DEF Listening, TypeOK, Causes
    <3>2. variant = "socketio" => disconnected' = disconnected + 1
      BY <2>1, <3>1 DEF Disconnected, CountsDisconnect
    <3>3. drops' = [drops EXCEPT ![c] = @ + 1]
      BY <1>4, <2>3 DEF Drop
    <3>4. IsFiniteSet(ServerDrops') /\ Cardinality(ServerDrops') = Cardinality(ServerDrops) + 1
      BY <1>0, <3>3, OneMoreDrop DEF DropsCounted
    <3> QED BY <2>1, <3>2, <3>4 DEF DropsCounted, CountsServerDrops
  <2> QED BY <2>2, <2>3
<1>5. \/ UNCHANGED <<variant, drops, disconnected>>
      \/ \E c \in Client : Close(c) \/ AttemptFails(c) \/ (pc # "teardown" /\ Drop(c))
  BY NextCases
     DEF RampUp, RampEnds, ArmEnds, RecoveryEnds, Returns, Connects, TimePasses, vars
<1> QED BY <1>1, <1>2, <1>3, <1>4, <1>5

\* The Socket.io runner counts each connection the server dropped after the ramp,
\* and none that its own teardown closes (CountsServerDrops).
THEOREM DropsAreCounted == Spec => []CountsServerDrops
<1>1. Inv /\ DropsCounted /\ [Next]_vars => (Inv /\ DropsCounted)'
  BY StepInv, DropsStep
<1>2. DropsCounted => CountsServerDrops
  BY DEF DropsCounted
<1> QED BY <1>1, <1>2, InitInv, InitDrops, PTL DEF Spec

----------------------------------------------------------------------------
(* The recovery time. *)

\* 95% were counted back within so many ticks of the restart.
BackWithin(ticks) ==
  \E k \in 0..reconnected : NinetyFive(k) /\ \A i \in 1..k : reconnectTimes[i] <= ticks

Recovery ==
  /\ reconnected > 0 => restartDetectedAt > 0
  /\ restartDetectedAt > 0 =>
       \A i \in 1..reconnected : reconnectTimes[i] <= now - restartDetectedAt
  /\ allReconnectedAt # 0 =>
       /\ pc # "ramp" /\ restartDetectedAt > 0
       /\ \/ allReconnectedAt - restartDetectedAt >= RecoveryWait
          \/ BackWithin(allReconnectedAt - restartDetectedAt)
  /\ pc \in {"teardown", "returned"} /\ restartDetectedAt > 0 => allReconnectedAt # 0

LEMMA InitRecovery == Init => Recovery
BY DEF Init, Recovery

\* Steps that change nothing the recovery is about.
LEMMA RecoveryFrame ==
  ASSUME Recovery,
         UNCHANGED <<now, initiallyConnected, restartDetectedAt, reconnected, reconnectTimes,
                     allReconnectedAt>>,
         \/ pc' = pc
         \/ pc = "ramp" /\ pc' = "arm"
         \/ pc = "arm" /\ pc' = "recover"
         \/ pc = "arm" /\ pc' = "teardown" /\ restartDetectedAt = 0
         \/ pc = "teardown" /\ pc' = "returned"
  PROVE  Recovery'
<1>1. BackWithin(allReconnectedAt - restartDetectedAt) =>
        BackWithin(allReconnectedAt - restartDetectedAt)'
  BY DEF BackWithin, NinetyFive
<1> QED BY <1>1 DEF Recovery

\* A connection that ends may be the restart: nobody is counted back before it.
LEMMA RecoveryListener ==
  ASSUME TypeOK, Clock, Recovery, NEW c \in Client, Disconnected(c),
         UNCHANGED <<pc, now, initiallyConnected, reconnected, reconnectTimes, allReconnectedAt>>
  PROVE  Recovery'
<1>1. CASE restartDetectedAt' = restartDetectedAt
  BY <1>1, RecoveryFrame
<1>2. CASE restartDetectedAt' # restartDetectedAt
  <2>1. restartDetectedAt = 0 /\ Listening
    BY <1>2, Listener DEF times
  <2>2. reconnected = 0 /\ allReconnectedAt = 0
    BY <2>1, Numbers DEF Recovery
  <2> QED BY <2>1, <2>2, Listener, Numbers DEF Recovery, Listening, times
<1> QED BY <1>1, <1>2

\* A client that is counted back adds the time since the restart.
LEMMA RecoveryReturning ==
  ASSUME TypeOK, Clock, Recovery, Reconnects, pc # "ramp",
         UNCHANGED <<pc, now, initiallyConnected, restartDetectedAt>>
  PROVE  Recovery'
<1>0. /\ now \in Nat /\ reconnected \in Nat /\ restartDetectedAt \in Nat
      /\ restartDetectedAt <= now /\ now > 0 /\ initiallyConnected \in Nat
      /\ reconnectTimes \in Seq(Nat) /\ Len(reconnectTimes) = reconnected
      /\ allReconnectedAt \in Nat
  BY Numbers, Constants DEF TypeOK, Clock
<1>1. CASE restartDetectedAt = 0
  BY <1>0, <1>1, RecoveryFrame DEF Reconnects
<1>2. CASE restartDetectedAt > 0
  <2>1. /\ reconnected' = reconnected + 1
        /\ reconnectTimes' = Append(reconnectTimes, now - restartDetectedAt)
        /\ allReconnectedAt' = IF NinetyFive(reconnected + 1) /\ allReconnectedAt = 0
                               THEN now ELSE allReconnectedAt
    BY <1>2 DEF Reconnects
  <2>2. /\ \A i \in 1..reconnected : reconnectTimes'[i] = reconnectTimes[i]
        /\ reconnectTimes'[reconnected + 1] = now - restartDetectedAt
        /\ \A i \in 1..(reconnected + 1) : i \in 1..reconnected \/ i = reconnected + 1
    <3>1. now - restartDetectedAt \in Nat
      BY <1>0
    <3> QED BY <1>0, <2>1, <3>1, AppendProperties
  <2>3. \A i \in 1..reconnected' : reconnectTimes'[i] <= now - restartDetectedAt
    <3>1. \A i \in 1..reconnected : reconnectTimes[i] <= now - restartDetectedAt
      BY <1>2 DEF Recovery
    <3> QED BY <1>0, <2>1, <2>2, <3>1
  <2>4. CASE allReconnectedAt' = allReconnectedAt
    <3>1. ASSUME NEW k \in 0..reconnected,
                 NinetyFive(k), \A i \in 1..k : reconnectTimes[i] <= allReconnectedAt - restartDetectedAt
          PROVE  BackWithin(allReconnectedAt - restartDetectedAt)'
      <4>1. k \in 0..reconnected' /\ NinetyFive(k)'
        BY <1>0, <2>1, <3>1 DEF NinetyFive
      <4>2. \A i \in 1..k : reconnectTimes'[i] <= allReconnectedAt' - restartDetectedAt'
        BY <1>0, <2>2, <2>4, <3>1
      <4> QED BY <4>1, <4>2 DEF BackWithin
    <3>2. BackWithin(allReconnectedAt - restartDetectedAt) =>
            BackWithin(allReconnectedAt - restartDetectedAt)'
      BY <3>1 DEF BackWithin
    <3> QED BY <1>2, <2>3, <2>4, <3>2 DEF Recovery
  <2>5. CASE allReconnectedAt' # allReconnectedAt
    <3>1. NinetyFive(reconnected') /\ allReconnectedAt' = now
      BY <2>1, <2>5
    <3>2. BackWithin(allReconnectedAt - restartDetectedAt)'
      <4>1. reconnected' \in 0..reconnected' /\ NinetyFive(reconnected)'
        BY <1>0, <2>1, <3>1 DEF NinetyFive
      <4> QED BY <2>3, <3>1, <4>1 DEF BackWithin
    <3> QED BY <1>0, <1>2, <2>3, <3>1, <3>2 DEF Recovery
  <2> QED BY <2>4, <2>5
<1> QED BY <1>0, <1>1, <1>2

LEMMA RecoveryEnding ==
  ASSUME TypeOK, Clock, Recovery, RecoveryEnds
  PROVE  Recovery'
<1>0. /\ now \in Nat /\ reconnected \in Nat /\ restartDetectedAt \in Nat /\ RecoveryWait \in Nat
      /\ now > 0 /\ restartDetectedAt > 0 /\ restartDetectedAt <= now
      /\ deadline = restartDetectedAt + RecoveryWait
  BY Numbers, Constants DEF RecoveryEnds, Clock
<1>1. /\ pc = "recover" /\ pc' = "teardown" /\ (NinetyFive(reconnected) \/ now >= deadline)
      /\ allReconnectedAt' = IF allReconnectedAt = 0 THEN now ELSE allReconnectedAt
      /\ UNCHANGED <<now, initiallyConnected, restartDetectedAt, reconnected, reconnectTimes>>
  BY DEF RecoveryEnds, times
<1>2. CASE allReconnectedAt # 0
  <2>1. BackWithin(allReconnectedAt - restartDetectedAt) =>
          BackWithin(allReconnectedAt - restartDetectedAt)'
    BY <1>1, <1>2 DEF BackWithin, NinetyFive
  <2> QED BY <1>1, <1>2, <2>1 DEF Recovery
<1>3. CASE allReconnectedAt = 0
  <2>1. allReconnectedAt' = now
    BY <1>1, <1>3
  <2>2. now >= deadline => allReconnectedAt' - restartDetectedAt' >= RecoveryWait
    BY <1>0, <1>1, <2>1
  <2>3. NinetyFive(reconnected) => BackWithin(allReconnectedAt - restartDetectedAt)'
    <3>1. \A i \in 1..reconnected : reconnectTimes[i] <= now - restartDetectedAt
      BY <1>0 DEF Recovery
    <3>2. reconnected \in 0..reconnected
      BY <1>0
    <3> QED BY <1>1, <2>1, <3>1, <3>2 DEF BackWithin, NinetyFive
  <2> QED BY <1>0, <1>1, <2>1, <2>2, <2>3 DEF Recovery
<1> QED BY <1>2, <1>3

LEMMA RecoveryStep ==
  ASSUME Inv, Recovery, [Next]_vars
  PROVE  Recovery'
<1> USE DEF history, times
<1>0. TypeOK /\ Clock
  BY DEF Inv
<1>1. ASSUME NEW c \in Client, RampUp(c) PROVE Recovery'
  BY <1>1, RecoveryFrame DEF RampUp
<1>2. ASSUME NEW c \in Client, Close(c) PROVE Recovery'
  <2>1. UNCHANGED restartDetectedAt
    BY <1>0, <1>2, Listener DEF Close, Listening
  <2> QED BY <1>2, <2>1, RecoveryFrame DEF Close
<1>3. CASE RampEnds
  BY <1>3, RecoveryFrame DEF RampEnds
<1>4. CASE ArmEnds
  BY <1>4, RecoveryFrame DEF ArmEnds
<1>5. CASE Returns
  BY <1>5, RecoveryFrame DEF Returns
<1>6. CASE RecoveryEnds
  BY <1>0, <1>6, RecoveryEnding
<1>7. ASSUME NEW c \in Client, Connects(c) PROVE Recovery'
  <2>1. UNCHANGED <<now, pc, restartDetectedAt>>
    BY <1>7 DEF Connects
  <2>2. CASE pc = "ramp"
    <3>1. UNCHANGED <<reconnected, reconnectTimes, allReconnectedAt>>
      BY <1>7, <2>2 DEF Connects
    <3>2. allReconnectedAt = 0
      BY <2>2 DEF Recovery
    <3> QED BY <2>1, <2>2, <3>1, <3>2 DEF Recovery
  <2>3. CASE pc # "ramp"
    <3>1. Reconnects /\ UNCHANGED initiallyConnected
      BY <1>7, <2>3 DEF Connects
    <3> QED BY <1>0, <2>1, <2>3, <3>1, RecoveryReturning
  <2> QED BY <2>2, <2>3
<1>8. ASSUME NEW c \in Client, Drop(c) \/ AttemptFails(c) PROVE Recovery'
  <2>1. /\ Disconnected(c)
        /\ UNCHANGED <<pc, now, initiallyConnected, reconnected, reconnectTimes, allReconnectedAt>>
    BY <1>8 DEF Drop, AttemptFails
  <2> QED BY <1>0, <2>1, RecoveryListener
<1>9. CASE TimePasses
  <2>1. /\ now' = now + 1 /\ now \in Nat /\ restartDetectedAt \in Nat /\ reconnected \in Nat
        /\ \A i \in 1..reconnected : reconnectTimes[i] \in Nat
        /\ UNCHANGED <<pc, initiallyConnected, restartDetectedAt, reconnected, reconnectTimes,
                       allReconnectedAt>>
    BY <1>0, <1>9, Numbers DEF TimePasses, TypeOK
  <2>2. restartDetectedAt > 0 =>
          \A i \in 1..reconnected : reconnectTimes[i] <= now' - restartDetectedAt
    BY <2>1 DEF Recovery
  <2>3. BackWithin(allReconnectedAt - restartDetectedAt) =>
          BackWithin(allReconnectedAt - restartDetectedAt)'
    BY <2>1 DEF BackWithin, NinetyFive
  <2> QED BY <2>1, <2>2, <2>3 DEF Recovery
<1>10. CASE UNCHANGED vars
  BY <1>10, RecoveryFrame DEF vars
<1> QED BY <1>1, <1>2, <1>3, <1>4, <1>5, <1>6, <1>7, <1>8, <1>9, <1>10, NextCases

\* The recovery time of the result is no shorter than what it stands for
\* (RecoveryCoversNinetyFive).
THEOREM RecoveryTimeCovers == Spec => []RecoveryCoversNinetyFive
<1>1. ASSUME Inv, Recovery PROVE RecoveryCoversNinetyFive
  <2> SUFFICES ASSUME pc = "returned", restartDetectedAt > 0,
                      ~ (allReconnectedAt - restartDetectedAt >= RecoveryWait)
               PROVE  EnoughBack(Cardinality({i \in DOMAIN reconnectTimes :
                                   reconnectTimes[i] <= allReconnectedAt - restartDetectedAt}))
    BY DEF RecoveryCoversNinetyFive
  <2> DEFINE ticks == allReconnectedAt - restartDetectedAt
             inTime == {i \in DOMAIN reconnectTimes : reconnectTimes[i] <= ticks}
  <2>1. PICK k \in 0..reconnected : NinetyFive(k) /\ \A i \in 1..k : reconnectTimes[i] <= ticks
    BY <1>1 DEF Recovery, BackWithin
  <2>2. DOMAIN reconnectTimes = 1..reconnected /\ reconnected \in Nat /\ initiallyConnected \in Nat
    BY <1>1 DEF Inv, TypeOK
  <2>3. 1..k \subseteq inTime /\ inTime \subseteq 1..reconnected
    BY <2>1, <2>2
  <2> HIDE DEF inTime
  <2>4. IsFiniteSet(inTime) /\ Cardinality(inTime) \in Nat
    <3>1. IsFiniteSet(1..reconnected)
      BY <2>2, FS_Interval
    <3>2. IsFiniteSet(inTime)
      BY <2>3, <3>1, FS_Subset
    <3> QED BY <3>2, FS_CardinalityType
  <2>5. Cardinality(1..k) = k
    BY <2>2, FS_Interval
  <2>6. k <= Cardinality(inTime)
    BY <2>3, <2>4, <2>5, FS_Subset
  <2>7. EnoughBack(Cardinality(inTime))
    BY <2>1, <2>2, <2>4, <2>6 DEF NinetyFive, EnoughBack
  <2> QED BY <2>7 DEF inTime
<1>2. Inv /\ Recovery /\ [Next]_vars => (Inv /\ Recovery)'
  BY StepInv, RecoveryStep
<1>3. Inv /\ Recovery => RecoveryCoversNinetyFive
  BY <1>1
<1> QED BY <1>2, <1>3, InitInv, InitRecovery, PTL DEF Spec

=============================================================================
