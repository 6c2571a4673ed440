---------------------------- MODULE StreamProofs ----------------------------
(***************************************************************************)
(* Theorems about the two ends of a stream of messages.  For any number of *)
(* messages and any concurrency: the publisher's bound, no lost wakeup,    *)
(* nothing open when it returns, and the order of the serial mode.  For any*)
(* number of messages and of faults: a reconnecting client is at one place *)
(* at a time, quiet once closed, and records every message at most once and*)
(* in order.                                                               *)
(***************************************************************************)
EXTENDS Publisher, ReconnectingWs, FiniteSetTheorems, SequenceTheorems, TLAPS

\* The pool's counter counts the open fetches and the place just granted.
PoolCounts ==
  mode = "pool" =>
    /\ active = Cardinality(open) + (IF pc = "granted" THEN 1 ELSE 0)
    /\ active <= Concurrency
    /\ pc = "waiting" => active = Concurrency

\* Which places of the loop each mode can be at, and which fetches are open.
LoopOK ==
  /\ pc \in {"waiting", "granted"} => mode = "pool"
  /\ mode = "serial" => pc \in {"loop", "await", "done"}
  /\ pc = "await" => mode = "serial" /\ open \subseteq {seq}
  /\ pc \in {"loop", "done"} /\ mode = "serial" => open = {}
  /\ \A n \in open : n <= seq
  /\ pc \in {"loop", "waiting", "granted", "settle", "done"} => \A n \in open : n < seq
  /\ 1 <= seq /\ seq <= TotalMessages + 1
  /\ pc \in {"waiting", "granted", "await", "sleep"} => seq <= TotalMessages
  /\ pc \in {"settle", "done"} => seq = TotalMessages + 1
  /\ pc = "done" => open = {}

PublisherInv == PublisherTypeOK /\ LoopOK /\ PoolCounts

LEMMA ConstantTypes == TotalMessages \in Nat /\ Concurrency \in Nat \ {0}
BY PublisherAssumption DEF PublisherAssumption, Concurrency

LEMMA OpenIsFinite ==
  ASSUME PublisherTypeOK
  PROVE  IsFiniteSet(open) /\ Cardinality(open) \in Nat
<1>1. IsFiniteSet(Seqs)
  BY ConstantTypes, FS_Interval DEF Seqs
<1>2. open \subseteq Seqs
  BY DEF PublisherTypeOK
<1> QED BY <1>1, <1>2, FS_Subset, FS_CardinalityType

LEMMA PublisherInitInv == PublisherInit => PublisherInv
<1> SUFFICES ASSUME PublisherInit PROVE PublisherInv
  OBVIOUS
<1> USE ConstantTypes
<1>1. PublisherTypeOK
  <2>1. <<>> \in Seq(Seqs)
    OBVIOUS
  <2> QED BY <2>1 DEF PublisherInit, PublisherTypeOK
<1>2. LoopOK
  BY DEF PublisherInit, LoopOK
<1>3. PoolCounts
  BY FS_EmptySet DEF PublisherInit, PoolCounts
<1> QED BY <1>1, <1>2, <1>3 DEF PublisherInv

LEMMA AcquireInv == PublisherInv /\ Acquire => PublisherInv'
<1> SUFFICES ASSUME PublisherInv, Acquire PROVE PublisherInv'
  OBVIOUS
<1>1. Cardinality(open) \in Nat
  BY OpenIsFinite DEF PublisherInv
<1> USE ConstantTypes DEF PublisherInv, PublisherTypeOK, Acquire, CanAcquire, netVars
<1>2. PublisherTypeOK'
  OBVIOUS
<1>3. LoopOK'
  BY DEF LoopOK
<1>4. PoolCounts'
  BY <1>1 DEF PoolCounts
<1> QED BY <1>2, <1>3, <1>4

LEMMA DispatchInv == PublisherInv /\ Dispatch => PublisherInv'
<1> SUFFICES ASSUME PublisherInv, Dispatch PROVE PublisherInv'
  OBVIOUS
<1> USE ConstantTypes DEF PublisherInv, PublisherTypeOK, Dispatch, AfterDispatch
<1>1. seq \in Seqs
  BY DEF LoopOK, Seqs
<1>2. PublisherTypeOK'
  BY <1>1
<1>3. LoopOK'
  BY DEF LoopOK
<1>4. PoolCounts'
  <2>1. seq \notin open
    BY <1>1 DEF LoopOK, Seqs
  <2>2. IsFiniteSet(open) /\ Cardinality(open) \in Nat
    BY OpenIsFinite
  <2>3. Cardinality(open') = Cardinality(open) + 1
    BY <2>1, <2>2, FS_AddElement
  <2> QED BY <2>2, <2>3 DEF PoolCounts
<1> QED BY <1>2, <1>3, <1>4

LEMMA SettlesInv ==
  ASSUME PublisherInv, NEW n \in Seqs, Settles(n)
  PROVE  PublisherInv'
<1> USE ConstantTypes DEF PublisherInv, PublisherTypeOK, Settles, Release
<1>1. IsFiniteSet(open) /\ Cardinality(open) \in Nat /\ Cardinality(open) # 0
  BY OpenIsFinite, FS_EmptySet
<1>2. Cardinality(open') = Cardinality(open) - 1 /\ Cardinality(open) - 1 \in Nat
  <2>1. Cardinality(open') = Cardinality(open) - 1
    BY <1>1, FS_RemoveElement
  <2> QED BY <1>1, <2>1
<1>3. active' \in Nat
  BY <1>1 DEF PoolCounts
<1>4. PublisherTypeOK'
  BY <1>3
<1>5. LoopOK'
  BY DEF LoopOK
<1>6. PoolCounts'
  BY <1>1, <1>2 DEF PoolCounts
<1> QED BY <1>4, <1>5, <1>6

LEMMA PublisherStepInv == PublisherInv /\ [PublisherNext]_publisherVars => PublisherInv'
<1> SUFFICES ASSUME PublisherInv, [PublisherNext]_publisherVars PROVE PublisherInv'
  OBVIOUS
<1> USE ConstantTypes DEF PublisherInv, netVars
<1>1. CASE NextSeq
  <2>1. PublisherTypeOK'
    BY <1>1 DEF NextSeq, PublisherTypeOK
  <2>2. LoopOK'
    BY <1>1 DEF NextSeq, LoopOK, PublisherTypeOK, Seqs
  <2>3. PoolCounts'
    BY <1>1 DEF NextSeq, PoolCounts
  <2> QED BY <2>1, <2>2, <2>3
<1>2. CASE LoopEnds
  <2>1. PublisherTypeOK'
    BY <1>2 DEF LoopEnds, PublisherTypeOK
  <2>2. LoopOK'
    BY <1>2 DEF LoopEnds, LoopOK, PublisherTypeOK
  <2>3. PoolCounts'
    BY <1>2 DEF LoopEnds, PoolCounts
  <2> QED BY <2>1, <2>2, <2>3
<1>3. CASE AllSettled
  BY <1>3 DEF AllSettled, Settled, PublisherTypeOK, LoopOK, PoolCounts
<1>4. ASSUME NEW n \in Seqs, Arrives(n) \/ Dies(n)
      PROVE  PublisherInv'
  <2>1. PublisherTypeOK'
    BY <1>4 DEF Arrives, Dies, PublisherTypeOK
  <2>2. LoopOK'
    BY <1>4 DEF Arrives, Dies, LoopOK
  <2>3. PoolCounts'
    BY <1>4 DEF Arrives, Dies, PoolCounts
  <2> QED BY <2>1, <2>2, <2>3
<1>5. CASE UNCHANGED publisherVars
  BY <1>5 DEF publisherVars, PublisherTypeOK, LoopOK, PoolCounts
<1> QED
  BY <1>1, <1>2, <1>3, <1>4, <1>5, AcquireInv, DispatchInv, SettlesInv
     DEF PublisherNext, Loop, Finished

\* The loop's place, its counter and the messages at each end keep their types.
THEOREM PublisherTypeCorrect == PublisherSpec => []PublisherTypeOK
<1>1. PublisherInv => PublisherTypeOK
  BY DEF PublisherInv
<1> QED BY <1>1, PublisherInitInv, PublisherStepInv, PTL DEF PublisherSpec

\* The pool offers at most Concurrency requests at a time, the serial publisher
\* one (BoundedConcurrency).
THEOREM Bounded == PublisherSpec => []BoundedConcurrency
<1>1. PublisherInv => BoundedConcurrency
  <2> SUFFICES ASSUME PublisherInv PROVE BoundedConcurrency
    OBVIOUS
  <2>1. IsFiniteSet(open) /\ Cardinality(open) \in Nat
    BY OpenIsFinite DEF PublisherInv
  <2>2. CASE mode = "pool"
    BY <2>1, <2>2, ConstantTypes DEF PublisherInv, PoolCounts, BoundedConcurrency, PublisherTypeOK
  <2>3. CASE mode = "serial"
    <3>1. open \subseteq {seq}
      BY <2>3 DEF PublisherInv, LoopOK
    <3>2. IsFiniteSet({seq}) /\ Cardinality({seq}) = 1
      BY FS_Singleton
    <3>3. Cardinality(open) <= 1
      BY <3>1, <3>2, FS_Subset
    <3> QED BY <2>3, <3>3 DEF BoundedConcurrency
  <2>4. CASE mode \notin {"pool", "serial"}
    BY <2>4 DEF BoundedConcurrency
  <2> QED BY <2>2, <2>3, <2>4
<1> QED BY <1>1, PublisherInitInv, PublisherStepInv, PTL DEF PublisherSpec

\* While the loop waits, every place of the pool is an open fetch's, whose
\* settling hands the place over (NoIdleWaiter).
THEOREM WaitsOnlyWhenFull == PublisherSpec => []NoIdleWaiter
<1>1. PublisherInv => NoIdleWaiter
  BY OpenIsFinite DEF PublisherInv, PoolCounts, LoopOK, NoIdleWaiter
<1> QED BY <1>1, PublisherInitInv, PublisherStepInv, PTL DEF PublisherSpec

\* When the publisher returns, all is dispatched and settled (ReturnsSettled).
THEOREM ReturnsWhenSettled == PublisherSpec => []ReturnsSettled
<1>1. PublisherInv => ReturnsSettled
  BY DEF PublisherInv, LoopOK, ReturnsSettled
<1> QED BY <1>1, PublisherInitInv, PublisherStepInv, PTL DEF PublisherSpec

----------------------------------------------------------------------------
\* Where the serial publisher's requests are: a request on its way has its
\* fetch open or was given up on, and the server has seen none after it.
OrderOK ==
  /\ \A n \in sent : n \in open \/ n \in abandoned
  /\ \A i \in 1..Len(broadcast) : broadcast[i] <= seq
  /\ \A i \in 1..Len(broadcast) : broadcast[i] \notin sent
  /\ \A n \in sent : n <= seq
  /\ pc \in {"loop", "waiting", "granted"} =>
       /\ \A i \in 1..Len(broadcast) : broadcast[i] < seq
       /\ \A n \in sent : n < seq
  /\ SerialInOrder

LEMMA InitOrder == PublisherInit => OrderOK
BY DEF PublisherInit, OrderOK, SerialInOrder

LEMMA ArrivesOrder ==
  ASSUME PublisherInv, OrderOK, NEW n \in Seqs, Arrives(n)
  PROVE  OrderOK'
<1>1. /\ broadcast \in Seq(Seqs) /\ Len(broadcast) \in Nat /\ n \in sent
      /\ Len(broadcast') = Len(broadcast) + 1 /\ broadcast'[Len(broadcast) + 1] = n
      /\ \A i \in 1..Len(broadcast) : broadcast'[i] = broadcast[i] /\ broadcast[i] \in Nat
      /\ n \in Nat /\ seq \in Nat
  BY ConstantTypes DEF PublisherInv, PublisherTypeOK, Arrives, Seqs
<1>2. sent' = sent \ {n} /\ UNCHANGED <<mode, pc, seq, active, open, abandoned>>
  BY DEF Arrives
<1>3. \A i \in 1..Len(broadcast') : i \in 1..Len(broadcast) \/ i = Len(broadcast) + 1
  BY <1>1
<1>4. SerialInOrder'
  <2> SUFFICES ASSUME mode = "serial", abandoned = {},
                      NEW i \in 1..Len(broadcast'), NEW k \in 1..Len(broadcast'), i < k
               PROVE  broadcast'[i] < broadcast'[k]
    BY <1>2 DEF SerialInOrder
  <2>1. CASE k = Len(broadcast) + 1
    <3>1. n = seq
      BY <1>1 DEF OrderOK, PublisherInv, LoopOK
    <3>2. i \in 1..Len(broadcast)
      BY <1>1, <2>1
    <3>3. broadcast[i] <= seq /\ broadcast[i] # n
      BY <1>1, <3>2 DEF OrderOK
    <3> QED BY <1>1, <2>1, <3>1, <3>2, <3>3
  <2>2. CASE k \in 1..Len(broadcast)
    <3>1. i \in 1..Len(broadcast)
      BY <1>1, <2>2
    <3> QED BY <1>1, <2>2, <3>1 DEF OrderOK, SerialInOrder
  <2> QED BY <1>3, <2>1, <2>2
<1> QED BY <1>1, <1>2, <1>3, <1>4 DEF OrderOK

LEMMA StepOrder == PublisherInv /\ OrderOK /\ [PublisherNext]_publisherVars => OrderOK'
<1> SUFFICES ASSUME PublisherInv, OrderOK, [PublisherNext]_publisherVars PROVE OrderOK'
  OBVIOUS
<1>0. /\ broadcast \in Seq(Seqs) /\ Len(broadcast) \in Nat /\ seq \in Nat
      /\ \A i \in 1..Len(broadcast) : broadcast[i] \in Nat
      /\ \A n \in sent : n \in Nat
  BY ConstantTypes DEF PublisherInv, PublisherTypeOK, Seqs
<1>1. CASE Dispatch
  BY <1>0, <1>1 DEF Dispatch, AfterDispatch, OrderOK, SerialInOrder, PublisherInv, LoopOK
<1>2. CASE NextSeq
  BY <1>0, <1>2 DEF NextSeq, netVars, OrderOK, SerialInOrder
<1>3. CASE Acquire \/ LoopEnds \/ AllSettled
  BY <1>0, <1>3 DEF Acquire, LoopEnds, AllSettled, netVars, OrderOK, SerialInOrder
<1>4. ASSUME NEW n \in Seqs, Settles(n)
      PROVE  OrderOK'
  <2>1. /\ UNCHANGED <<mode, seq, sent, broadcast>>
        /\ abandoned' = (IF n \in sent THEN abandoned \cup {n} ELSE abandoned)
        /\ open' = open \ {n}
        /\ pc' = pc \/ (pc = "waiting" /\ pc' = "granted")
    BY <1>4 DEF Settles, Release
  <2> QED BY <1>0, <2>1 DEF OrderOK, SerialInOrder
<1>5. ASSUME NEW n \in Seqs, Dies(n)
      PROVE  OrderOK'
  BY <1>5 DEF Dies, OrderOK, SerialInOrder
<1>6. CASE UNCHANGED publisherVars
  BY <1>6 DEF publisherVars, OrderOK, SerialInOrder
<1> QED BY <1>1, <1>2, <1>3, <1>4, <1>5, <1>6, ArrivesOrder DEF PublisherNext, Loop, Finished

\* In serial mode the server broadcasts in the order of seq as long as no fetch
\* gave up on a request that was on its way (SerialInOrder).
THEOREM InOrder == PublisherSpec => []SerialInOrder
<1>1. OrderOK => SerialInOrder
  BY DEF OrderOK
<1>2. PublisherInv /\ OrderOK /\ [PublisherNext]_publisherVars => (PublisherInv /\ OrderOK)'
  BY PublisherStepInv, StepOrder
<1> QED BY <1>1, <1>2, PublisherInitInv, InitOrder, PTL DEF PublisherSpec

----------------------------------------------------------------------------
----------------------------------------------------------------------------
(* The client. *)

\* Only the socket of this.ws can be anything but closed.
LastOnly == \A i \in Conns : conns[i] # "closed" => i = Len(conns)

\* What is on its way on the connection is new and in order.
WireInOrder ==
  \A i \in Conns :
    /\ conns[i] # "open" => wire[i] = <<>>
    /\ \A k, m \in 1..Len(wire[i]) : k < m => wire[i][k] < wire[i][m]
    /\ \A k \in 1..Len(wire[i]) : wire[i][k] <= lastSeq
    /\ \A k \in 1..Len(wire[i]), j \in 1..Len(received) : received[j] < wire[i][k]

ReceivedWasSent == \A j \in 1..Len(received) : received[j] <= lastSeq

Inv ==
  /\ TypeOK /\ LastOnly /\ OneConnection /\ QuietAfterClose
  /\ WireInOrder /\ ReceivedWasSent /\ RecordedInOrder

----------------------------------------------------------------------------
LEMMA NextCases ==
  ASSUME [Next]_vars
  PROVE  \/ \E i \in Conns : \/ Opens(i) \/ CloseEvent(i) \/ Message(i)
                             \/ Fails(i) \/ UnexpectedResponse(i) \/ SubscribeArrives(i)
         \/ \E throws \in BOOLEAN : TimerFires(throws)
         \/ Terminate \/ Close \/ Broadcast \/ UNCHANGED vars
BY DEF Next, Client

LEMMA Constants == Total \in Nat /\ MaxFaults \in Nat
BY ReconnectingWsAssumption DEF ReconnectingWsAssumption

\* Messages are numbers.
LEMMA Numbers ==
  ASSUME NEW s \in Seq(1..Total)
  PROVE  Len(s) \in Nat /\ \A k \in 1..Len(s) : s[k] \in 1..Total /\ s[k] \in Nat
<1>1. \A k \in 1..Len(s) : s[k] \in 1..Total
  BY ElementOfSeq
<1> QED BY <1>1, Constants

\* Where one more thing can go wrong.
LEMMA OneMoreFault ==
  ASSUME TypeOK, faults < MaxFaults
  PROVE  faults + 1 \in 0..MaxFaults /\ failedConnects + 1 \in Nat
BY Constants DEF TypeOK

\* One element of the list of sockets changed.
LEMMA ConnsChanged ==
  ASSUME TypeOK, NEW i \in Conns, NEW s \in ConnState, conns' = [conns EXCEPT ![i] = s]
  PROVE  /\ conns' \in Seq(ConnState) /\ Len(conns') = Len(conns) /\ Conns' = Conns
         /\ \A k \in Conns : conns'[k] = IF k = i THEN s ELSE conns[k]
<1>1. conns \in Seq(ConnState) /\ i \in 1..Len(conns)
  BY DEF TypeOK, Conns
<1> QED BY <1>1, ExceptSeq DEF Conns

LEMMA WireChanged ==
  ASSUME TypeOK, NEW i \in Conns, NEW s \in Seq(1..Total), wire' = [wire EXCEPT ![i] = s]
  PROVE  /\ wire' \in Seq(Seq(1..Total)) /\ Len(wire') = Len(wire)
         /\ \A k \in Conns : wire'[k] = IF k = i THEN s ELSE wire[k]
<1>1. wire \in Seq(Seq(1..Total)) /\ i \in 1..Len(wire)
  BY DEF TypeOK, Conns
<1> QED BY <1>1, ExceptSeq DEF Conns, TypeOK

LEMMA InitInv == Init => Inv
<1> SUFFICES ASSUME Init PROVE Inv
  OBVIOUS
<1>0. Total \in Nat /\ MaxFaults \in Nat
  BY Constants
<1>a. <<>> \in Seq(1..Total) /\ <<>> \in Seq(Seq(1..Total)) /\ <<>> \in Seq(ConnState)
  OBVIOUS
<1>b. /\ closed \in BOOLEAN /\ subscribing \subseteq Conns /\ subscribed \subseteq Conns
      /\ lastSeq \in 0..Total /\ jitterCount \in Nat /\ everConnected \in BOOLEAN
      /\ faults \in 0..MaxFaults
  <2>1. 0 \in 0..Total /\ 0 \in 0..MaxFaults
    BY <1>0
  <2> QED BY <2>1 DEF Init
<1>c. received \in Seq(1..Total)
  BY <1>a DEF Init
<1>1. CASE conns = <<>>
  <2>1. wire = <<>> /\ timers = 1 /\ failedConnects = 1
    BY <1>1 DEF Init
  <2>2. Conns = {}
    BY <1>1 DEF Conns
  <2>3. TypeOK
    <3>1. Len(wire) = Len(conns)
      BY <1>1, <2>1
    <3> QED BY <1>a, <1>b, <1>c, <1>1, <2>1, <3>1 DEF TypeOK
  <2> QED BY <1>1, <2>1, <2>2, <2>3 DEF Init, Inv, LastOnly, OneConnection, QuietAfterClose,
             WireInOrder, ReceivedWasSent, RecordedInOrder
<1>2. CASE conns # <<>>
  <2>1. conns = <<"connecting">> /\ wire = << <<>> >> /\ timers = 0 /\ failedConnects = 0
    BY <1>2 DEF Init
  <2>2. Conns = {1} /\ Len(conns) = 1 /\ conns[1] = "connecting"
        /\ Len(wire) = 1 /\ wire[1] = <<>>
    BY <2>1 DEF Conns
  <2>3. wire \in Seq(Seq(1..Total)) /\ conns \in Seq(ConnState)
    BY <2>1 DEF ConnState
  <2>4. TypeOK
    BY <1>b, <1>c, <2>1, <2>2, <2>3 DEF TypeOK
  <2> QED BY <2>1, <2>2, <2>4 DEF Init, Inv, LastOnly, OneConnection, QuietAfterClose,
             WireInOrder, ReceivedWasSent, RecordedInOrder
<1> QED BY <1>1, <1>2

\* Steps that leave the messages alone, or drop those of sockets that end.
LEMMA SameMessages ==
  ASSUME Inv, Conns' = Conns, UNCHANGED <<received, lastSeq>>,
         \A k \in Conns : wire'[k] = wire[k] \/ wire'[k] = <<>>,
         \A k \in Conns : conns'[k] # "open" => conns[k] # "open" \/ wire'[k] = <<>>
  PROVE  WireInOrder' /\ ReceivedWasSent' /\ RecordedInOrder'
BY DEF Inv, WireInOrder, ReceivedWasSent, RecordedInOrder

LEMMA OpensInv == ASSUME Inv, NEW i \in Conns, Opens(i) PROVE Inv'
<1>1. "open" \in ConnState /\ conns' = [conns EXCEPT ![i] = "open"] /\ conns[i] = "connecting"
  BY DEF Opens, ConnState
<1>2. /\ conns' \in Seq(ConnState) /\ Len(conns') = Len(conns) /\ Conns' = Conns
      /\ \A k \in Conns : conns'[k] = IF k = i THEN "open" ELSE conns[k]
  BY <1>1, ConnsChanged DEF Inv
<1>3. UNCHANGED <<closed, timers, subscribed, wire, lastSeq, received, failedConnects, jitterCount,
                  faults>>
  BY DEF Opens
<1>4. TypeOK'
  BY <1>2, <1>3 DEF Inv, TypeOK, Opens, SubscribeFrames
<1>5. LastOnly' /\ OneConnection' /\ QuietAfterClose'
  BY <1>1, <1>2, <1>3 DEF Inv, LastOnly, OneConnection, QuietAfterClose, Live
<1>6. WireInOrder' /\ ReceivedWasSent' /\ RecordedInOrder'
  BY <1>2, <1>3, SameMessages
<1> QED BY <1>4, <1>5, <1>6 DEF Inv

LEMMA FailsInv == ASSUME Inv, NEW i \in Conns, Fails(i) PROVE Inv'
<1> DEFINE s == IF conns[i] = "open" THEN "dead" ELSE "refused"
<1>1. s \in ConnState /\ conns' = [conns EXCEPT ![i] = s] /\ conns[i] \in {"connecting", "open"}
      /\ s # "open" /\ s # "closed" /\ s \notin Live
  BY DEF Fails, ConnState, Live
<1> HIDE DEF s
<1>2. /\ conns' \in Seq(ConnState) /\ Len(conns') = Len(conns) /\ Conns' = Conns
      /\ \A k \in Conns : conns'[k] = IF k = i THEN s ELSE conns[k]
  BY <1>1, ConnsChanged DEF Inv
<1>3. /\ wire' \in Seq(Seq(1..Total)) /\ Len(wire') = Len(wire)
      /\ \A k \in Conns : wire'[k] = IF k = i THEN <<>> ELSE wire[k]
  <2>1. <<>> \in Seq(1..Total) /\ wire' = [wire EXCEPT ![i] = <<>>]
    BY DEF Fails
  <2> QED BY <2>1, WireChanged DEF Inv
<1>4. UNCHANGED <<closed, timers, subscribing, subscribed, lastSeq, received, failedConnects,
                  jitterCount, everConnected>> /\ faults' \in 0..MaxFaults
  BY OneMoreFault DEF Fails, Inv, statVars
<1>5. TypeOK'
  BY <1>2, <1>3, <1>4 DEF Inv, TypeOK
<1>6. LastOnly' /\ OneConnection' /\ QuietAfterClose'
  BY <1>1, <1>2, <1>4 DEF Inv, LastOnly, OneConnection, QuietAfterClose, Live
<1>7. WireInOrder' /\ ReceivedWasSent' /\ RecordedInOrder'
  BY <1>1, <1>2, <1>3, <1>4, SameMessages
<1> QED BY <1>5, <1>6, <1>7 DEF Inv

LEMMA UnexpectedInv == ASSUME Inv, NEW i \in Conns, UnexpectedResponse(i) PROVE Inv'
<1>1. "answered" \in ConnState /\ conns' = [conns EXCEPT ![i] = "answered"]
      /\ conns[i] = "connecting"
  BY DEF UnexpectedResponse, ConnState
<1>2. /\ conns' \in Seq(ConnState) /\ Len(conns') = Len(conns) /\ Conns' = Conns
      /\ \A k \in Conns : conns'[k] = IF k = i THEN "answered" ELSE conns[k]
  BY <1>1, ConnsChanged DEF Inv
<1>3. UNCHANGED <<closed, timers, subscribing, subscribed, wire, lastSeq, received,
                  jitterCount, everConnected>>
      /\ faults' \in 0..MaxFaults /\ failedConnects' \in Nat
  BY OneMoreFault DEF UnexpectedResponse, Inv, serverVars
<1>4. TypeOK'
  BY <1>2, <1>3 DEF Inv, TypeOK
<1>5. LastOnly' /\ OneConnection' /\ QuietAfterClose'
  BY <1>1, <1>2, <1>3 DEF Inv, LastOnly, OneConnection, QuietAfterClose, Live
<1>6. WireInOrder' /\ ReceivedWasSent' /\ RecordedInOrder'
  BY <1>1, <1>2, <1>3, SameMessages
<1> QED BY <1>4, <1>5, <1>6 DEF Inv

LEMMA CloseEventInv == ASSUME Inv, NEW i \in Conns, CloseEvent(i) PROVE Inv'
<1>1. "closed" \in ConnState /\ conns' = [conns EXCEPT ![i] = "closed"]
      /\ conns[i] \in {"refused", "dead"} /\ "closed" \notin Live
  BY DEF CloseEvent, ConnState, Live
<1>2. /\ conns' \in Seq(ConnState) /\ Len(conns') = Len(conns) /\ Conns' = Conns
      /\ \A k \in Conns : conns'[k] = IF k = i THEN "closed" ELSE conns[k]
  BY <1>1, ConnsChanged DEF Inv
<1>3. UNCHANGED <<closed, subscribing, subscribed, wire, lastSeq, received, failedConnects,
                  jitterCount, everConnected, faults>>
  BY DEF CloseEvent, serverVars, statVars
<1>4. timers = 0 /\ i = Len(conns) /\ timers' = IF closed THEN 0 ELSE 1
  BY <1>1 DEF Inv, TypeOK, LastOnly, OneConnection, CloseEvent, ScheduleReconnect
<1>5. TypeOK'
  BY <1>2, <1>3, <1>4 DEF Inv, TypeOK
<1>6. LastOnly' /\ OneConnection' /\ QuietAfterClose'
  BY <1>1, <1>2, <1>3, <1>4 DEF Inv, LastOnly, OneConnection, QuietAfterClose
<1>7. WireInOrder' /\ ReceivedWasSent' /\ RecordedInOrder'
  BY <1>1, <1>2, <1>3, SameMessages
<1> QED BY <1>5, <1>6, <1>7 DEF Inv

LEMMA SubscribeInv == ASSUME Inv, NEW i \in Conns, SubscribeArrives(i) PROVE Inv'
<1>1. UNCHANGED <<conns, closed, timers, wire, lastSeq, received, failedConnects, jitterCount,
                  everConnected, faults>>
      /\ subscribing' \subseteq Conns /\ subscribed' \subseteq Conns
  BY DEF SubscribeArrives, statVars, Inv, TypeOK
<1> QED BY <1>1 DEF Inv, TypeOK, LastOnly, OneConnection, QuietAfterClose, WireInOrder,
           ReceivedWasSent, RecordedInOrder, Conns

LEMMA TimerInv == ASSUME Inv, NEW throws \in BOOLEAN, TimerFires(throws) PROVE Inv'
<1>1. CASE throws
  <2>1. UNCHANGED <<conns, wire, timers, closed, subscribing, subscribed, lastSeq, received,
                    jitterCount, everConnected>>
        /\ faults' \in 0..MaxFaults /\ failedConnects' \in Nat
    BY <1>1, OneMoreFault DEF TimerFires, Inv
  <2> QED BY <2>1 DEF Inv, TypeOK, LastOnly, OneConnection, QuietAfterClose, WireInOrder,
             ReceivedWasSent, RecordedInOrder, Conns
<1>2. CASE ~throws
  <2>1. /\ conns' = Append(conns, "connecting") /\ wire' = Append(wire, <<>>)
        /\ timers = 1 /\ timers' = 0 /\ ~closed
        /\ UNCHANGED <<closed, subscribing, subscribed, lastSeq, received, jitterCount,
                       everConnected, failedConnects, faults>>
    BY <1>2 DEF TimerFires, Fired, Inv, OneConnection
  <2>2. "connecting" \in ConnState /\ <<>> \in Seq(1..Total)
    BY DEF ConnState
  <2>3. /\ conns' \in Seq(ConnState) /\ Len(conns') = Len(conns) + 1 /\ Len(conns) \in Nat
        /\ \A k \in Conns : conns'[k] = conns[k]
        /\ conns'[Len(conns) + 1] = "connecting"
    BY <2>1, <2>2 DEF Inv, TypeOK, Conns
  <2>4. /\ wire' \in Seq(Seq(1..Total)) /\ Len(wire') = Len(conns')
        /\ \A k \in Conns : wire'[k] = wire[k]
        /\ wire'[Len(conns) + 1] = <<>>
    BY <2>1, <2>2, <2>3 DEF Inv, TypeOK, Conns
  <2>5. Conns' = Conns \cup {Len(conns) + 1} /\ Len(conns) + 1 \notin Conns
    BY <2>3 DEF Conns
  <2>6. TypeOK'
    BY <2>1, <2>3, <2>4, <2>5 DEF Inv, TypeOK
  <2>7. \A k \in Conns : conns[k] = "closed"
    BY <2>1 DEF Inv, OneConnection
  <2>8. /\ \A k \in Conns' : conns'[k] # "closed" => k = Len(conns) + 1
        /\ Len(conns') = Len(conns) + 1 /\ timers' = 0 /\ ~closed'
    BY <2>1, <2>3, <2>5, <2>7
  <2>11. LastOnly' /\ OneConnection' /\ QuietAfterClose'
    BY <2>8 DEF LastOnly, OneConnection, QuietAfterClose
  <2>9. WireInOrder'
    <3> SUFFICES ASSUME NEW k \in Conns'
                 PROVE  wire'[k] = <<>>
      BY DEF WireInOrder
    <3>1. CASE k \in Conns
      BY <2>4, <2>7, <3>1 DEF Inv, WireInOrder
    <3>2. CASE k = Len(conns) + 1
      BY <2>4, <3>2
    <3> QED BY <2>5, <3>1, <3>2
  <2>10. ReceivedWasSent' /\ RecordedInOrder'
    BY <2>1 DEF Inv, ReceivedWasSent, RecordedInOrder
  <2> QED BY <2>6, <2>11, <2>9, <2>10 DEF Inv
<1> QED BY <1>1, <1>2

\* terminate() and close() of this.ws.
LEMMA SeveredProperties ==
  ASSUME Inv, conns' = Severed, wire' = Unsent
  PROVE  /\ conns' \in Seq(ConnState) /\ Len(conns') = Len(conns) /\ Conns' = Conns
         /\ \A k \in Conns : conns'[k] \notin Live
         /\ \A k \in Conns : conns[k] = "closed" <=> conns'[k] = "closed"
         /\ wire' \in Seq(Seq(1..Total)) /\ Len(wire') = Len(conns')
         /\ \A k \in Conns : wire'[k] = <<>>
<1>1. /\ Len(conns) \in Nat /\ Conns = 1..Len(conns) /\ \A k \in Conns : conns[k] \in ConnState
      /\ wire \in Seq(Seq(1..Total)) /\ Len(wire) = Len(conns)
      /\ \A k \in Conns : wire[k] \in Seq(1..Total)
  BY DEF Conns, Inv, TypeOK
<1>2. <<>> \in Seq(1..Total) /\ "dead" \in ConnState /\ "dead" \notin Live
  BY DEF ConnState, Live
<1>3. conns' \in Seq(ConnState) /\ Len(conns') = Len(conns)
      /\ \A k \in Conns : conns'[k] = IF k = Len(conns) /\ conns[k] \in Live THEN "dead"
                                      ELSE conns[k]
  <2> DEFINE f(k) == IF k = Len(conns) /\ conns[k] \in Live THEN "dead" ELSE conns[k]
  <2>1. \A k \in 1..Len(conns) : f(k) \in ConnState
    BY <1>1, <1>2
  <2>2. conns' = [k \in 1..Len(conns) |-> f(k)]
    BY <1>1 DEF Severed
  <2> HIDE DEF f
  <2>3. conns' \in Seq(ConnState) /\ Len(conns') = Len(conns)
        /\ \A k \in Conns : conns'[k] = f(k)
    BY <1>1, <2>1, <2>2
  <2> QED BY <2>3 DEF f
<1>4. wire' \in Seq(Seq(1..Total)) /\ Len(wire') = Len(conns)
      /\ \A k \in Conns : wire'[k] = IF k = Len(conns) THEN <<>> ELSE wire[k]
  <2> DEFINE f(k) == IF k = Len(conns) THEN <<>> ELSE wire[k]
  <2>1. \A k \in 1..Len(conns) : f(k) \in Seq(1..Total)
    BY <1>1, <1>2
  <2>2. wire' = [k \in 1..Len(conns) |-> f(k)]
    BY <1>1 DEF Unsent
  <2> HIDE DEF f
  <2>3. wire' \in Seq(Seq(1..Total)) /\ Len(wire') = Len(conns)
        /\ \A k \in Conns : wire'[k] = f(k)
    BY <1>1, <2>1, <2>2
  <2> QED BY <2>3 DEF f
<1>5. Conns' = Conns
  BY <1>3 DEF Conns
<1>6. \A k \in Conns : conns'[k] \notin Live
  BY <1>2, <1>3 DEF Inv, LastOnly, Live
<1>7. \A k \in Conns : conns[k] = "closed" <=> conns'[k] = "closed"
  BY <1>3 DEF Live
<1>8. \A k \in Conns : wire'[k] = <<>>
  BY <1>4 DEF Inv, LastOnly, WireInOrder
<1> QED BY <1>3, <1>4, <1>5, <1>6, <1>7, <1>8

LEMMA TerminateInv == ASSUME Inv, Terminate PROVE Inv'
<1>1. /\ conns' = Severed /\ wire' = Unsent /\ ~closed
      /\ UNCHANGED <<closed, timers, subscribing, subscribed, lastSeq, received, failedConnects,
                     everConnected>>
      /\ faults' \in 0..MaxFaults /\ jitterCount' \in Nat
  <2>1. jitterCount' \in Nat
    BY DEF Terminate, Inv, TypeOK
  <2> QED BY <2>1, OneMoreFault DEF Terminate, Inv
<1>2. /\ conns' \in Seq(ConnState) /\ Len(conns') = Len(conns) /\ Conns' = Conns
      /\ \A k \in Conns : conns'[k] \notin Live
      /\ \A k \in Conns : conns[k] = "closed" <=> conns'[k] = "closed"
      /\ wire' \in Seq(Seq(1..Total)) /\ Len(wire') = Len(conns')
      /\ \A k \in Conns : wire'[k] = <<>>
  BY <1>1, SeveredProperties
<1>3. TypeOK'
  BY <1>1, <1>2 DEF Inv, TypeOK
<1>4. LastOnly' /\ OneConnection' /\ QuietAfterClose'
  BY <1>1, <1>2 DEF Inv, LastOnly, OneConnection, QuietAfterClose
<1>5. WireInOrder' /\ ReceivedWasSent' /\ RecordedInOrder'
  BY <1>1, <1>2, SameMessages
<1> QED BY <1>3, <1>4, <1>5 DEF Inv

LEMMA CloseInv == ASSUME Inv, Close PROVE Inv'
<1>1. /\ conns' = Severed /\ wire' = Unsent /\ timers' = 0 /\ closed' = TRUE
      /\ UNCHANGED <<subscribing, subscribed, lastSeq, received, failedConnects, jitterCount,
                     everConnected, faults>>
  BY DEF Close, TimersAfterClose, statVars
<1>2. /\ conns' \in Seq(ConnState) /\ Len(conns') = Len(conns) /\ Conns' = Conns
      /\ \A k \in Conns : conns'[k] \notin Live
      /\ \A k \in Conns : conns[k] = "closed" <=> conns'[k] = "closed"
      /\ wire' \in Seq(Seq(1..Total)) /\ Len(wire') = Len(conns')
      /\ \A k \in Conns : wire'[k] = <<>>
  BY <1>1, SeveredProperties
<1>3. TypeOK'
  BY <1>1, <1>2 DEF Inv, TypeOK
<1>4. LastOnly' /\ OneConnection' /\ QuietAfterClose'
  BY <1>1, <1>2 DEF Inv, LastOnly, OneConnection, QuietAfterClose
<1>5. WireInOrder' /\ ReceivedWasSent' /\ RecordedInOrder'
  BY <1>1, <1>2, SameMessages
<1> QED BY <1>3, <1>4, <1>5 DEF Inv

LEMMA MessageInv == ASSUME Inv, NEW i \in Conns, Message(i) PROVE Inv'
<1> DEFINE m == Head(wire[i])
           w == wire[i]
<1>1. /\ wire[i] \in Seq(1..Total) /\ w # <<>> /\ m \in 1..Total /\ m = w[1] /\ 1 \in 1..Len(w)
      /\ Tail(w) \in Seq(1..Total) /\ Len(Tail(w)) = Len(w) - 1 /\ Len(w) \in Nat
      /\ \A k \in 1..Len(Tail(w)) : Tail(w)[k] = w[k + 1] /\ k + 1 \in 1..Len(w)
  <2>1. wire[i] \in Seq(1..Total) /\ w = wire[i] /\ w # <<>>
    BY DEF Message, Inv, TypeOK, Conns
  <2> HIDE DEF w
  <2>2. /\ Len(w) \in Nat /\ 1 \in 1..Len(w) /\ w[1] \in 1..Total /\ Head(w) = w[1]
        /\ Tail(w) \in Seq(1..Total) /\ Len(Tail(w)) = Len(w) - 1
    <3>1. Len(w) \in Nat /\ 1 \in 1..Len(w)
      BY <2>1, EmptySeq
    <3>2. w[1] \in 1..Total /\ Tail(w) \in Seq(1..Total) /\ Len(Tail(w)) = Len(w) - 1
      BY <2>1, <3>1, HeadTailProperties, ElementOfSeq
    <3>3. Head(w) = w[1]
      BY <2>1
    <3> QED BY <3>1, <3>2, <3>3
  <2>3. \A k \in 1..Len(Tail(w)) : Tail(w)[k] = w[k + 1]
    BY <2>1, HeadTailProperties
  <2>4. \A k \in 1..Len(Tail(w)) : k + 1 \in 1..Len(w)
    BY <2>2, <2>3
  <2> QED BY <2>1, <2>2, <2>3, <2>4
<1>2. /\ wire' \in Seq(Seq(1..Total)) /\ Len(wire') = Len(wire)
      /\ \A k \in Conns : wire'[k] = IF k = i THEN Tail(w) ELSE wire[k]
  <2>1. wire' = [wire EXCEPT ![i] = Tail(w)]
    BY DEF Message
  <2> QED BY <1>1, <2>1, WireChanged DEF Inv
<1>3. received' = Append(received, m) /\ conns[i] = "open"
      /\ UNCHANGED <<conns, closed, timers, subscribing, subscribed, lastSeq, failedConnects,
                     jitterCount, everConnected, faults>>
  BY DEF Message
<1>4. /\ received' \in Seq(1..Total) /\ Len(received') = Len(received) + 1
      /\ Len(received) \in Nat /\ received'[Len(received) + 1] = m
      /\ \A j \in 1..Len(received) : received'[j] = received[j]
      /\ \A j \in 1..Len(received) : received[j] \in Nat
  <2>1. received \in Seq(1..Total)
    BY DEF Inv, TypeOK
  <2> HIDE DEF m
  <2> QED BY <1>1, <1>3, <2>1, Numbers
<1>5. \A k \in Conns : k # i => conns[k] = "closed" /\ wire[k] = <<>>
  BY <1>3 DEF Inv, OneConnection, WireInOrder
<1> HIDE DEF m, w
<1>6. w = wire[i]
  BY DEF w
<1>7. \A j \in 1..Len(received) : received[j] < m
  BY <1>1, <1>6 DEF Inv, WireInOrder
<1>8. m <= lastSeq
  BY <1>1, <1>6 DEF Inv, WireInOrder
<1>9. \A k \in 1..Len(Tail(w)) : m < Tail(w)[k] /\ Tail(w)[k] <= lastSeq
  <2> TAKE k \in 1..Len(Tail(w))
  <2>1. Tail(w)[k] = w[k + 1] /\ k + 1 \in 1..Len(w) /\ 1 < k + 1
    BY <1>1
  <2> QED BY <1>1, <1>6, <2>1 DEF Inv, WireInOrder
<1>10. \A k, n \in 1..Len(Tail(w)) : k < n => Tail(w)[k] < Tail(w)[n]
  <2> TAKE k, n \in 1..Len(Tail(w))
  <2> HAVE k < n
  <2>1. /\ Tail(w)[k] = w[k + 1] /\ k + 1 \in 1..Len(w)
        /\ Tail(w)[n] = w[n + 1] /\ n + 1 \in 1..Len(w) /\ k + 1 < n + 1
    BY <1>1
  <2> QED BY <1>6, <2>1 DEF Inv, WireInOrder
<1>11. TypeOK'
  BY <1>2, <1>3, <1>4 DEF Inv, TypeOK, Conns
<1>12. LastOnly' /\ OneConnection' /\ QuietAfterClose'
  BY <1>3 DEF Inv, LastOnly, OneConnection, QuietAfterClose, Conns
<1>13. ReceivedWasSent' /\ RecordedInOrder'
  <2>1. \A j \in 1..Len(received') : j \in 1..Len(received) \/ j = Len(received) + 1
    BY <1>4
  <2>2. ReceivedWasSent'
    BY <1>3, <1>4, <1>8, <2>1 DEF Inv, ReceivedWasSent
  <2>3. ASSUME NEW j \in 1..Len(received'), NEW k \in 1..Len(received'), j < k
        PROVE  received'[j] < received'[k]
    <3>1. CASE k \in 1..Len(received)
      BY <1>4, <2>3, <3>1 DEF Inv, RecordedInOrder
    <3>2. CASE k = Len(received) + 1
      BY <1>4, <1>7, <2>3, <3>2
    <3> QED BY <2>1, <3>1, <3>2
  <2> QED BY <2>2, <2>3 DEF RecordedInOrder
<1>14. WireInOrder'
  <2>0. Conns' = Conns /\ conns' = conns /\ lastSeq' = lastSeq
    BY <1>3 DEF Conns
  <2> SUFFICES ASSUME NEW c \in Conns
               PROVE  /\ conns[c] # "open" => wire'[c] = <<>>
                      /\ \A k, n \in 1..Len(wire'[c]) : k < n => wire'[c][k] < wire'[c][n]
                      /\ \A k \in 1..Len(wire'[c]) : wire'[c][k] <= lastSeq
                      /\ \A k \in 1..Len(wire'[c]), j \in 1..Len(received') :
                           received'[j] < wire'[c][k]
    BY <2>0 DEF WireInOrder
  <2>1. CASE c # i
    <3>1. wire'[c] = <<>>
      BY <1>2, <1>5, <2>1
    <3> QED BY <3>1
  <2>2. CASE c = i
    <3>1. wire'[c] = Tail(w) /\ conns[c] = "open"
      BY <1>2, <1>3, <2>2
    <3>2. ASSUME NEW k \in 1..Len(Tail(w)), NEW j \in 1..Len(received')
          PROVE  received'[j] < Tail(w)[k]
      <4>1. m < Tail(w)[k] /\ m \in Nat /\ Tail(w)[k] \in Nat
        BY <1>1, <1>9, Numbers
      <4>2. received'[j] \in Nat /\ received'[j] <= m
        <5>1. CASE j \in 1..Len(received)
          BY <1>1, <1>4, <1>7, <5>1
        <5>2. CASE j = Len(received) + 1
          BY <1>1, <1>4, <5>2
        <5> QED BY <1>4, <5>1, <5>2
      <4> QED BY <4>1, <4>2
    <3> QED BY <1>9, <1>10, <3>1, <3>2
  <2> QED BY <2>1, <2>2
<1> QED BY <1>11, <1>12, <1>13, <1>14 DEF Inv

LEMMA BroadcastInv == ASSUME Inv, Broadcast PROVE Inv'
<1> DEFINE f(k) == IF k \in subscribed /\ conns[k] = "open" THEN Append(wire[k], lastSeq + 1)
                   ELSE wire[k]
<1>1. /\ lastSeq \in Nat /\ lastSeq + 1 \in 1..Total /\ lastSeq' = lastSeq + 1 /\ Total \in Nat
      /\ wire' = [k \in Conns |-> f(k)]
      /\ UNCHANGED <<conns, closed, timers, subscribing, subscribed, received, failedConnects,
                     jitterCount, everConnected, faults>>
  BY ReconnectingWsAssumption
     DEF ReconnectingWsAssumption, Broadcast, MoreToSend, Inv, TypeOK, statVars
<1>2. /\ Len(conns) \in Nat /\ Conns = 1..Len(conns) /\ Conns' = Conns /\ conns' = conns
      /\ \A k \in Conns : wire[k] \in Seq(1..Total)
  BY <1>1 DEF Conns, Inv, TypeOK
<1>3. \A k \in Conns : f(k) \in Seq(1..Total)
  <2> TAKE k \in Conns
  <2>1. wire[k] \in Seq(1..Total)
    BY <1>2
  <2>2. Append(wire[k], lastSeq + 1) \in Seq(1..Total)
    BY <1>1, <2>1
  <2> QED BY <2>1, <2>2
<1>4. \A k \in Conns : \/ f(k) = wire[k]
                       \/ conns[k] = "open" /\ f(k) = Append(wire[k], lastSeq + 1)
  OBVIOUS
<1> HIDE DEF f
<1>5. /\ wire' \in Seq(Seq(1..Total)) /\ Len(wire') = Len(conns)
      /\ \A k \in Conns : wire'[k] = f(k)
  BY <1>1, <1>2, <1>3
<1>6. TypeOK'
  BY <1>1, <1>2, <1>5 DEF Inv, TypeOK
<1>7. LastOnly' /\ OneConnection' /\ QuietAfterClose'
  BY <1>1, <1>2 DEF Inv, LastOnly, OneConnection, QuietAfterClose
<1>8. ReceivedWasSent' /\ RecordedInOrder'
  <2>1. \A j \in 1..Len(received) : received[j] \in Nat
    BY Numbers DEF Inv, TypeOK
  <2> QED BY <1>1, <2>1 DEF Inv, ReceivedWasSent, RecordedInOrder
<1>9. WireInOrder'
  <2> SUFFICES ASSUME NEW c \in Conns
               PROVE  /\ conns[c] # "open" => f(c) = <<>>
                      /\ \A k, n \in 1..Len(f(c)) : k < n => f(c)[k] < f(c)[n]
                      /\ \A k \in 1..Len(f(c)) : f(c)[k] <= lastSeq + 1
                      /\ \A k \in 1..Len(f(c)), j \in 1..Len(received) :
                           received[j] < f(c)[k]
    BY <1>1, <1>2, <1>5 DEF WireInOrder
  <2> DEFINE w == wire[c]
  <2>1. /\ w \in Seq(1..Total) /\ Len(w) \in Nat /\ \A k \in 1..Len(w) : w[k] \in Nat
        /\ conns[c] # "open" => w = <<>>
        /\ \A k, n \in 1..Len(w) : k < n => w[k] < w[n]
        /\ \A k \in 1..Len(w) : w[k] <= lastSeq
        /\ \A k \in 1..Len(w), j \in 1..Len(received) : received[j] < w[k]
    BY <1>2, Numbers DEF Inv, WireInOrder
  <2>2. CASE f(c) = wire[c]
    <3>1. f(c) = w
      BY <2>2
    <3> HIDE DEF w
    <3> QED BY <1>1, <2>1, <3>1
  <2>3. CASE conns[c] = "open" /\ f(c) = Append(wire[c], lastSeq + 1)
    <3>1. f(c) = Append(w, lastSeq + 1)
      BY <2>3
    <3> HIDE DEF w
    <3>2. /\ Len(f(c)) = Len(w) + 1 /\ f(c)[Len(w) + 1] = lastSeq + 1
          /\ \A k \in 1..Len(w) : f(c)[k] = w[k]
      BY <1>1, <2>1, <3>1
    <3>3. \A k \in 1..Len(f(c)) : k \in 1..Len(w) \/ k = Len(w) + 1
      BY <2>1, <3>2
    <3>4. ASSUME NEW k \in 1..Len(f(c)), NEW n \in 1..Len(f(c)), k < n
          PROVE  f(c)[k] < f(c)[n]
      <4>1. k \in 1..Len(w)
        BY <2>1, <3>2, <3>4
      <4>2. CASE n \in 1..Len(w)
        BY <2>1, <3>2, <3>4, <4>1, <4>2
      <4>3. CASE n = Len(w) + 1
        BY <1>1, <2>1, <3>2, <4>1, <4>3
      <4> QED BY <3>3, <4>2, <4>3
    <3>5. \A k \in 1..Len(f(c)) : f(c)[k] <= lastSeq + 1
      BY <1>1, <2>1, <3>2, <3>3
    <3>6. ASSUME NEW k \in 1..Len(f(c)), NEW j \in 1..Len(received)
          PROVE  received[j] < f(c)[k]
      <4>1. CASE k \in 1..Len(w)
        BY <2>1, <3>2, <4>1
      <4>2. CASE k = Len(w) + 1
        <5>1. received[j] <= lastSeq /\ received[j] \in Nat
          BY Numbers DEF Inv, ReceivedWasSent, TypeOK
        <5> QED BY <1>1, <3>2, <4>2, <5>1
      <4> QED BY <3>3, <4>1, <4>2
    <3> QED BY <2>3, <3>4, <3>5, <3>6
  <2> QED BY <1>4, <2>2, <2>3
<1> QED BY <1>6, <1>7, <1>8, <1>9 DEF Inv

LEMMA StepInv == Inv /\ [Next]_vars => Inv'
<1> SUFFICES ASSUME Inv, [Next]_vars PROVE Inv'
  OBVIOUS
<1>1. CASE UNCHANGED vars
  BY <1>1 DEF vars, serverVars, statVars, Inv, TypeOK, LastOnly, OneConnection,
     QuietAfterClose, WireInOrder, ReceivedWasSent, RecordedInOrder, Conns
<1> QED BY <1>1, NextCases, OpensInv, CloseEventInv, MessageInv, FailsInv, UnexpectedInv,
           SubscribeInv, TimerInv, TerminateInv, CloseInv, BroadcastInv

----------------------------------------------------------------------------
\* A client is never at two places, whatever fails and whenever the jitter loop
\* strikes (OneConnection).
THEOREM OneAtATime == Spec => []OneConnection
<1>1. Inv => OneConnection
  BY DEF Inv
<1> QED BY <1>1, InitInv, StepInv, PTL DEF Spec

\* Nothing lives or is scheduled after close() (QuietAfterClose).
THEOREM Quiet == Spec => []QuietAfterClose
<1>1. Inv => QuietAfterClose
  BY DEF Inv
<1> QED BY <1>1, InitInv, StepInv, PTL DEF Spec

\* The deliveries a client records are in order, without repetition
\* (RecordedInOrder).
THEOREM Recorded == Spec => []RecordedInOrder
<1>1. Inv => RecordedInOrder
  BY DEF Inv
<1> QED BY <1>1, InitInv, StepInv, PTL DEF Spec

\* The types of the state of the client and the server.
THEOREM TypeCorrect == Spec => []TypeOK
<1>1. Inv => TypeOK
  BY DEF Inv
<1> QED BY <1>1, InitInv, StepInv, PTL DEF Spec

=============================================================================
