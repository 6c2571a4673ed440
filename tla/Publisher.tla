----------------------------- MODULE Publisher -----------------------------
(***************************************************************************)
(* The HTTP publisher of the throughput and jitter benches: serial, fire   *)
(* and forget, or a pool of bounded concurrency, as runAnycablePublisher   *)
(* of backend/src/lib/throughput.ts has all three.                         *)
(*                                                                         *)
(* A fetch and its request part ways when the fetch gives up: the request  *)
(* may still reach the server.  An HTTP error counts as an answer, as in   *)
(* the code, which never looks at res.ok.  open is the set of fetches that *)
(* did not settle; a settled one has run its `finally`.                    *)
(*                                                                         *)
(* Abstracted: the payload, the interval between two messages (any number  *)
(* of other steps fit in it), the NATS mode, which has no fetches.         *)
(***************************************************************************)
EXTENDS Naturals, Sequences, FiniteSets

CONSTANTS
  Mode,                  \* the modes looked at
  TotalMessages,         \* totalMessages
  PublisherConcurrency   \* publisherConcurrency

ASSUME PublisherAssumption ==
  /\ Mode \subseteq {"serial", "fireforget", "pool"}
  /\ TotalMessages \in Nat
  /\ PublisherConcurrency \in Nat

VARIABLES
  mode,        \* this run's mode
  pc,          \* where the loop is
  seq,         \* the message the loop is at
  active,      \* the pool's counter
  open,        \* fetches that did not settle yet
  sent,        \* requests that neither reached the server nor died
  broadcast,   \* what the server was asked to broadcast, in that order
  abandoned    \* requests whose fetch gave up on them on their way

publisherVars == <<mode, pc, seq, active, open, sent, broadcast, abandoned>>
netVars == <<sent, broadcast, abandoned>>

Seqs == 1..TotalMessages

\* Math.max(1, publisherConcurrency)
Concurrency == IF PublisherConcurrency > 1 THEN PublisherConcurrency ELSE 1

PublisherTypeOK ==
  /\ mode \in Mode
  /\ pc \in {"loop", "waiting", "granted", "await", "sleep", "settle", "done"}
  /\ seq \in Nat
  /\ active \in Nat
  /\ open \in SUBSET Seqs
  /\ sent \in SUBSET Seqs
  /\ broadcast \in Seq(Seqs)
  /\ abandoned \in SUBSET Seqs

PublisherInit ==
  /\ mode \in Mode
  /\ pc = "loop"
  /\ seq = 1
  /\ active = 0
  /\ open = {}
  /\ sent = {}
  /\ broadcast = <<>>
  /\ abandoned = {}

----------------------------------------------------------------------------
(* The loop. *)

\* The check left out.
CanAcquire_Always == TRUE

CanAcquire == active < Concurrency

\* acquire(): one of the pool's places at once, or the wait for one.
Acquire ==
  /\ mode = "pool"
  /\ pc = "loop"
  /\ seq <= TotalMessages
  /\ IF CanAcquire
     THEN pc' = "granted" /\ active' = active + 1
     ELSE pc' = "waiting" /\ UNCHANGED active
  /\ UNCHANGED <<mode, seq, open, netVars>>

\* Awaits nothing in serial mode either.
AfterDispatch_NotAwaited == "sleep"

\* `await dispatch(seq)` or the next round.
AfterDispatch == IF mode = "serial" THEN "await" ELSE "sleep"

\* dispatch(seq)
Dispatch ==
  /\ pc = IF mode = "pool" THEN "granted" ELSE "loop"
  /\ seq <= TotalMessages
  /\ pc' = AfterDispatch
  /\ open' = open \cup {seq}
  /\ sent' = sent \cup {seq}
  /\ UNCHANGED <<mode, seq, active, broadcast, abandoned>>

\* The awaited fetch settled, or the interval passed: on to the next message.
NextSeq ==
  /\ pc = "sleep" \/ (pc = "await" /\ seq \notin open)
  /\ pc' = "loop"
  /\ seq' = seq + 1
  /\ UNCHANGED <<mode, active, open, netVars>>

LoopEnds ==
  /\ pc = "loop"
  /\ seq > TotalMessages
  /\ pc' = IF mode = "serial" THEN "done" ELSE "settle"
  /\ UNCHANGED <<mode, seq, active, open, netVars>>

\* Resolves with the first settled fetch, as Promise.race would.
Settled_Race == open # Seqs

Settled == open = {}

\* `await Promise.allSettled(inflight)`
AllSettled ==
  /\ pc = "settle"
  /\ Settled
  /\ pc' = "done"
  /\ UNCHANGED <<mode, seq, active, open, netVars>>

----------------------------------------------------------------------------
(* The fetches. *)

\* The place given back, and nobody told.
Release_NoHandover == active' = active - 1 /\ UNCHANGED pc

\* release(), the fetch's `finally` in pool mode: the place goes to the waiter.
Release ==
  IF mode = "pool"
  THEN IF pc = "waiting"
       THEN UNCHANGED active /\ pc' = "granted"
       ELSE active' = active - 1 /\ UNCHANGED pc
  ELSE UNCHANGED <<active, pc>>

\* A fetch settles: it has its response, or rejects and the catch swallows it.
\* Either way the request may be anywhere.
Settles(n) ==
  /\ n \in open
  /\ open' = open \ {n}
  /\ abandoned' = IF n \in sent THEN abandoned \cup {n} ELSE abandoned
  /\ Release
  /\ UNCHANGED <<mode, seq, sent, broadcast>>

\* POST /_broadcast is handled.
Arrives(n) ==
  /\ n \in sent
  /\ sent' = sent \ {n}
  /\ broadcast' = Append(broadcast, n)
  /\ UNCHANGED <<mode, pc, seq, active, open, abandoned>>

\* The request dies with its connection, or the server refuses it.
Dies(n) ==
  /\ n \in sent
  /\ sent' = sent \ {n}
  /\ UNCHANGED <<mode, pc, seq, active, open, broadcast, abandoned>>

Finished ==
  /\ pc = "done"
  /\ UNCHANGED publisherVars

Loop == Acquire \/ Dispatch \/ NextSeq \/ LoopEnds \/ AllSettled

PublisherNext ==
  \/ Loop
  \/ \E n \in Seqs : Settles(n) \/ Arrives(n) \/ Dies(n)
  \/ Finished

\* The event loop runs what is ready, and no fetch stays open for ever: undici
\* gives up on one without an answer.
PublisherFairness == WF_publisherVars(Loop) /\ \A n \in Seqs : WF_publisherVars(Settles(n))

PublisherSpec == PublisherInit /\ [][PublisherNext]_publisherVars /\ PublisherFairness

----------------------------------------------------------------------------
(* Properties. *)

\* The pool never has more than Concurrency requests open, nor the serial
\* publisher more than one: the load the bench reports is the load it offered.
BoundedConcurrency ==
  /\ mode = "pool" => Cardinality(open) <= Concurrency
  /\ mode = "serial" => Cardinality(open) <= 1

\* The loop waits for a place only while every place is taken by a fetch that
\* has yet to settle and will hand its place over: no wakeup is lost.
NoIdleWaiter ==
  pc = "waiting" => active = Concurrency /\ Cardinality(open) = Concurrency

\* publishingMs is taken when the publisher returns: by then every message was
\* dispatched and no fetch is still open.
ReturnsSettled == pc = "done" => seq = TotalMessages + 1 /\ open = {}

\* The serial publisher's messages reach the server in the order of their seq,
\* on which lostDeliveries counts (highestSeq less what was received), unless a
\* fetch gave up on a request that was still on its way.
SerialInOrder ==
  mode = "serial" /\ abandoned = {} =>
    \A i, k \in 1..Len(broadcast) : i < k => broadcast[i] < broadcast[k]

\* The publisher returns, whatever becomes of its requests.
Returns == <>(pc = "done")

=============================================================================
