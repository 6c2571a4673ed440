------------------------------ MODULE Results ------------------------------
(***************************************************************************)
(* What a run's messages become: backend/src/lib/core/stats.ts, from the   *)
(* ClientStat of one client over a shard's JitterResult to the merge of    *)
(* several shards.                                                         *)
(*                                                                         *)
(* Abstracted: labels, elapsed times, memory, averages; the latencies over *)
(* their minimum, of which the minimum itself (skewFloor) is kept.  A rate *)
(* is in hundredths of a percent, rounded as toFixed(2) does.              *)
(***************************************************************************)
EXTENDS Integers, Sequences, FiniteSets, FiniteSetsExt, SequencesExt

Null == -1

----------------------------------------------------------------------------
(* One client. *)

NewStat ==
  [received |-> {}, highestSeq |-> 0, jitterCount |-> 0, recoveredCount |-> 0,
   failedConnects |-> 0, everConnected |-> FALSE, latencies |-> <<>>]

\* recordMsg: a message seen before is in the set once, but is a sample again.
RecordMsg(stat, seq, latency) ==
  [stat EXCEPT !.received = @ \cup {seq},
               !.highestSeq = IF seq > @ THEN seq ELSE @,
               !.latencies = Append(@, latency)]

----------------------------------------------------------------------------
(* Samples. *)

\* sort(): a sample's place is the number of those that come no later.
Sorted(samples) ==
  LET NoLater(i) == {j \in DOMAIN samples :
                    samples[j] < samples[i] \/ (samples[j] = samples[i] /\ j <= i)}
  IN [k \in DOMAIN samples |->
        samples[CHOOSE i \in DOMAIN samples : Cardinality(NoLater(i)) = k]]

\* Math.floor((length - 1) * (p / 100)), in an array that starts at 0
Percentile(sortedAsc, p) ==
  IF sortedAsc = <<>> THEN 0 ELSE sortedAsc[((Len(sortedAsc) - 1) * p) \div 100 + 1]

\* Math.round of a fraction
Round(a, b) == (2 * a + b) \div (2 * b)

\* Every so many-th sample, which stops short of the last.
DownsampleSorted_Stride(sortedAsc, cap) ==
  IF Len(sortedAsc) <= cap THEN sortedAsc
  ELSE [i \in 1..cap |-> sortedAsc[((i - 1) * Len(sortedAsc)) \div cap + 1]]

\* At most cap samples, evenly spaced from the first to the last.
DownsampleSorted(sortedAsc, cap) ==
  IF Len(sortedAsc) <= cap THEN sortedAsc
  ELSE [i \in 1..cap |-> sortedAsc[Round((i - 1) * (Len(sortedAsc) - 1), cap - 1) + 1]]

Latencies(samples) ==
  LET s == Sorted(samples) IN
  [p50 |-> Percentile(s, 50), p99 |-> Percentile(s, 99), max |-> Percentile(s, 100),
   skewFloor |-> IF s = <<>> THEN 0 ELSE s[1]]

Rate(part, whole) == IF whole > 0 THEN Round(10000 * part, whole) ELSE Null

----------------------------------------------------------------------------
(* One shard, and several. *)

Total(f, S) == MapThenSumSet(LAMBDA x : f[x], S)

\* concat() of the samples of all.
Joined(f, S) == FoldSet(LAMBDA x, acc : acc \o f[x], <<>>, S)

ReceivedBy(stat) == Cardinality(stat.received)

\* Counted up to the last message the client saw.
LostBy(stat) == Max({0, stat.highestSeq - ReceivedBy(stat)})

\* The bench's JitterResult, but for its samples.
Summary(stats, totalMessages) ==
  LET C == DOMAIN stats
      received == Total([c \in C |-> ReceivedBy(stats[c])], C)
      connected == Cardinality({c \in C : stats[c].everConnected})
      samples == Joined([c \in C |-> stats[c].latencies], C)
  IN [clients              |-> Cardinality(C),
      connectedClients     |-> connected,
      publishedMessages    |-> Max({0} \cup {stats[c].highestSeq : c \in C}),
      expectedDeliveries   |-> totalMessages * Cardinality(C),
      receivedDeliveries   |-> received,
      lostDeliveries       |-> Total([c \in C |-> LostBy(stats[c])], C),
      connectFailures      |-> Total([c \in C |-> stats[c].failedConnects], C),
      csrResumes           |-> Total([c \in C |-> stats[c].recoveredCount], C),
      deliveryRate         |-> Max({0, Rate(received, totalMessages * Cardinality(C))}),
      deliveryRateOfConnected |-> Rate(received, totalMessages * connected),
      latencyRawMs         |-> Latencies(samples),
      latencySamples       |-> Len(samples)]

WithSamples(fields, samplesSorted) ==
  [field \in DOMAIN fields \cup {"latencySamplesSorted"} |->
     IF field = "latencySamplesSorted" THEN samplesSorted ELSE fields[field]]

\* The samples are there when it was given a cap.
Summarize(stats, totalMessages, cap) ==
  LET samples == Joined([c \in DOMAIN stats |-> stats[c].latencies], DOMAIN stats)
      fields == Summary(stats, totalMessages)
  IN IF cap > 0 THEN WithSamples(fields, DownsampleSorted(Sorted(samples), cap)) ELSE fields

\* mergeJitterResults throws on a shard without samples, and on no shards.
CanMerge(shards) ==
  /\ DOMAIN shards # {}
  /\ \A s \in DOMAIN shards : "latencySamplesSorted" \in DOMAIN shards[s]

\* mergeJitterResults
Merge(shards) ==
  LET S == DOMAIN shards
      received == Total([s \in S |-> shards[s].receivedDeliveries], S)
      expected == Total([s \in S |-> shards[s].expectedDeliveries], S)
      connected == Total([s \in S |-> shards[s].connectedClients], S)
      published == Max({0} \cup {shards[s].publishedMessages : s \in S})
  IN [clients            |-> Total([s \in S |-> shards[s].clients], S),
      connectedClients   |-> connected,
      publishedMessages  |-> published,
      expectedDeliveries |-> expected,
      receivedDeliveries |-> received,
      lostDeliveries     |-> Total([s \in S |-> shards[s].lostDeliveries], S),
      connectFailures    |-> Total([s \in S |-> shards[s].connectFailures], S),
      csrResumes         |-> Total([s \in S |-> shards[s].csrResumes], S),
      deliveryRate       |-> Max({0, Rate(received, expected)}),
      deliveryRateOfConnected |-> Rate(received, published * connected),
      latencyRawMs       |-> Latencies(Joined([s \in S |-> shards[s].latencySamplesSorted], S)),
      latencySamples     |-> Total([s \in S |-> shards[s].latencySamples], S)]

=============================================================================
