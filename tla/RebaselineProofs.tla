-------------------------- MODULE RebaselineProofs --------------------------
(***************************************************************************)
(* Theorems about rebaseline, for every set of filters, runners, job ids   *)
(* and delays: only a test's own resolved bench is compared with its       *)
(* baseline, benches overlap only after a failure, and a delivery rate     *)
(* that fell decides the exit code.  They use what ManifestAssumption says *)
(* of the manifest; that a test sends what its endpoint reads and is       *)
(* compared with fields its result has rests on the entries themselves,    *)
(* table by table.                                                         *)
(***************************************************************************)
EXTENDS Rebaseline, WellFoundedInduction, SequenceTheorems, TLAPS

Counted == {"ok", "drift", "regress"}

\* A turn has a test, whose outcome is open; a job is polled in its turn only.
Turns ==
  /\ \A i \in todo : Tests[i].id \in Shard /\ outcome[Tests[i].id] = "none"
  /\ phase \in {"post", "sync", "poll", "get", "reply", "shards"} => todo # {}
  /\ phase = "shards" => Spec0.mode = "multi-shard"
  /\ phase \in {"post", "sync", "poll", "get", "reply"} => Spec0.mode # "multi-shard"
  /\ jobId # None => phase \in {"poll", "get", "reply"}
  /\ phase = "start" => todo = {} /\ fell = {} /\ \A t \in Shard : outcome[t] = "none"

\* A job in the map of r tells the truth about its bench, and is its only job.
JobIsTrue(r, id) ==
  LET job == jobs[r][id] IN
  /\ RunnerOf[job.shard] = r
  /\ job.status = "running" => bench[job.shard] = "running"
  /\ job.status = "done" => bench[job.shard] = "resolved"
  /\ job.status = "failed" => bench[job.shard] = "rejected"

JobsAreTrue ==
  /\ \A r \in Runner : \A id \in DOMAIN jobs[r] : JobIsTrue(r, id)
  /\ \A r \in Runner : \A i, k \in DOMAIN jobs[r] : jobs[r][i].shard = jobs[r][k].shard => i = k

\* An id names the job of test t wherever it still names one.
IdOf(t, id) ==
  id \in used /\ \A r \in Runner : id \in DOMAIN jobs[r] => jobs[r][id].shard = t

\* What the program has in its hands is its current test's.
Answers ==
  /\ jobId # None => IdOf(Spec0.id, jobId)
  /\ phase = "reply" =>
       /\ "jobId" \in DOMAIN body => IdOf(Spec0.id, body.jobId)
       /\ "result" \in DOMAIN body => bench[Spec0.id] = "resolved"

\* A bench was started in its test's turn, which may have been reported since.
Benches ==
  \A t \in Shard :
    /\ bench[t] # "none" =>
         /\ t[1] # "idle"
         /\ outcome[t] # "none" \/ (phase \in {"sync", "poll", "get", "reply"} /\ t = Spec0.id)
    /\ outcome[t] \in Counted /\ t[1] # "idle" => bench[t] = "resolved"

Fallen ==
  /\ \A t \in fell : outcome[t] = "regress"
  /\ FallenRateFailsTheRun

\* The request under way is the current test's.
Requests ==
  /\ phase \in {"post", "sync", "poll", "get", "reply"} =>
       request = [endpoint |-> Spec0.endpoint,
                  params |-> Spec0.params \cup IF Spec0.mode = "sync" THEN {} ELSE {"async"}]
  /\ phase = "shards" =>
       request = [endpoint |-> Spec0.endpoint,
                  params |-> Spec0.params \cup {"n", "shard", "async"}]

Inv ==
  /\ TypeOK /\ Turns /\ JobsAreTrue /\ Answers /\ Benches /\ Fallen
  /\ Requests /\ OnlyMetricsAreMissing

----------------------------------------------------------------------------
(* The manifest's entries against the endpoints they run. *)

FromMetrics == {<<"ramKbPerConnected">>, <<"peakCpuPercent">>}

\* What a turn adds to a test's parameters.
Added(spec) ==
  CASE spec.mode = "sync" -> {}
    [] spec.mode = "multi-shard" -> {"n", "shard", "async"}
    [] OTHER -> {"async"}

\* The words of the ids.
Word ==
  {"latency", "jitter", "whispers", "throughput", "idle", "socketio", "csr", "uws", "anycable",
   "oss", "pro", "1k", "10k"}

\* An entry sends what its endpoint reads, and is compared on what it returns.
Matches(spec) ==
  /\ spec.params \cup Added(spec) \subseteq Reads(spec.endpoint)
  /\ spec.baseline \subseteq
       IF spec.mode = "multi-shard" THEN IdleFields \cup FromMetrics
       ELSE BenchFields(spec.endpoint[1])

LEMMA FirstOfConcat ==
  ASSUME NEW S, NEW u \in Seq(S), NEW t \in Seq(S), u # <<>>
  PROVE  u \o t \in Seq(S) /\ u \o t # <<>> /\ (u \o t)[1] = u[1]
<1>1. Len(u) \in Nat \ {0} /\ Len(t) \in Nat
  BY EmptySeq
<1>2. /\ u \o t \in Seq(S) /\ Len(u \o t) = Len(u) + Len(t)
      /\ (u \o t)[1] = u[1]
  BY <1>1, ConcatProperties
<1> QED BY <1>1, <1>2, EmptySeq

\* The first word of an id names its category.
LEMMA FirstWord ==
  ASSUME NEW S, NEW w \in S, NEW s \in Seq(S), NEW t \in Seq(S)
  PROVE  (<<w>> \o s)[1] = w /\ ((<<w>> \o s) \o t)[1] = w
<1>1. <<w>> \in Seq(S) /\ <<w>> # <<>> /\ <<w>>[1] = w
  OBVIOUS
<1>2. <<w>> \o s \in Seq(S) /\ <<w>> \o s # <<>> /\ (<<w>> \o s)[1] = w
  BY <1>1, FirstOfConcat
<1>3. ((<<w>> \o s) \o t)[1] = (<<w>> \o s)[1]
  BY <1>2, FirstOfConcat
<1> QED BY <1>2, <1>3

LEMMA EntryMatches ==
  ASSUME NEW id, NEW target, NEW mode, NEW params, NEW baseline, NEW zero, NEW called,
         called = IF id[1] = "latency" THEN "jitter" ELSE id[1],
         mode \in {"sync", "async", "avalanche"},
         params \cup (IF mode = "sync" THEN {} ELSE {"async"}) \subseteq Reads(<<called, target>>),
         baseline \cup zero \subseteq BenchFields(called)
  PROVE  Matches(Entry(id, target, mode, params, baseline, zero))
BY DEF Matches, Entry, Added

\* The setups of the manifest: their words, their targets and their addresses.
Addresses(target) ==
  CASE target = "uws" -> WsAndHttp
    [] target = "anycable" -> CableAndBroadcast
    [] OTHER -> {"serverUrl"}

Url(target) ==
  CASE target = "uws" -> "wsUrl" [] target = "anycable" -> "cableUrl" [] OTHER -> "serverUrl"

LEMMA JitterReads ==
  ASSUME NEW target \in {"socketio", "socketio-csr", "uws", "anycable"}
  PROVE  JitterKnobs \cup Addresses(target) \cup {"async"} \subseteq Reads(<<"jitter", target>>)
BY DEF JitterKnobs, LatencyKnobs, Addresses, WsAndHttp, CableAndBroadcast, Reads, BenchParams,
       JitterParams, TargetUrls, PublishUrls

LEMMA JitterReturns ==
  /\ BenchFields("jitter") = JitterFields
  /\ DeliveryRate \in JitterFields /\ <<"lostDeliveries">> \in JitterFields
  /\ <<"csrResumes">> \in JitterFields
  /\ \A stat \in {"p50", "p95", "p99"} : P(stat) \in JitterFields
BY DEF BenchFields, JitterFields, DeliveryRate, P, Scalars, Group, Percentiles

LEMMA LatencyMatches ==
  ASSUME NEW setup \in Seq(Word), NEW size \in Word,
         NEW target \in {"socketio", "socketio-csr", "uws", "anycable"}
  PROVE  Matches(Latency(setup, target, size, Addresses(target)))
<1>1. ((<<"latency">> \o setup) \o <<size>>)[1] = "latency"
  BY FirstWord DEF Word
<1>2. LatencyKnobs \cup Addresses(target) \subseteq Reads(<<"jitter", target>>)
  BY JitterReads DEF JitterKnobs
<1>3. {P("p50"), P("p99"), DeliveryRate} \cup {} \subseteq BenchFields("jitter")
  BY JitterReturns
<1> QED BY <1>1, <1>2, <1>3, EntryMatches DEF Latency

LEMMA JitterMatches ==
  ASSUME NEW setup \in Seq(Word), NEW target \in {"socketio", "socketio-csr", "uws", "anycable"},
         NEW baseline \in SUBSET JitterFields, NEW zero \in SUBSET JitterFields
  PROVE  Matches(Jitter(setup, target, Addresses(target), baseline, zero))
<1>1. ((<<"jitter">> \o setup) \o <<"10k">>)[1] = "jitter"
  BY FirstWord DEF Word
<1>2. {DeliveryRate, P("p95")} \cup baseline \cup zero \subseteq BenchFields("jitter")
  BY JitterReturns
<1> QED BY <1>1, <1>2, JitterReads, EntryMatches DEF Jitter

LEMMA WhispersMatches ==
  ASSUME NEW setup \in Seq(Word), NEW target \in {"socketio", "uws", "anycable"}
  PROVE  Matches(Whispers(setup, target, {Url(target)}))
<1>1. ((<<"whispers">> \o setup) \o <<"1k">>)[1] = "whispers"
  BY FirstWord DEF Word
<1>2. {"n", "rooms", "ramp", "interval", "duration", "payload"} \cup {Url(target)}
        \subseteq Reads(<<"whispers", target>>)
  BY DEF Reads, BenchParams, WhispersParams, Url, TargetUrls, PublishUrls
<1>3. {DeliveryRate, <<"latencyMs", "p50">>, <<"latencyMs", "p99">>} \subseteq BenchFields("whispers")
  BY DEF BenchFields, WhispersFields, DeliveryRate, Scalars, Group, Percentiles
<1> QED BY <1>1, <1>2, <1>3, EntryMatches DEF Whispers

LEMMA ThroughputMatches ==
  ASSUME NEW setup \in Seq(Word), NEW target \in {"socketio", "socketio-csr", "uws", "anycable"}
  PROVE  Matches(Throughput(setup, target, Addresses(target)))
<1>1. (<<"throughput">> \o setup)[1] = "throughput"
  BY FirstWord DEF Word
<1>2. ThroughputKnobs \cup Addresses(target) \cup {"async"} \subseteq Reads(<<"throughput", target>>)
  BY DEF ThroughputKnobs, Addresses, WsAndHttp, CableAndBroadcast, Reads, BenchParams,
         ThroughputParams, TargetUrls, PublishUrls
<1>3. {DeliveryRate, P("p50"), P("p99")} \subseteq BenchFields("throughput")
  BY JitterReturns DEF BenchFields, ThroughputFields
<1> QED BY <1>1, <1>2, <1>3, EntryMatches DEF Throughput

LEMMA AvalancheMatches ==
  ASSUME NEW target \in {"socketio", "uws"}, NEW size,
         NEW baseline \in SUBSET AvalancheFields, NEW zero \in SUBSET AvalancheFields
  PROVE  Matches(Avalanche(target, size, Url(target), baseline, zero))
<1>1. <<"avalanche", target, size>>[1] = "avalanche"
  OBVIOUS
<1>2. {"n", "ramp", "prearm", "recoveryWait", "stream", Url(target)} \cup {"async"}
        \subseteq Reads(<<"avalanche", target>>)
  BY DEF Reads, BenchParams, AvalancheParams, Url, TargetUrls, PublishUrls
<1>3. BenchFields("avalanche") = AvalancheFields
  BY DEF BenchFields
<1> QED BY <1>1, <1>2, <1>3, EntryMatches DEF Avalanche

LEMMA IdleMatches ==
  ASSUME NEW setup \in Seq(Word), NEW target \in {"socketio", "uws", "anycable"},
         NEW cpu \in SUBSET FromMetrics
  PROVE  Matches(Idle(setup, target, {Url(target)}, cpu))
<1>1. (<<"idle">> \o setup)[1] = "idle"
  BY FirstWord DEF Word
<1>2. {"hold", "ramp", "stream"} \cup {Url(target)} \cup {"n", "shard", "async"} \subseteq Reads(<<"idle", target>>)
  BY DEF Reads, BenchParams, IdleParams, Url, TargetUrls, PublishUrls
<1>3. {<<"connected">>, <<"ramKbPerConnected">>} \cup cpu \subseteq IdleFields \cup FromMetrics
  BY DEF IdleFields, FromMetrics, Scalars
<1> QED BY <1>1, <1>2, <1>3 DEF Idle, Entry, Matches, Added

\* A table of entries that match.
Fits(table) == \E S : table \in Seq(S) /\ \A spec \in S : Matches(spec)

LEMMA ElementsFit ==
  ASSUME NEW table, Fits(table), NEW i \in DOMAIN table
  PROVE  Matches(table[i])
<1>1. PICK S : table \in Seq(S) /\ \A spec \in S : Matches(spec)
  BY DEF Fits
<1>2. table[i] \in S
  BY <1>1
<1> QED BY <1>1, <1>2

LEMMA SeqGrows ==
  ASSUME NEW S, NEW T, S \subseteq T, NEW s \in Seq(S)
  PROVE  s \in Seq(T)
OBVIOUS

LEMMA ConcatFits ==
  ASSUME NEW s, NEW t, Fits(s), Fits(t)
  PROVE  Fits(s \o t)
<1>1. PICK S : s \in Seq(S) /\ \A spec \in S : Matches(spec)
  BY DEF Fits
<1>2. PICK T : t \in Seq(T) /\ \A spec \in T : Matches(spec)
  BY DEF Fits
<1>3. s \in Seq(S \cup T) /\ t \in Seq(S \cup T)
  BY <1>1, <1>2, SeqGrows
<1>4. s \o t \in Seq(S \cup T)
  BY <1>3, ConcatProperties
<1>5. \A spec \in S \cup T : Matches(spec)
  BY <1>1, <1>2
<1> QED BY <1>4, <1>5 DEF Fits

LEMMA FitsOfFour ==
  ASSUME NEW a, NEW b, NEW c, NEW d, Matches(a), Matches(b), Matches(c), Matches(d)
  PROVE  Fits(<<a, b, c, d>>)
<1>1. <<a, b, c, d>> \in Seq({a, b, c, d})
  OBVIOUS
<1>2. \A spec \in {a, b, c, d} : Matches(spec)
  OBVIOUS
<1> DEFINE S == {a, b, c, d}
<1> HIDE DEF S
<1>3. <<a, b, c, d>> \in Seq(S) /\ \A spec \in S : Matches(spec)
  BY <1>1, <1>2 DEF S
<1> QED BY <1>3, Zenon DEF Fits

LEMMA FitsOfFive ==
  ASSUME NEW a, NEW b, NEW c, NEW d, NEW e,
         Matches(a), Matches(b), Matches(c), Matches(d), Matches(e)
  PROVE  Fits(<<a, b, c, d, e>>)
<1>1. <<a, b, c, d, e>> \in Seq({a, b, c, d, e})
  OBVIOUS
<1>2. \A spec \in {a, b, c, d, e} : Matches(spec)
  OBVIOUS
<1> DEFINE S == {a, b, c, d, e}
<1> HIDE DEF S
<1>3. <<a, b, c, d, e>> \in Seq(S) /\ \A spec \in S : Matches(spec)
  BY <1>1, <1>2 DEF S
<1> QED BY <1>3, Zenon DEF Fits

LEMMA FitsOfSeven ==
  ASSUME NEW a, NEW b, NEW c, NEW d, NEW e, NEW f, NEW g,
         Matches(a), Matches(b), Matches(c), Matches(d), Matches(e), Matches(f), Matches(g)
  PROVE  Fits(<<a, b, c, d, e, f, g>>)
<1>1. <<a, b, c, d, e, f, g>> \in Seq({a, b, c, d, e, f, g})
  OBVIOUS
<1>2. \A spec \in {a, b, c, d, e, f, g} : Matches(spec)
  OBVIOUS
<1> DEFINE S == {a, b, c, d, e, f, g}
<1> HIDE DEF S
<1>3. <<a, b, c, d, e, f, g>> \in Seq(S) /\ \A spec \in S : Matches(spec)
  BY <1>1, <1>2 DEF S
<1> QED BY <1>3, Zenon DEF Fits

LEMMA FitsOfTen ==
  ASSUME NEW a, NEW b, NEW c, NEW d, NEW e, NEW f, NEW g, NEW h, NEW i, NEW j,
         Matches(a), Matches(b), Matches(c), Matches(d), Matches(e), 
         Matches(f), Matches(g), Matches(h), Matches(i), Matches(j)
  PROVE  Fits(<<a, b, c, d, e, f, g, h, i, j>>)
<1>1. <<a, b, c, d, e, f, g, h, i, j>> \in Seq({a, b, c, d, e, f, g, h, i, j})
  OBVIOUS
<1>2. \A spec \in {a, b, c, d, e, f, g, h, i, j} : Matches(spec)
  OBVIOUS
<1> DEFINE S == {a, b, c, d, e, f, g, h, i, j}
<1> HIDE DEF S
<1>3. <<a, b, c, d, e, f, g, h, i, j>> \in Seq(S) /\ \A spec \in S : Matches(spec)
  BY <1>1, <1>2 DEF S
<1> QED BY <1>3, Zenon DEF Fits

LEMMA Words ==
  ASSUME NEW S, NEW v \in S, NEW w \in S
  PROVE  <<v>> \in Seq(S) /\ <<v, w>> \in Seq(S)
OBVIOUS

\* The words of the setups.
LEMMA Setups ==
  /\ <<"socketio">> \in Seq(Word) /\ <<"uws">> \in Seq(Word)
  /\ <<"socketio", "csr">> \in Seq(Word)
  /\ <<"anycable", "oss">> \in Seq(Word) /\ <<"anycable", "pro">> \in Seq(Word)
<1>1. {"socketio", "csr", "uws", "anycable", "oss", "pro"} \subseteq Word
  BY DEF Word
<1> QED BY <1>1, Words, Zenon

LEMMA AddressesOf ==
  /\ Addresses("socketio") = {"serverUrl"} /\ Addresses("socketio-csr") = {"serverUrl"}
  /\ Addresses("uws") = WsAndHttp /\ Addresses("anycable") = CableAndBroadcast
  /\ Url("socketio") = "serverUrl" /\ Url("uws") = "wsUrl" /\ Url("anycable") = "cableUrl"
BY DEF Addresses, Url

\* The tables of the manifest.
LEMMA LatencyFits == Fits(LatencyTests)
<1>1. \A setup \in Seq(Word), size \in Word :
        /\ Matches(Latency(setup, "socketio", size, {"serverUrl"}))
        /\ Matches(Latency(setup, "socketio-csr", size, {"serverUrl"}))
        /\ Matches(Latency(setup, "uws", size, WsAndHttp))
        /\ Matches(Latency(setup, "anycable", size, CableAndBroadcast))
  BY AddressesOf, LatencyMatches
<1>2. "1k" \in Word /\ "10k" \in Word
  BY DEF Word
<1>3. /\ Matches(Latency(<<"socketio">>, "socketio", "1k", {"serverUrl"}))
      /\ Matches(Latency(<<"socketio">>, "socketio", "10k", {"serverUrl"}))
      /\ Matches(Latency(<<"socketio", "csr">>, "socketio-csr", "1k", {"serverUrl"}))
      /\ Matches(Latency(<<"socketio", "csr">>, "socketio-csr", "10k", {"serverUrl"}))
      /\ Matches(Latency(<<"uws">>, "uws", "1k", WsAndHttp))
      /\ Matches(Latency(<<"uws">>, "uws", "10k", WsAndHttp))
      /\ Matches(Latency(<<"anycable", "oss">>, "anycable", "1k", CableAndBroadcast))
      /\ Matches(Latency(<<"anycable", "oss">>, "anycable", "10k", CableAndBroadcast))
      /\ Matches(Latency(<<"anycable", "pro">>, "anycable", "1k", CableAndBroadcast))
      /\ Matches(Latency(<<"anycable", "pro">>, "anycable", "10k", CableAndBroadcast))
  BY <1>1, <1>2, Setups, Zenon
<1> QED BY <1>3, FitsOfTen, Zenon DEF LatencyTests

LEMMA JitterFits == Fits(JitterTests)
<1>1. \A setup \in Seq(Word), baseline, zero \in SUBSET JitterFields :
        /\ Matches(Jitter(setup, "socketio", {"serverUrl"}, baseline, zero))
        /\ Matches(Jitter(setup, "socketio-csr", {"serverUrl"}, baseline, zero))
        /\ Matches(Jitter(setup, "uws", WsAndHttp, baseline, zero))
        /\ Matches(Jitter(setup, "anycable", CableAndBroadcast, baseline, zero))
  BY AddressesOf, JitterMatches
<1>2. /\ {} \in SUBSET JitterFields /\ {<<"lostDeliveries">>} \in SUBSET JitterFields
      /\ {<<"csrResumes">>} \in SUBSET JitterFields /\ {P("p99")} \in SUBSET JitterFields
  BY JitterReturns
<1>3. /\ Matches(Jitter(<<"socketio">>, "socketio", {"serverUrl"}, {}, {}))
      /\ Matches(Jitter(<<"socketio", "csr">>, "socketio-csr", {"serverUrl"}, {<<"csrResumes">>},
                        {<<"lostDeliveries">>}))
      /\ Matches(Jitter(<<"uws">>, "uws", WsAndHttp, {<<"lostDeliveries">>}, {}))
      /\ Matches(Jitter(<<"anycable", "oss">>, "anycable", CableAndBroadcast, {P("p99")},
                        {<<"lostDeliveries">>}))
      /\ Matches(Jitter(<<"anycable", "pro">>, "anycable", CableAndBroadcast, {P("p99")},
                        {<<"lostDeliveries">>}))
  BY <1>1, <1>2, Setups, Zenon
<1> QED BY <1>3, FitsOfFive, Zenon DEF JitterTests

LEMMA WhispersFits == Fits(WhispersTests)
<1>1. \A setup \in Seq(Word) :
        /\ Matches(Whispers(setup, "socketio", {"serverUrl"}))
        /\ Matches(Whispers(setup, "uws", {"wsUrl"}))
        /\ Matches(Whispers(setup, "anycable", {"cableUrl"}))
  BY WhispersMatches, AddressesOf
<1> QED BY <1>1, Setups, FitsOfFour, Zenon DEF WhispersTests

LEMMA ThroughputFits == Fits(ThroughputTests)
<1>1. \A setup \in Seq(Word) :
        /\ Matches(Throughput(setup, "socketio", {"serverUrl"}))
        /\ Matches(Throughput(setup, "socketio-csr", {"serverUrl"}))
        /\ Matches(Throughput(setup, "uws", WsAndHttp))
        /\ Matches(Throughput(setup, "anycable", CableAndBroadcast))
  BY AddressesOf, ThroughputMatches
<1> QED BY <1>1, Setups, FitsOfFive, Zenon DEF ThroughputTests

LEMMA IdleFits == Fits(IdleTests)
<1>1. \A setup \in Seq(Word), cpu \in SUBSET FromMetrics :
        /\ Matches(Idle(setup, "socketio", {"serverUrl"}, cpu))
        /\ Matches(Idle(setup, "uws", {"wsUrl"}, cpu))
        /\ Matches(Idle(setup, "anycable", {"cableUrl"}, cpu))
  BY IdleMatches, AddressesOf
<1>2. {} \in SUBSET FromMetrics /\ {<<"peakCpuPercent">>} \in SUBSET FromMetrics
  BY DEF FromMetrics
<1> QED BY <1>1, <1>2, Setups, FitsOfFour, Zenon DEF IdleTests

LEMMA AvalancheFits == Fits(AvalancheTests)
<1>1. \A size : \A baseline, zero \in SUBSET AvalancheFields :
        /\ Matches(Avalanche("socketio", size, "serverUrl", baseline, zero))
        /\ Matches(Avalanche("uws", size, "wsUrl", baseline, zero))
  BY AvalancheMatches, AddressesOf
<1>2. /\ Recovery \in SUBSET AvalancheFields /\ {} \in SUBSET AvalancheFields
      /\ Recovery \cup {<<"reconnectMs", "p99">>} \in SUBSET AvalancheFields
      /\ {<<"reconnectRatePct">>} \in SUBSET AvalancheFields
  BY DEF Recovery, AvalancheFields, Scalars, Group, Percentiles
<1>3. /\ Matches(Avalanche("socketio", "5k", "serverUrl", Recovery \cup {<<"reconnectMs", "p99">>}, {}))
      /\ Matches(Avalanche("socketio", "10k", "serverUrl", Recovery, {}))
      /\ Matches(Avalanche("socketio", "15k", "serverUrl", Recovery, {}))
      /\ Matches(Avalanche("socketio", "20k", "serverUrl", Recovery, {}))
      /\ Matches(Avalanche("uws", "10k", "wsUrl", Recovery, {}))
      /\ Matches(Avalanche("uws", "20k", "wsUrl", Recovery, {}))
      /\ Matches(Avalanche("socketio", "25k", "serverUrl", {}, {<<"reconnectRatePct">>}))
  BY <1>1, <1>2, Zenon
<1> QED BY <1>3, FitsOfSeven, Zenon DEF AvalancheTests

\* Every test of the manifest.
LEMMA TestsMatch ==
  ASSUME NEW i \in DOMAIN Tests
  PROVE  Matches(Tests[i])
<1>1. Fits(LatencyTests \o JitterTests)
  BY LatencyFits, JitterFits, ConcatFits
<1>2. Fits((LatencyTests \o JitterTests) \o WhispersTests)
  BY <1>1, WhispersFits, ConcatFits
<1>3. Fits(((LatencyTests \o JitterTests) \o WhispersTests) \o ThroughputTests)
  BY <1>2, ThroughputFits, ConcatFits
<1>4. Fits((((LatencyTests \o JitterTests) \o WhispersTests) \o ThroughputTests) \o IdleTests)
  BY <1>3, IdleFits, ConcatFits
<1>5. Fits(Tests)
  BY <1>4, AvalancheFits, ConcatFits, Zenon DEF Tests
<1> QED BY <1>5, ElementsFit

----------------------------------------------------------------------------
(* The test whose turn it is. *)

LEMMA MinOf ==
  ASSUME NEW T \in SUBSET Nat, T # {}
  PROVE  Min(T) \in T
<1>1. PICK x \in T : \A y \in T : ~ (<<y, x>> \in OpToRel(<, Nat))
  BY WFMin, NatLessThanWellFounded
<1>2. ASSUME NEW y \in T PROVE x <= y
  <2>1. <<y, x>> \notin OpToRel(<, Nat)
    BY <1>1
  <2>2. x \in Nat /\ y \in Nat
    OBVIOUS
  <2>3. ~ (y < x)
    BY <2>1, <2>2 DEF OpToRel
  <2> QED BY <2>2, <2>3
<1> QED BY <1>2 DEF Min

LEMMA Entries ==
  ASSUME NEW i \in DOMAIN Tests
  PROVE  /\ i \in Nat
         /\ Tests[i] \in TestSpec
         /\ Tests[i].baseline \in SUBSET (UNION {Tests[k].baseline : k \in DOMAIN Tests})
<1>1. Tests \in Seq(TestSpec)
  BY ManifestAssumption DEF ManifestAssumption
<1> QED BY <1>1

LEMMA Current ==
  ASSUME TypeOK, Turns, todo # {}
  PROVE  /\ Min(todo) \in todo /\ Min(todo) \in DOMAIN Tests
         /\ Spec0 \in TestSpec /\ Spec0.id \in Shard /\ outcome[Spec0.id] = "none"
         /\ Spec0.mode = "multi-shard" => Spec0.id[1] = "idle"
         /\ Spec0.mode # "multi-shard" => Spec0.id[1] # "idle"
         /\ DeliveryRate \notin Spec0.zero
         /\ Spec0.endpoint \in Endpoint
         /\ Spec0.baseline \in SUBSET (UNION {Tests[i].baseline : i \in DOMAIN Tests})
         /\ \A i \in todo \ {Min(todo)} : Tests[i].id # Spec0.id
<1>1. todo \in SUBSET Nat
  BY Entries DEF TypeOK
<1>2. Min(todo) \in todo /\ Min(todo) \in DOMAIN Tests
  BY <1>1, MinOf DEF TypeOK
<1>3. Spec0 \in TestSpec /\ Spec0.baseline \in SUBSET (UNION {Tests[i].baseline : i \in DOMAIN Tests})
  BY <1>2, Entries DEF Spec0
<1>4. Spec0.id \in Shard /\ outcome[Spec0.id] = "none"
  BY <1>2 DEF Turns, Spec0
<1>5. /\ Spec0.mode = "multi-shard" => Spec0.id[1] = "idle"
      /\ Spec0.mode # "multi-shard" => Spec0.id[1] # "idle"
      /\ DeliveryRate \notin Spec0.zero
  BY <1>2, ManifestAssumption DEF ManifestAssumption, Spec0
<1>6. \A i \in todo \ {Min(todo)} : Tests[i].id # Spec0.id
  BY <1>2, ManifestAssumption DEF ManifestAssumption, Spec0, TypeOK
<1>7. Spec0.endpoint \in Endpoint
  <2>1. Spec0 \in ToSet(Tests)
    BY <1>2 DEF Spec0, ToSet
  <2> QED BY <2>1, RebaselineAssumption DEF RebaselineAssumption
<1> QED BY <1>2, <1>3, <1>4, <1>5, <1>6, <1>7

----------------------------------------------------------------------------
(* Verdicts. *)

LEMMA Verdicts ==
  ASSUME NEW spec, NEW current
  PROVE  Verdict(spec, current) \in Counted
BY DEF Verdict, Counted

\* Only a delivery rate falls, and then nothing but a regression is reported.
LEMMA FallenRegresses ==
  ASSUME NEW fields, NEW current \in Readings(fields), DeliveryRate \notin Spec0.zero,
         NEW f \in DOMAIN current, current[f] = "fallen"
  PROVE  Verdict(Spec0, current) = "regress"
<1>1. f \in Spec0.baseline /\ current[f] \in Value(f)
  BY DEF Readings
<1>2. f = DeliveryRate
  BY <1>1 DEF Value
<1>3. Status(Spec0, f, current) = "regress"
  BY <1>2 DEF Status
<1> QED BY <1>1, <1>3 DEF Verdict

----------------------------------------------------------------------------
(* The steps. *)

\* A result has the fields its test is compared on, but for those of the metrics.
LEMMA FieldsReturned ==
  ASSUME TypeOK, Turns, todo # {}
  PROVE  /\ Spec0.mode # "multi-shard" =>
              \A params : Spec0.baseline \ Returns(Spec0.endpoint[1], params) \subseteq FromMetrics
         /\ Spec0.mode = "multi-shard" =>
              \A metrics : Spec0.baseline \ (TotalsFields \cup metrics) \subseteq FromMetrics
<1>1. Matches(Spec0)
  BY Current, TestsMatch DEF Spec0
<1> QED BY <1>1 DEF Matches, Returns, TotalsFields

\* The current test's turn ends with outcome o.
Report(o) ==
  /\ todo # {} /\ phase \notin {"start", "exited"}
  /\ o \in Counted => Spec0.mode = "multi-shard" \/ bench[Spec0.id] = "resolved"
  /\ outcome' = [outcome EXCEPT ![Spec0.id] = o]
  /\ todo' = todo \ {Min(todo)}
  /\ phase' = "next" /\ request' = NoRequest /\ jobId' = None
  /\ absent' \in [Shard -> SUBSET UNION {Tests[i].baseline : i \in DOMAIN Tests}]
  /\ \A t \in Shard : absent'[t] \subseteq absent[t] \cup FromMetrics
  /\ fell' \subseteq fell \cup {Spec0.id}
  /\ Spec0.id \in fell' => Spec0.id \in fell \/ o = "regress"
  /\ UNCHANGED <<queueVars, deadline, timers, exitCode>>

LEMMA FailReports ==
  ASSUME TypeOK, todo # {}, phase \notin {"start", "exited"}, Fail, UNCHANGED <<queueVars, timers>>
  PROVE  Report("failed")
BY DEF Fail, EndTurn, Report, TypeOK, Counted

LEMMA JudgeReports ==
  ASSUME TypeOK, Turns, todo # {}, phase \notin {"start", "exited"},
         NEW fields, NEW current \in Readings(fields), Judge(current),
         Spec0.mode = "multi-shard" \/ bench[Spec0.id] = "resolved",
         Spec0.baseline \ fields \subseteq FromMetrics,
         UNCHANGED <<queueVars, timers>>
  PROVE  \E o \in Counted \cup {"failed"} : Report(o)
<1>1. CASE Fail
  BY <1>1, FailReports
<1>2. CASE ~ Fail
  <2> DEFINE o == Verdict(Spec0, current)
             lost == {t \in {Spec0.id} : \E f \in DOMAIN current : current[f] = "fallen"}
  <2>1. /\ outcome' = [outcome EXCEPT ![Spec0.id] = o]
        /\ absent' = [absent EXCEPT ![Spec0.id] = Spec0.baseline \ DOMAIN current]
        /\ fell' = fell \cup lost
        /\ EndTurn
    BY <1>2 DEF Judge
  <2>2. o \in Counted
    BY Verdicts
  <2>3. lost # {} => o = "regress"
    BY Current, FallenRegresses
  <2>4. absent' \in [Shard -> SUBSET UNION {Tests[i].baseline : i \in DOMAIN Tests}]
    <3>1. absent \in [Shard -> SUBSET UNION {Tests[i].baseline : i \in DOMAIN Tests}]
      BY DEF TypeOK
    <3>2. Spec0.baseline \in SUBSET (UNION {Tests[i].baseline : i \in DOMAIN Tests})
      BY Current
    <3> DEFINE U == UNION {Tests[i].baseline : i \in DOMAIN Tests}
    <3>3. Spec0.baseline \ DOMAIN current \in SUBSET U
      BY <3>2
    <3> HIDE DEF U
    <3>4. absent \in [Shard -> SUBSET U]
      BY <3>1 DEF U
    <3>5. absent' \in [Shard -> SUBSET U]
      BY <2>1, <3>3, <3>4
    <3> QED BY <3>5 DEF U
  <2>5. lost \subseteq {Spec0.id}
    OBVIOUS
  <2>6. \A t \in Shard : absent'[t] \subseteq absent[t] \cup FromMetrics
    <3>1. absent \in [Shard -> SUBSET UNION {Tests[i].baseline : i \in DOMAIN Tests}]
      BY DEF TypeOK
    <3>2. DOMAIN current = Spec0.baseline \cap fields
      BY DEF Readings
    <3>3. Spec0.baseline \ DOMAIN current \subseteq FromMetrics
      BY <3>2
    <3> QED BY <2>1, <3>1, <3>3
  <2> HIDE DEF o, lost
  <2>7. Report(o)
    BY <2>1, <2>2, <2>3, <2>4, <2>5, <2>6 DEF Report, EndTurn
  <2> QED BY <2>2, <2>7
<1> QED BY <1>1, <1>2

\* The steps that stay within a turn or begin one, but for those of the job maps.
TurnGoesOn ==
  \/ Post
  \/ FetchFails
  \/ GetArrives
  \/ phase = "reply" /\ jobId = None /\ PostGivesJob /\ UNCHANGED queueVars
  \/ phase = "reply" /\ jobId # None /\ PollGoesOn /\ UNCHANGED <<queueVars, timers>>
  \/ /\ phase = "poll" /\ phase' = "get"
     /\ UNCHANGED <<queueVars, timers, todo, request, body, jobId, deadline, reportVars>>
  \/ /\ phase = "next" /\ todo # {} /\ Spec0.mode = "multi-shard" /\ phase' = "shards"
     /\ request' = [endpoint |-> Spec0.endpoint,
                    params |-> Spec0.params \cup {"n", "shard", "async"}]
     /\ UNCHANGED <<queueVars, timers, todo, body, jobId, deadline, reportVars>>

StartOrExit ==
  \/ \E filter \in Filter, dryRun \in BOOLEAN, flags \in SUBSET {"idle", "avalanche"} :
       Start(filter, dryRun, flags)
  \/ Exit

JobSteps ==
  \/ \E id \in JobId : PostArrivesAsync(id)
  \/ PostArrivesSync
  \/ \E t \in Shard, ok \in BOOLEAN : SyncEnds(t, ok)
  \/ \E r \in Runner, id \in JobId, ok \in BOOLEAN : JobSettles(r, id, ok)
  \/ \E r \in Runner : MapSwept(r) \/ RunnerRestarts(r)

Idles == TimePasses \/ (\E t \in Shard : RedeployFires(t)) \/ UNCHANGED vars

LEMMA StepCases ==
  ASSUME TypeOK, Turns, Answers, [Next]_vars
  PROVE  \/ \E o \in Counted \cup {"failed"} : Report(o)
         \/ TurnGoesOn \/ StartOrExit \/ JobSteps \/ Idles
<1> DEFINE Reports == \E o \in Counted \cup {"failed"} : Report(o)
           Goal == Reports \/ TurnGoesOn \/ StartOrExit \/ JobSteps \/ Idles
<1>a. Report("failed") => Reports
  OBVIOUS
<1>1. ASSUME Program PROVE Goal
  <2>1. ASSUME Poll PROVE Goal
    <3>1. phase = "poll" /\ todo # {}
      BY <2>1 DEF Poll, Turns
    <3>2. CASE PollTimedOut
      BY <1>a, <2>1, <3>1, <3>2, FailReports DEF Poll
    <3>3. CASE ~ PollTimedOut
      BY <2>1, <3>1, <3>3 DEF Poll, TurnGoesOn
    <3> QED BY <3>2, <3>3
  <2>2. ASSUME FanOut PROVE Goal
    <3>1. phase = "next" /\ todo # {} /\ Spec0.mode = "multi-shard"
      BY <2>2 DEF FanOut
    <3>2. CASE Urls < NumShards
      BY <1>a, <2>2, <3>1, <3>2, FailReports DEF FanOut
    <3>3. CASE ~ (Urls < NumShards)
      BY <2>2, <3>1, <3>3 DEF FanOut, TurnGoesOn
    <3> QED BY <3>2, <3>3
  <2>3. ASSUME Post PROVE Goal
    BY <2>3 DEF TurnGoesOn
  <2> QED BY <1>1, <2>1, <2>2, <2>3 DEF Program, StartOrExit
<1>2. ASSUME Call PROVE Goal
  <2>1. ASSUME PostReturns PROVE Goal
    <3>1. phase = "reply" /\ jobId = None /\ todo # {} /\ UNCHANGED queueVars
      BY <2>1 DEF PostReturns, Turns
    <3>2. CASE PostThrows
      BY <1>a, <3>1, <3>2, FailReports DEF PostThrows
    <3>3. CASE PostGivesResult
      <4>1. bench[Spec0.id] = "resolved" /\ UNCHANGED <<queueVars, timers>>
        BY <3>1, <3>3 DEF PostGivesResult, Answers
      <4>2. PICK current \in Readings(Returns(Spec0.endpoint[1], request.params)) : Judge(current)
        BY <3>3 DEF PostGivesResult, JudgeResult
      <4>3. Spec0.baseline \ Returns(Spec0.endpoint[1], request.params) \subseteq FromMetrics
        BY <3>1, FieldsReturned DEF Turns
      <4> QED BY <3>1, <4>1, <4>2, <4>3, JudgeReports
    <3>4. CASE PostGivesJob
      BY <3>1, <3>4 DEF TurnGoesOn
    <3> QED BY <2>1, <3>2, <3>3, <3>4 DEF PostReturns
  <2>2. ASSUME PollReturns PROVE Goal
    <3>1. phase = "reply" /\ jobId # None /\ todo # {} /\ UNCHANGED <<queueVars, timers>>
      BY <2>2 DEF PollReturns, Turns
    <3>2. CASE PollThrows
      BY <1>a, <3>1, <3>2, FailReports DEF PollThrows
    <3>3. CASE PollGivesResult
      <4>1. bench[Spec0.id] = "resolved"
        BY <3>1, <3>3 DEF PollGivesResult, Answers
      <4>2. PICK current \in Readings(Returns(Spec0.endpoint[1], request.params)) : Judge(current)
        BY <3>3 DEF PollGivesResult, JudgeResult
      <4>3. Spec0.baseline \ Returns(Spec0.endpoint[1], request.params) \subseteq FromMetrics
        BY <3>1, FieldsReturned DEF Turns
      <4> QED BY <3>1, <4>1, <4>2, <4>3, JudgeReports
    <3>4. CASE PollGoesOn
      BY <3>1, <3>4 DEF TurnGoesOn
    <3> QED BY <2>2, <3>2, <3>3, <3>4 DEF PollReturns
  <2> QED BY <1>2, <2>1, <2>2 DEF Call, TurnGoesOn, JobSteps
<1>3. ASSUME Shards PROVE Goal
  <2>1. PICK done \in 0..NumShards, memory \in BOOLEAN, cpu \in BOOLEAN :
          ShardsReturn(done, memory, cpu)
    BY <1>3 DEF Shards
  <2> DEFINE fields == TotalsFields \cup MetricFields(done > 0, memory, cpu)
  <2>2. /\ phase = "shards" /\ UNCHANGED <<queueVars, timers>>
        /\ \E current \in Readings(fields) : Judge(current)
    BY <2>1 DEF ShardsReturn
  <2>3. todo # {} /\ Spec0.mode = "multi-shard"
    BY <2>2 DEF Turns
  <2>4. Spec0.baseline \ fields \subseteq FromMetrics
    BY <2>3, FieldsReturned
  <2> HIDE DEF fields
  <2> QED BY <2>2, <2>3, <2>4, JudgeReports
<1>4. CASE Next
  BY <1>1, <1>2, <1>3, <1>4 DEF Next, JobSteps, Idles, Exited
<1>5. CASE UNCHANGED vars
  BY <1>5 DEF Idles
<1> QED BY <1>4, <1>5

----------------------------------------------------------------------------
(* The job maps. *)

LEMMA QueueTypeStep ==
  ASSUME TypeOK, Turns, JobSteps
  PROVE  QueueTypeOK'
<1> USE JobQueueAssumption DEF QueueTypeOK, TypeOK
<1>1. ASSUME NEW id \in JobId, PostArrivesAsync(id) PROVE QueueTypeOK'
  <2>1. Spec0.id \in Shard
    BY <1>1, Current DEF PostArrivesAsync, Turns
  <2> QED BY <1>1, <2>1 DEF PostArrivesAsync, StartJob, NewJobIds, Job, BenchState
<1>2. ASSUME PostArrivesSync PROVE QueueTypeOK'
  BY <1>2 DEF PostArrivesSync, BenchState
<1>3. ASSUME NEW t \in Shard, NEW ok \in BOOLEAN, SyncEnds(t, ok) PROVE QueueTypeOK'
  BY <1>3 DEF SyncEnds, BenchState
<1>4. ASSUME NEW r \in Runner, NEW id \in JobId, NEW ok \in BOOLEAN, JobSettles(r, id, ok)
      PROVE  QueueTypeOK'
  BY <1>4 DEF JobSettles, Settle, Job, BenchState
<1>5. ASSUME NEW r \in Runner, MapSwept(r) PROVE QueueTypeOK'
  BY <1>5 DEF MapSwept, Sweep, Restrict, Job
<1>6. ASSUME NEW r \in Runner, RunnerRestarts(r) PROVE QueueTypeOK'
  BY <1>6 DEF RunnerRestarts, Restart, BenchState
<1> QED BY <1>1, <1>2, <1>3, <1>4, <1>5, <1>6 DEF JobSteps

\* The test of a turn that posts has no bench yet, and so no job.
LEMMA Unstarted ==
  ASSUME TypeOK, Turns, JobsAreTrue, Benches, phase = "post"
  PROVE  /\ todo # {} /\ Spec0.id \in Shard /\ bench[Spec0.id] = "none"
         /\ \A r \in Runner : \A id \in DOMAIN jobs[r] : jobs[r][id].shard # Spec0.id
<1>1. todo # {} /\ Spec0.id \in Shard /\ outcome[Spec0.id] = "none"
  BY Current DEF Turns
<1>2. bench[Spec0.id] = "none"
  BY <1>1 DEF Benches
<1>3. ASSUME NEW r \in Runner, NEW id \in DOMAIN jobs[r] PROVE jobs[r][id].shard # Spec0.id
  <2>1. jobs[r][id].status \in {"running", "done", "failed"}
    BY DEF TypeOK, QueueTypeOK, Job
  <2>2. bench[jobs[r][id].shard] \in {"running", "resolved", "rejected"}
    BY <2>1 DEF JobsAreTrue, JobIsTrue
  <2> QED BY <1>2, <2>2
<1> QED BY <1>1, <1>2, <1>3

LEMMA JobsStep ==
  ASSUME TypeOK, Turns, JobsAreTrue, Benches, JobSteps
  PROVE  JobsAreTrue'
<1>0. /\ DOMAIN jobs = Runner
      /\ \A r \in Runner : DOMAIN jobs[r] \subseteq used
      /\ \A r \in Runner : \A id \in DOMAIN jobs[r] :
           jobs[r][id].shard \in Shard /\ jobs[r][id].status \in {"running", "done", "failed"}
      /\ bench \in [Shard -> BenchState]
      /\ RunnerOf \in [Shard -> Runner]
  BY JobQueueAssumption DEF JobQueueAssumption, TypeOK, QueueTypeOK, Job
<1>1. ASSUME NEW id \in JobId, PostArrivesAsync(id) PROVE JobsAreTrue'
  <2> DEFINE t == Spec0.id
             q == RunnerOf[t]
  <2>1. /\ t \in Shard /\ q \in Runner
        /\ \A r \in Runner : \A i \in DOMAIN jobs[r] : jobs[r][i].shard # t
    BY <1>0, <1>1, Unstarted DEF PostArrivesAsync
  <2> HIDE DEF t, q
  <2>2. /\ id \notin used
        /\ jobs' = [jobs EXCEPT ![q] =
             [i \in DOMAIN jobs[q] \cup {id} |->
                IF i = id THEN [shard |-> t, status |-> "running", endedAt |-> None]
                ELSE jobs[q][i]]]
        /\ bench' = [bench EXCEPT ![t] = "running"]
    BY <1>1 DEF PostArrivesAsync, StartJob, NewJobIds, t, q
  <2>3. /\ \A r \in Runner \ {q} : jobs'[r] = jobs[r]
        /\ DOMAIN jobs'[q] = DOMAIN jobs[q] \cup {id}
        /\ jobs'[q][id] = [shard |-> t, status |-> "running", endedAt |-> None]
        /\ \A i \in DOMAIN jobs[q] : jobs'[q][i] = jobs[q][i]
    BY <1>0, <2>1, <2>2
  <2>4. bench'[t] = "running" /\ \A u \in Shard \ {t} : bench'[u] = bench[u]
    BY <1>0, <2>1, <2>2
  <2>5. ASSUME NEW r \in Runner, NEW i \in DOMAIN jobs'[r] PROVE JobIsTrue(r, i)'
    <3>1. CASE r = q /\ i = id
      BY <2>3, <2>4, <3>1 DEF JobIsTrue, q
    <3>2. CASE ~ (r = q /\ i = id)
      <4>1. i \in DOMAIN jobs[r] /\ jobs'[r][i] = jobs[r][i]
        BY <2>3, <2>5, <3>2
      <4>2. jobs[r][i].shard \in Shard \ {t} /\ JobIsTrue(r, i)
        BY <1>0, <2>1, <4>1 DEF JobsAreTrue
      <4> QED BY <2>4, <4>1, <4>2 DEF JobIsTrue
    <3> QED BY <3>1, <3>2
  <2>6. ASSUME NEW r \in Runner, NEW i \in DOMAIN jobs'[r], NEW k \in DOMAIN jobs'[r],
               jobs'[r][i].shard = jobs'[r][k].shard
        PROVE  i = k
    BY <2>1, <2>3, <2>6 DEF JobsAreTrue
  <2> QED BY <2>5, <2>6 DEF JobsAreTrue
<1>2. ASSUME PostArrivesSync PROVE JobsAreTrue'
  <2>1. /\ Spec0.id \in Shard
        /\ \A r \in Runner : \A i \in DOMAIN jobs[r] : jobs[r][i].shard # Spec0.id
    BY <1>2, Unstarted DEF PostArrivesSync
  <2>2. jobs' = jobs /\ \A u \in Shard \ {Spec0.id} : bench'[u] = bench[u]
    BY <1>0, <1>2, <2>1 DEF PostArrivesSync
  <2> QED BY <1>0, <2>1, <2>2 DEF JobsAreTrue, JobIsTrue
<1>3. ASSUME NEW t \in Shard, NEW ok \in BOOLEAN, SyncEnds(t, ok) PROVE JobsAreTrue'
  <2>1. /\ \A r \in Runner : \A i \in DOMAIN jobs[r] : jobs[r][i].shard # t
        /\ jobs' = jobs /\ \A u \in Shard \ {t} : bench'[u] = bench[u]
    BY <1>0, <1>3 DEF SyncEnds, InRequest
  <2> QED BY <1>0, <2>1 DEF JobsAreTrue, JobIsTrue
<1>4. ASSUME NEW r0 \in Runner, NEW id \in JobId, NEW ok \in BOOLEAN, JobSettles(r0, id, ok)
      PROVE  JobsAreTrue'
  <2> DEFINE t == jobs[r0][id].shard
             ended == [shard |-> t, status |-> IF ok THEN "done" ELSE "failed", endedAt |-> now]
  <2>1. /\ id \in DOMAIN jobs[r0] /\ t \in Shard
        /\ jobs' = [jobs EXCEPT ![r0] = [jobs[r0] EXCEPT ![id] = ended]]
        /\ bench' = [bench EXCEPT ![t] = IF ok THEN "resolved" ELSE "rejected"]
    BY <1>0, <1>4 DEF JobSettles, Settle
  <2>2. /\ ended.shard = t /\ ended.status = (IF ok THEN "done" ELSE "failed")
        /\ RunnerOf[t] = r0
    BY <2>1 DEF JobsAreTrue, JobIsTrue
  <2> HIDE DEF t, ended
  <2>3. /\ \A r \in Runner : DOMAIN jobs'[r] = DOMAIN jobs[r]
        /\ jobs'[r0][id] = ended
        /\ \A r \in Runner : \A i \in DOMAIN jobs[r] :
             ~ (r = r0 /\ i = id) => jobs'[r][i] = jobs[r][i]
    BY <1>0, <2>1
  <2>4. /\ bench'[t] = (IF ok THEN "resolved" ELSE "rejected")
        /\ \A u \in Shard \ {t} : bench'[u] = bench[u]
    BY <1>0, <2>1
  <2>5. ASSUME NEW r \in Runner, NEW i \in DOMAIN jobs[r], ~ (r = r0 /\ i = id)
        PROVE  jobs[r][i].shard # t
    <3>1. RunnerOf[jobs[r][i].shard] = r
      BY DEF JobsAreTrue, JobIsTrue
    <3>2. r = r0 => jobs[r][i].shard # jobs[r0][id].shard
      BY <2>1, <2>5 DEF JobsAreTrue
    <3> QED BY <2>2, <3>1, <3>2 DEF t
  <2>6. ASSUME NEW r \in Runner, NEW i \in DOMAIN jobs'[r] PROVE JobIsTrue(r, i)'
    <3>1. CASE r = r0 /\ i = id
      BY <2>2, <2>3, <2>4, <3>1 DEF JobIsTrue
    <3>2. CASE ~ (r = r0 /\ i = id)
      <4>1. i \in DOMAIN jobs[r] /\ jobs'[r][i] = jobs[r][i]
        BY <2>3, <2>6, <3>2
      <4>2. jobs[r][i].shard \in Shard \ {t} /\ JobIsTrue(r, i)
        BY <1>0, <2>5, <3>2, <4>1 DEF JobsAreTrue
      <4> QED BY <2>4, <4>1, <4>2 DEF JobIsTrue
    <3> QED BY <3>1, <3>2
  <2>7. \A r \in Runner : \A i \in DOMAIN jobs[r] : jobs'[r][i].shard = jobs[r][i].shard
    BY <2>2, <2>3 DEF t
  <2>8. ASSUME NEW r \in Runner, NEW i \in DOMAIN jobs'[r], NEW k \in DOMAIN jobs'[r],
               jobs'[r][i].shard = jobs'[r][k].shard
        PROVE  i = k
    <3>1. i \in DOMAIN jobs[r] /\ k \in DOMAIN jobs[r]
      BY <2>3
    <3>2. jobs[r][i].shard = jobs[r][k].shard
      BY <2>7, <2>8, <3>1
    <3> QED BY <3>1, <3>2 DEF JobsAreTrue
  <2> QED BY <2>6, <2>8 DEF JobsAreTrue
<1>5. ASSUME NEW r0 \in Runner, MapSwept(r0) PROVE JobsAreTrue'
  <2>1. /\ bench' = bench
        /\ \A r \in Runner : /\ DOMAIN jobs'[r] \subseteq DOMAIN jobs[r]
                             /\ \A i \in DOMAIN jobs'[r] : jobs'[r][i] = jobs[r][i]
    BY <1>0, <1>5 DEF MapSwept, Sweep, Restrict
  <2> QED BY <2>1 DEF JobsAreTrue, JobIsTrue
<1>6. ASSUME NEW r0 \in Runner, RunnerRestarts(r0) PROVE JobsAreTrue'
  <2>1. /\ DOMAIN jobs'[r0] = {} /\ \A r \in Runner \ {r0} : jobs'[r] = jobs[r]
        /\ \A t \in Shard : RunnerOf[t] # r0 => bench'[t] = bench[t]
    BY <1>0, <1>6 DEF RunnerRestarts, Restart
  <2> QED BY <1>0, <2>1 DEF JobsAreTrue, JobIsTrue
<1> QED BY <1>1, <1>2, <1>3, <1>4, <1>5, <1>6 DEF JobSteps

\* What the job maps do to the benches: a bench that ended stays as it ended, and
\* none but the current test's begins.
LEMMA BenchStep ==
  ASSUME TypeOK, Turns, JobsAreTrue, Benches, JobSteps, NEW t \in Shard
  PROVE  /\ bench[t] = "resolved" => bench'[t] = "resolved"
         /\ bench[t] = "none" /\ bench'[t] # "none" =>
              phase = "post" /\ t = Spec0.id /\ phase' \in {"sync", "reply"}
<1>0. bench \in [Shard -> BenchState]
  BY DEF TypeOK, QueueTypeOK
<1> DEFINE Goal == /\ bench[t] = "resolved" => bench'[t] = "resolved"
                   /\ bench[t] = "none" /\ bench'[t] # "none" =>
                        phase = "post" /\ t = Spec0.id /\ phase' \in {"sync", "reply"}
<1>1. ASSUME NEW id \in JobId, PostArrivesAsync(id) PROVE Goal
  <2>1. phase = "post" /\ bench[Spec0.id] = "none" /\ Spec0.id \in Shard
    BY <1>1, Unstarted DEF PostArrivesAsync
  <2> QED BY <1>0, <1>1, <2>1 DEF PostArrivesAsync, StartJob
<1>2. ASSUME PostArrivesSync PROVE Goal
  <2>1. phase = "post" /\ bench[Spec0.id] = "none" /\ Spec0.id \in Shard
    BY <1>2, Unstarted DEF PostArrivesSync
  <2> QED BY <1>0, <1>2, <2>1 DEF PostArrivesSync
<1>3. ASSUME NEW u \in Shard, NEW ok \in BOOLEAN, SyncEnds(u, ok) PROVE Goal
  BY <1>0, <1>3 DEF SyncEnds, InRequest
<1>4. ASSUME NEW r \in Runner, NEW id \in JobId, NEW ok \in BOOLEAN, JobSettles(r, id, ok)
      PROVE  Goal
  <2>1. bench[jobs[r][id].shard] = "running"
    BY <1>4 DEF JobSettles, Settle, JobsAreTrue, JobIsTrue
  <2> QED BY <1>0, <1>4, <2>1 DEF JobSettles, Settle
<1>5. ASSUME NEW r \in Runner, MapSwept(r) PROVE Goal
  BY <1>5 DEF MapSwept, Sweep
<1>6. ASSUME NEW r \in Runner, RunnerRestarts(r) PROVE Goal
  BY <1>0, <1>6 DEF RunnerRestarts, Restart
<1> QED BY <1>1, <1>2, <1>3, <1>4, <1>5, <1>6 DEF JobSteps

\* What they leave alone.
LEMMA JobFrame ==
  ASSUME JobSteps
  PROVE  /\ UNCHANGED <<todo, request, jobId, deadline, timers, outcome, absent, fell, exitCode>>
         /\ \/ UNCHANGED <<phase, body>>
            \/ phase = "post" /\ phase' \in {"sync", "reply"}
            \/ phase = "sync" /\ phase' = "reply"
<1> USE DEF reportVars, turnVars
<1> DEFINE Goal ==
      /\ UNCHANGED <<todo, request, jobId, deadline, timers, outcome, absent, fell, exitCode>>
      /\ \/ UNCHANGED <<phase, body>>
         \/ phase = "post" /\ phase' \in {"sync", "reply"}
         \/ phase = "sync" /\ phase' = "reply"
<1>1. ASSUME NEW id \in JobId, PostArrivesAsync(id) PROVE Goal
  BY <1>1 DEF PostArrivesAsync
<1>2. ASSUME PostArrivesSync PROVE Goal
  BY <1>2 DEF PostArrivesSync
<1>3. ASSUME NEW t \in Shard, NEW ok \in BOOLEAN, SyncEnds(t, ok) PROVE Goal
  BY <1>3 DEF SyncEnds
<1>4. ASSUME NEW r \in Runner, NEW id \in JobId, NEW ok \in BOOLEAN, JobSettles(r, id, ok)
      PROVE  Goal
  BY <1>4 DEF JobSettles
<1>5. ASSUME NEW r \in Runner, MapSwept(r) PROVE Goal
  BY <1>5 DEF MapSwept
<1>6. ASSUME NEW r \in Runner, RunnerRestarts(r) PROVE Goal
  BY <1>6 DEF RunnerRestarts
<1> QED BY <1>1, <1>2, <1>3, <1>4, <1>5, <1>6 DEF JobSteps

\* An id that names a job of t goes on naming none but jobs of t.
LEMMA IdStable ==
  ASSUME TypeOK, Turns, JobSteps, NEW t, NEW i, IdOf(t, i)
  PROVE  /\ i \in used'
         /\ \A r \in Runner : i \in DOMAIN jobs'[r] => jobs'[r][i].shard = t
<1>0. /\ DOMAIN jobs = Runner
      /\ RunnerOf \in [Shard -> Runner]
  BY JobQueueAssumption DEF JobQueueAssumption, TypeOK, QueueTypeOK
<1> DEFINE Goal == /\ i \in used'
                   /\ \A r \in Runner : i \in DOMAIN jobs'[r] => jobs'[r][i].shard = t
<1>1. ASSUME NEW id \in JobId, PostArrivesAsync(id) PROVE Goal
  <2>1. Spec0.id \in Shard
    BY <1>1, Current DEF PostArrivesAsync, Turns
  <2> DEFINE q == RunnerOf[Spec0.id]
             job == [shard |-> Spec0.id, status |-> "running", endedAt |-> None]
  <2>2. q \in Runner
    BY <1>0, <2>1
  <2>3. /\ id \notin used /\ used' = used \cup {id}
        /\ jobs' = [jobs EXCEPT ![q] =
             [k \in DOMAIN jobs[q] \cup {id} |-> IF k = id THEN job ELSE jobs[q][k]]]
    BY <1>1 DEF PostArrivesAsync, StartJob, NewJobIds
  <2> HIDE DEF q, job
  <2>4. i # id
    BY <2>3 DEF IdOf
  <2> QED BY <1>0, <2>2, <2>3, <2>4 DEF IdOf
<1>2. ASSUME PostArrivesSync PROVE Goal
  BY <1>2 DEF PostArrivesSync, IdOf
<1>3. ASSUME NEW u \in Shard, NEW ok \in BOOLEAN, SyncEnds(u, ok) PROVE Goal
  BY <1>3 DEF SyncEnds, IdOf
<1>4. ASSUME NEW r \in Runner, NEW id \in JobId, NEW ok \in BOOLEAN, JobSettles(r, id, ok)
      PROVE  Goal
  BY <1>0, <1>4 DEF JobSettles, Settle, IdOf
<1>5. ASSUME NEW r \in Runner, MapSwept(r) PROVE Goal
  BY <1>0, <1>5 DEF MapSwept, Sweep, Restrict, IdOf
<1>6. ASSUME NEW r \in Runner, RunnerRestarts(r) PROVE Goal
  BY <1>0, <1>6 DEF RunnerRestarts, Restart, IdOf
<1> QED BY <1>1, <1>2, <1>3, <1>4, <1>5, <1>6 DEF JobSteps

----------------------------------------------------------------------------
(* Every step. *)

\* A step within a turn keeps the tests to run and what was reported of them.
LEMMA TurnFrame ==
  ASSUME TurnGoesOn
  PROVE  UNCHANGED <<queueVars, todo, outcome, absent, fell, exitCode>>
<1> USE DEF reportVars
<1>1. CASE Post
  BY <1>1 DEF Post
<1>2. CASE FetchFails
  BY <1>2 DEF FetchFails
<1>3. CASE GetArrives
  BY <1>3 DEF GetArrives
<1>4. CASE PostGivesJob /\ UNCHANGED queueVars
  BY <1>4 DEF PostGivesJob
<1>5. CASE PollGoesOn /\ UNCHANGED queueVars
  BY <1>5 DEF PollGoesOn
<1> QED BY <1>1, <1>2, <1>3, <1>4, <1>5 DEF TurnGoesOn

LEMMA IdlesFrame ==
  ASSUME Idles
  PROVE  UNCHANGED <<jobs, used, bench, restarts, todo, phase, request, body, jobId, deadline,
                     outcome, absent, fell, exitCode>>
<1> USE DEF turnVars, reportVars, queueVars
<1>1. CASE TimePasses
  BY <1>1 DEF TimePasses, Tick
<1>2. ASSUME NEW t \in Shard, RedeployFires(t)
      PROVE  UNCHANGED <<jobs, used, bench, restarts, todo, phase, request, body, jobId, deadline,
                         outcome, absent, fell, exitCode>>
  BY <1>2 DEF RedeployFires
<1>3. CASE UNCHANGED vars
  BY <1>3 DEF vars
<1> QED BY <1>1, <1>2, <1>3 DEF Idles

LEMMA TypeStep ==
  ASSUME Inv, [Next]_vars
  PROVE  TypeOK'
<1> USE DEF Inv
<1>1. ASSUME NEW o \in Counted \cup {"failed"}, Report(o) PROVE TypeOK'
  <2>1. /\ Spec0.id \in Shard /\ fell \subseteq Shard
        /\ outcome \in [Shard -> {"none", "ok", "drift", "regress", "failed"}]
    BY <1>1, Current DEF Report, TypeOK
  <2>2. outcome' \in [Shard -> {"none", "ok", "drift", "regress", "failed"}] /\ fell' \subseteq Shard
    BY <1>1, <2>1 DEF Report, Counted
  <2>3. absent' \in [Shard -> SUBSET UNION {Tests[i].baseline : i \in DOMAIN Tests}]
    BY <1>1 DEF Report
  <2>4. QueueTypeOK'
    BY <1>1 DEF Report, TypeOK, QueueTypeOK, queueVars
  <2>5. /\ todo' \subseteq DOMAIN Tests /\ phase' = "next" /\ request' = NoRequest /\ jobId' = None
        /\ deadline' \in Nat /\ DOMAIN timers' \subseteq Shard /\ exitCode' \in {None, 0, 1}
    BY <1>1 DEF Report, TypeOK
  <2> QED BY <2>2, <2>3, <2>4, <2>5 DEF TypeOK
<1>2. ASSUME TurnGoesOn PROVE TypeOK'
  <2>1. UNCHANGED <<queueVars, todo, outcome, absent, fell, exitCode>>
    BY <1>2, TurnFrame
  <2>2. QueueTypeOK'
    BY <2>1 DEF TypeOK, QueueTypeOK, queueVars
  <2>3. /\ phase' \in {"post", "reply", "get", "poll", "shards"}
        /\ request' = NoRequest \/ request'.endpoint \in Endpoint
        /\ jobId' \in JobId \cup {None}
        /\ deadline' \in Nat
        /\ DOMAIN timers' \subseteq Shard
    <3> DEFINE Goal ==
          /\ phase' \in {"post", "reply", "get", "poll", "shards"}
          /\ request' = NoRequest \/ request'.endpoint \in Endpoint
          /\ jobId' \in JobId \cup {None}
          /\ deadline' \in Nat
          /\ DOMAIN timers' \subseteq Shard
    <3>1. ASSUME Post PROVE Goal
      <4>1. Spec0.endpoint \in Endpoint
        BY <3>1, Current DEF Post
      <4> QED BY <3>1, <4>1 DEF Post, TypeOK
    <3>2. ASSUME FetchFails PROVE Goal
      BY <3>2 DEF FetchFails, TypeOK
    <3>3. ASSUME GetArrives PROVE Goal
      BY <3>3 DEF GetArrives, TypeOK
    <3>4. ASSUME phase = "reply", PostGivesJob PROVE Goal
      <4>1. Spec0.id \in Shard
        BY <3>4, Current DEF Turns
      <4>2. body.jobId \in JobId
        BY <3>4 DEF PostGivesJob, Answers, IdOf, TypeOK, QueueTypeOK
      <4>3. deadline' \in Nat
        <5>1. now \in Nat /\ PollDeadline \in Nat /\ MaxClock \in Nat
          BY JobQueueAssumption, RebaselineAssumption
          DEF JobQueueAssumption, RebaselineAssumption, TypeOK, QueueTypeOK
        <5>2. deadline' = now + PollDeadline \/ deadline' = MaxClock
          BY <3>4 DEF PostGivesJob
        <5> QED BY <5>1, <5>2
      <4>4. DOMAIN timers' \subseteq DOMAIN timers \cup {Spec0.id}
        BY <3>4 DEF PostGivesJob
      <4>5. /\ phase' = "poll" /\ jobId' = body.jobId /\ request' = request
            /\ DOMAIN timers \subseteq Shard
            /\ request = NoRequest \/ request.endpoint \in Endpoint
        BY <3>4 DEF PostGivesJob, TypeOK
      <4> QED BY <4>1, <4>2, <4>3, <4>4, <4>5
    <3>5. ASSUME PollGoesOn, UNCHANGED timers PROVE Goal
      BY <3>5 DEF PollGoesOn, TypeOK
    <3>6. ASSUME phase' \in {"get", "shards"}, request' = request \/ request'.endpoint = Spec0.endpoint,
                 phase' = "shards" => todo # {}, request' # request => phase' = "shards",
                 UNCHANGED <<timers, jobId, deadline>>
          PROVE  Goal
      <4>1. phase' = "shards" => Spec0.endpoint \in Endpoint
        BY <3>6, Current
      <4> QED BY <3>6, <4>1 DEF TypeOK
    <3> QED BY <1>2, <3>1, <3>2, <3>3, <3>4, <3>5, <3>6 DEF TurnGoesOn
  <2> QED BY <2>1, <2>2, <2>3 DEF TypeOK
<1>3. ASSUME StartOrExit PROVE TypeOK'
  <2>1. QueueTypeOK'
    BY <1>3 DEF StartOrExit, Start, Exit, TypeOK, QueueTypeOK, queueVars
  <2>2. ASSUME NEW filter \in Filter, NEW dryRun \in BOOLEAN,
               NEW flags \in SUBSET {"idle", "avalanche"}, Start(filter, dryRun, flags)
        PROVE  TypeOK'
    BY <2>1, <2>2 DEF Start, Selected, TypeOK
  <2>3. ASSUME Exit PROVE TypeOK'
    BY <2>1, <2>3 DEF Exit, TypeOK
  <2> QED BY <1>3, <2>2, <2>3 DEF StartOrExit
<1>4. ASSUME JobSteps PROVE TypeOK'
  <2>1. QueueTypeOK'
    BY <1>4, QueueTypeStep
  <2>2. UNCHANGED <<todo, request, jobId, deadline, timers, outcome, absent, fell, exitCode>>
    BY <1>4, JobFrame
  <2>3. phase' = phase \/ phase' \in {"sync", "reply"}
    BY <1>4, JobFrame
  <2> QED BY <2>1, <2>2, <2>3 DEF TypeOK
<1>5. ASSUME Idles PROVE TypeOK'
  <2>1. UNCHANGED <<jobs, used, bench, restarts, todo, phase, request, body, jobId, deadline,
                    outcome, absent, fell, exitCode>>
    BY <1>5, IdlesFrame
  <2>2. now' \in Nat
    <3>1. now \in Nat
      BY DEF TypeOK, QueueTypeOK
    <3>2. CASE TimePasses
      BY <3>1, <3>2 DEF TimePasses, Tick
    <3>3. CASE UNCHANGED now
      BY <3>1, <3>3
    <3> QED BY <1>5, <3>2, <3>3 DEF Idles, RedeployFires, vars, queueVars
  <2>3. DOMAIN timers' \subseteq Shard
    BY <1>5 DEF Idles, TimePasses, RedeployFires, vars, TypeOK
  <2> QED BY <2>1, <2>2, <2>3 DEF TypeOK, QueueTypeOK
<1> QED BY <1>1, <1>2, <1>3, <1>4, <1>5, StepCases

LEMMA TurnsStep ==
  ASSUME Inv, [Next]_vars
  PROVE  Turns'
<1> USE DEF Inv
<1>1. ASSUME NEW o \in Counted \cup {"failed"}, Report(o) PROVE Turns'
  <2>1. \A i \in todo \ {Min(todo)} : Tests[i].id # Spec0.id
    BY <1>1, Current DEF Report
  <2>2. ASSUME NEW i \in todo' PROVE Tests[i].id \in Shard /\ outcome'[Tests[i].id] = "none"
    BY <1>1, <2>1 DEF Report, Turns, TypeOK
  <2>3. phase' = "next" /\ jobId' = None
    BY <1>1 DEF Report
  <2> QED BY <2>2, <2>3 DEF Turns
<1>2. ASSUME TurnGoesOn PROVE Turns'
  <2>1. UNCHANGED <<todo, outcome, fell>> /\ Spec0' = Spec0
    BY <1>2, TurnFrame DEF Spec0
  <2>2. /\ phase' \in {"post", "reply", "get", "poll", "shards"}
        /\ todo # {}
        /\ phase' = "shards" => Spec0.mode = "multi-shard"
        /\ phase' # "shards" => Spec0.mode # "multi-shard"
        /\ jobId' # None => phase' \in {"poll", "get", "reply"}
    <3> DEFINE Goal ==
          /\ phase' \in {"post", "reply", "get", "poll", "shards"}
          /\ todo # {}
          /\ phase' = "shards" => Spec0.mode = "multi-shard"
          /\ phase' # "shards" => Spec0.mode # "multi-shard"
          /\ jobId' # None => phase' \in {"poll", "get", "reply"}
    <3>1. ASSUME Post PROVE Goal
      BY <3>1 DEF Post, Turns
    <3>2. ASSUME FetchFails PROVE Goal
      BY <3>2 DEF FetchFails, Turns
    <3>3. ASSUME GetArrives PROVE Goal
      BY <3>3 DEF GetArrives, Turns
    <3>4. ASSUME phase = "reply", PostGivesJob PROVE Goal
      BY <3>4 DEF PostGivesJob, Turns
    <3>5. ASSUME phase = "reply", PollGoesOn PROVE Goal
      BY <3>5 DEF PollGoesOn, Turns
    <3> QED BY <1>2, <3>1, <3>2, <3>3, <3>4, <3>5 DEF TurnGoesOn, Turns
  <2> QED BY <2>1, <2>2 DEF Turns
<1>3. ASSUME NEW filter \in Filter, NEW dryRun \in BOOLEAN,
             NEW flags \in SUBSET {"idle", "avalanche"}, Start(filter, dryRun, flags)
      PROVE  Turns'
  <2>1. todo' = Selected(filter, flags) /\ phase' \in {"exited", "next"} /\ UNCHANGED <<outcome, jobId>>
    BY <1>3 DEF Start
  <2>2. ASSUME NEW i \in todo' PROVE Tests[i].id \in Shard
    <3>1. Tests[i] \in ToSet(Tests) /\ MatchesFilter(filter, Tests[i])
      BY <2>1 DEF Selected, ToSet
    <3> QED BY <3>1, RebaselineAssumption DEF RebaselineAssumption
  <2>3. jobId = None /\ \A t \in Shard : outcome[t] = "none"
    BY <1>3 DEF Start, Turns
  <2> QED BY <2>1, <2>2, <2>3 DEF Turns
<1>4. ASSUME Exit PROVE Turns'
  BY <1>4 DEF Exit, Turns
<1>5. ASSUME JobSteps PROVE Turns'
  <2>1. UNCHANGED <<todo, outcome, fell, jobId>> /\ Spec0' = Spec0
    BY <1>5, JobFrame DEF Spec0
  <2>2. phase' = phase \/ (phase \in {"post", "sync"} /\ phase' \in {"sync", "reply"})
    BY <1>5, JobFrame
  <2> QED BY <2>1, <2>2 DEF Turns
<1>6. ASSUME Idles PROVE Turns'
  <2>1. UNCHANGED <<todo, outcome, fell, jobId, phase>> /\ Spec0' = Spec0
    BY <1>6, IdlesFrame DEF Spec0
  <2> QED BY <2>1 DEF Turns
<1> QED BY <1>1, <1>2, <1>3, <1>4, <1>5, <1>6, StepCases DEF StartOrExit

LEMMA AnswersStep ==
  ASSUME Inv, [Next]_vars
  PROVE  Answers'
<1> USE DEF Inv
<1>1. ASSUME NEW o \in Counted \cup {"failed"}, Report(o) PROVE Answers'
  BY <1>1 DEF Report, Answers
<1>2. ASSUME TurnGoesOn PROVE Answers'
  <2>1. UNCHANGED <<queueVars, todo>> /\ Spec0' = Spec0
    BY <1>2, TurnFrame DEF Spec0
  <2>2. UNCHANGED <<jobs, used, bench>>
    BY <2>1 DEF queueVars
  <2>3. \A i : IdOf(Spec0.id, i) => /\ i \in used'
                                    /\ \A r \in Runner : i \in DOMAIN jobs'[r] =>
                                         jobs'[r][i].shard = Spec0.id
    BY <2>2 DEF IdOf
  <2> DEFINE Goal ==
        /\ jobId' # None => IdOf(Spec0.id, jobId')
        /\ phase' = "reply" =>
             /\ "jobId" \in DOMAIN body' => IdOf(Spec0.id, body'.jobId)
             /\ "result" \in DOMAIN body' => bench[Spec0.id] = "resolved"
  <2>4. ASSUME Post PROVE Goal
    BY <2>4 DEF Post, Turns
  <2>5. ASSUME FetchFails PROVE Goal
    BY <2>5 DEF FetchFails, NoBody, Answers
  <2>6. ASSUME GetArrives PROVE Goal
    <3> DEFINE r == RunnerOf[Spec0.id]
    <3>1. Spec0.id \in Shard /\ phase = "get" /\ body' = JobResponse(r, jobId) /\ jobId' = jobId
      BY <2>6, Current DEF GetArrives, Turns
    <3>2. r \in Runner
      BY <3>1, JobQueueAssumption DEF JobQueueAssumption
    <3> HIDE DEF r
    <3>3. CASE jobId \notin DOMAIN jobs[r]
      BY <3>1, <3>3 DEF JobResponse, Answers
    <3>4. CASE jobId \in DOMAIN jobs[r]
      <4>1. /\ jobs[r][jobId].status \in {"running", "done", "failed"}
            /\ jobId # None
        BY <3>2, <3>4, JobQueueAssumption DEF JobQueueAssumption, TypeOK, QueueTypeOK, Job
      <4>2. jobs[r][jobId].shard = Spec0.id /\ JobIsTrue(r, jobId)
        BY <3>2, <3>4, <4>1 DEF Answers, IdOf, JobsAreTrue
      <4>3. "jobId" \notin DOMAIN body'
        BY <3>1, <3>4, <4>1 DEF JobResponse
      <4>4. "result" \in DOMAIN body' => jobs[r][jobId].status = "done"
        BY <3>1, <3>4, <4>1 DEF JobResponse
      <4> QED BY <3>1, <4>2, <4>3, <4>4 DEF Answers, JobIsTrue
    <3> QED BY <3>3, <3>4
  <2>7. ASSUME phase = "reply", PostGivesJob PROVE Goal
    BY <2>7 DEF PostGivesJob, Answers
  <2>8. ASSUME PollGoesOn PROVE Goal
    BY <2>8 DEF PollGoesOn, Answers
  <2>9. ASSUME phase' \in {"get", "shards"}, jobId' = jobId PROVE Goal
    BY <2>9 DEF Answers
  <2>10. Goal
    BY <1>2, <2>4, <2>5, <2>6, <2>7, <2>8, <2>9 DEF TurnGoesOn
  <2> QED BY <2>1, <2>2, <2>10 DEF Answers, IdOf
<1>3. ASSUME StartOrExit PROVE Answers'
  <2>1. jobId' = None /\ phase' \in {"exited", "next"}
    BY <1>3 DEF StartOrExit, Start, Exit, Turns
  <2> QED BY <2>1 DEF Answers
<1>4. ASSUME JobSteps PROVE Answers'
  <2>1. UNCHANGED <<todo, jobId>> /\ Spec0' = Spec0
    BY <1>4, JobFrame DEF Spec0
  <2> DEFINE IdOfNext(t, i) == /\ i \in used'
                               /\ \A r \in Runner : i \in DOMAIN jobs'[r] => jobs'[r][i].shard = t
             Goal ==
               phase' = "reply" =>
                 /\ "jobId" \in DOMAIN body' => IdOfNext(Spec0.id, body'.jobId)
                 /\ "result" \in DOMAIN body' => bench'[Spec0.id] = "resolved"
  <2>2. jobId # None => IdOfNext(Spec0.id, jobId)
    BY <1>4, IdStable DEF Answers
  <2>3. ASSUME NEW id \in JobId, PostArrivesAsync(id) PROVE Goal
    <3>1. body' = [jobId |-> id] /\ id \in used' /\ id \notin used
      BY <2>3 DEF PostArrivesAsync, StartJob, NewJobIds
    <3>2. /\ DOMAIN jobs = Runner
          /\ \A r \in Runner : id \notin DOMAIN jobs[r]
      BY <3>1 DEF TypeOK, QueueTypeOK
    <3> DEFINE q == RunnerOf[Spec0.id]
    <3>3. q \in Runner
      BY <2>3, Current, JobQueueAssumption DEF JobQueueAssumption, PostArrivesAsync, Turns
    <3>4. jobs' = [jobs EXCEPT ![q] =
             [i \in DOMAIN jobs[q] \cup {id} |->
                IF i = id THEN [shard |-> Spec0.id, status |-> "running", endedAt |-> None]
                ELSE jobs[q][i]]]
      BY <2>3 DEF PostArrivesAsync, StartJob
    <3> HIDE DEF q
    <3>5. \A r \in Runner : id \in DOMAIN jobs'[r] => jobs'[r][id].shard = Spec0.id
      BY <3>2, <3>3, <3>4
    <3> QED BY <3>1, <3>5
  <2>4. ASSUME PostArrivesSync PROVE Goal
    BY <2>4 DEF PostArrivesSync
  <2>5. ASSUME NEW t \in Shard, NEW ok \in BOOLEAN, SyncEnds(t, ok), phase = "sync", t = Spec0.id
        PROVE  Goal
    <3>1. bench \in [Shard -> BenchState]
      BY DEF TypeOK, QueueTypeOK
    <3>2. /\ body' = IF ok THEN [result |-> t] ELSE [error |-> "HTTP 500"]
          /\ bench' = [bench EXCEPT ![t] = IF ok THEN "resolved" ELSE "rejected"]
      BY <2>5 DEF SyncEnds
    <3>3. "jobId" \notin DOMAIN body' /\ ("result" \in DOMAIN body' => ok)
      BY <3>2
    <3>4. ok => bench'[t] = "resolved"
      BY <3>1, <3>2
    <3> HIDE DEF IdOfNext
    <3> QED BY <2>5, <3>3, <3>4
  <2>6. ASSUME UNCHANGED <<phase, body>> PROVE Goal
    <3>1. ASSUME phase = "reply" PROVE Spec0.id \in Shard
      BY <3>1, Current DEF Turns
    <3>2. ASSUME phase = "reply", bench[Spec0.id] = "resolved" PROVE bench'[Spec0.id] = "resolved"
      BY <1>4, <3>1, <3>2, BenchStep
    <3>3. ASSUME phase = "reply", "jobId" \in DOMAIN body PROVE IdOfNext(Spec0.id, body.jobId)
      BY <1>4, <3>3, IdStable DEF Answers
    <3> HIDE DEF IdOfNext
    <3> QED BY <2>6, <3>2, <3>3 DEF Answers
  <2>7. Goal
    <3> HIDE DEF Goal
    <3>1. CASE \E t \in Shard, ok \in BOOLEAN : SyncEnds(t, ok)
      BY <2>5, <2>6, <3>1 DEF SyncEnds
    <3>2. CASE \E r \in Runner, id \in JobId, ok \in BOOLEAN : JobSettles(r, id, ok)
      BY <2>6, <3>2 DEF JobSettles, turnVars
    <3>3. CASE \E r \in Runner : MapSwept(r) \/ RunnerRestarts(r)
      BY <2>6, <3>3 DEF MapSwept, RunnerRestarts, turnVars
    <3> QED BY <1>4, <2>3, <2>4, <3>1, <3>2, <3>3 DEF JobSteps
  <2> QED BY <2>1, <2>2, <2>7 DEF Answers, IdOf
<1>5. ASSUME Idles PROVE Answers'
  <2>1. UNCHANGED <<jobs, used, bench, todo, phase, body, jobId>> /\ Spec0' = Spec0
    BY <1>5, IdlesFrame DEF Spec0
  <2> QED BY <2>1 DEF Answers, IdOf
<1> QED BY <1>1, <1>2, <1>3, <1>4, <1>5, StepCases

LEMMA BenchesStep ==
  ASSUME Inv, [Next]_vars
  PROVE  Benches'
<1> USE DEF Inv
<1> SUFFICES ASSUME NEW t \in Shard
             PROVE  /\ bench'[t] # "none" =>
                         /\ t[1] # "idle"
                         /\ \/ outcome'[t] # "none"
                            \/ phase' \in {"sync", "poll", "get", "reply"} /\ t = Spec0'.id
                    /\ outcome'[t] \in Counted /\ t[1] # "idle" => bench'[t] = "resolved"
  BY DEF Benches
<1>0. /\ bench[t] # "none" =>
           /\ t[1] # "idle"
           /\ outcome[t] # "none" \/ (phase \in {"sync", "poll", "get", "reply"} /\ t = Spec0.id)
      /\ outcome[t] \in Counted /\ t[1] # "idle" => bench[t] = "resolved"
  BY DEF Benches
<1> DEFINE Goal == /\ bench'[t] # "none" =>
                        /\ t[1] # "idle"
                        /\ \/ outcome'[t] # "none"
                           \/ phase' \in {"sync", "poll", "get", "reply"} /\ t = Spec0'.id
                   /\ outcome'[t] \in Counted /\ t[1] # "idle" => bench'[t] = "resolved"
<1>1. ASSUME NEW o \in Counted \cup {"failed"}, Report(o) PROVE Goal
  <2>1. /\ bench' = bench /\ o # "none" /\ todo # {}
        /\ o \in Counted => Spec0.mode = "multi-shard" \/ bench[Spec0.id] = "resolved"
    BY <1>1 DEF Report, queueVars, Counted
  <2>2. Spec0.mode = "multi-shard" => Spec0.id[1] = "idle"
    BY <2>1, Current
  <2>3. outcome'[t] = IF t = Spec0.id THEN o ELSE outcome[t]
    BY <1>1 DEF Report, TypeOK
  <2> QED BY <1>0, <2>1, <2>2, <2>3
<1>2. ASSUME TurnGoesOn PROVE Goal
  <2>1. UNCHANGED <<bench, outcome>> /\ Spec0' = Spec0
    BY <1>2, TurnFrame DEF Spec0, queueVars
  <2>2. phase \in {"sync", "poll", "get", "reply"} => phase' \in {"sync", "poll", "get", "reply"}
    BY <1>2 DEF TurnGoesOn, Post, FetchFails, GetArrives, PostGivesJob, PollGoesOn
  <2> QED BY <1>0, <2>1, <2>2
<1>3. ASSUME StartOrExit PROVE Goal
  <2>1. UNCHANGED <<bench, outcome>> /\ phase \in {"start", "next"}
    BY <1>3 DEF StartOrExit, Start, Exit, queueVars
  <2> QED BY <1>0, <2>1
<1>4. ASSUME JobSteps PROVE Goal
  <2>1. UNCHANGED outcome /\ Spec0' = Spec0
    BY <1>4, JobFrame DEF Spec0
  <2>2. phase \in {"sync", "poll", "get", "reply"} => phase' \in {"sync", "poll", "get", "reply"}
    BY <1>4, JobFrame
  <2>3. /\ bench[t] = "resolved" => bench'[t] = "resolved"
        /\ bench[t] = "none" /\ bench'[t] # "none" =>
             phase = "post" /\ t = Spec0.id /\ phase' \in {"sync", "reply"}
    BY <1>4, BenchStep
  <2>4. phase = "post" => Spec0.id[1] # "idle"
    BY Current DEF Turns
  <2> QED BY <1>0, <2>1, <2>2, <2>3, <2>4
<1>5. ASSUME Idles PROVE Goal
  <2>1. UNCHANGED <<bench, outcome, phase>> /\ Spec0' = Spec0
    BY <1>5, IdlesFrame DEF Spec0
  <2> QED BY <1>0, <2>1
<1> QED BY <1>1, <1>2, <1>3, <1>4, <1>5, StepCases

LEMMA FallenStep ==
  ASSUME Inv, [Next]_vars
  PROVE  Fallen'
<1> USE DEF Inv
<1>1. ASSUME NEW o \in Counted \cup {"failed"}, Report(o) PROVE Fallen'
  <2>1. /\ Spec0.id \in Shard /\ outcome[Spec0.id] = "none" /\ fell \subseteq Shard
    BY <1>1, Current DEF Report, TypeOK
  <2>2. Spec0.id \notin fell
    BY <2>1 DEF Fallen
  <2>3. ASSUME NEW t \in fell' PROVE outcome'[t] = "regress"
    <3>1. CASE t = Spec0.id
      BY <1>1, <2>1, <2>2, <2>3, <3>1 DEF Report, TypeOK
    <3>2. CASE t # Spec0.id
      BY <1>1, <2>1, <2>3, <3>2 DEF Report, TypeOK, Fallen
    <3> QED BY <3>1, <3>2
  <2>4. phase' = "next"
    BY <1>1 DEF Report
  <2> QED BY <2>3, <2>4 DEF Fallen, FallenRateFailsTheRun
<1>2. ASSUME TurnGoesOn PROVE Fallen'
  <2>1. UNCHANGED <<outcome, fell, exitCode>>
    BY <1>2, TurnFrame
  <2>2. phase' # "exited"
    BY <1>2 DEF TurnGoesOn, Post, FetchFails, GetArrives, PostGivesJob, PollGoesOn
  <2> QED BY <2>1, <2>2 DEF Fallen, FallenRateFailsTheRun
<1>3. ASSUME NEW filter \in Filter, NEW dryRun \in BOOLEAN,
             NEW flags \in SUBSET {"idle", "avalanche"}, Start(filter, dryRun, flags)
      PROVE  Fallen'
  BY <1>3 DEF Start, Turns, Fallen, FallenRateFailsTheRun
<1>4. ASSUME Exit PROVE Fallen'
  <2>1. UNCHANGED <<outcome, fell>> /\ exitCode' = IF Failing THEN 1 ELSE 0
    BY <1>4 DEF Exit
  <2>2. fell # {} => Failing
    BY DEF Fallen, Failing, TypeOK
  <2> QED BY <2>1, <2>2 DEF Fallen, FallenRateFailsTheRun
<1>5. ASSUME JobSteps PROVE Fallen'
  <2>1. UNCHANGED <<outcome, fell, exitCode>> /\ (phase' = "exited" => phase = "exited")
    BY <1>5, JobFrame
  <2> QED BY <2>1 DEF Fallen, FallenRateFailsTheRun
<1>6. ASSUME Idles PROVE Fallen'
  <2>1. UNCHANGED <<outcome, fell, exitCode, phase>>
    BY <1>6, IdlesFrame
  <2> QED BY <2>1 DEF Fallen, FallenRateFailsTheRun
<1> QED BY <1>1, <1>2, <1>3, <1>4, <1>5, <1>6, StepCases DEF StartOrExit

\* The job maps change by the job steps alone.
LEMMA JobsAreTrueStep ==
  ASSUME Inv, [Next]_vars
  PROVE  JobsAreTrue'
<1> USE DEF Inv
<1>1. ASSUME UNCHANGED <<jobs, bench>> PROVE JobsAreTrue'
  BY <1>1 DEF JobsAreTrue, JobIsTrue
<1>2. ASSUME NEW o \in Counted \cup {"failed"}, Report(o) PROVE UNCHANGED <<jobs, bench>>
  BY <1>2 DEF Report, queueVars
<1>3. ASSUME TurnGoesOn PROVE UNCHANGED <<jobs, bench>>
  BY <1>3, TurnFrame DEF queueVars
<1>4. ASSUME StartOrExit PROVE UNCHANGED <<jobs, bench>>
  BY <1>4 DEF StartOrExit, Start, Exit, queueVars
<1>5. ASSUME Idles PROVE UNCHANGED <<jobs, bench>>
  BY <1>5, IdlesFrame
<1> QED BY <1>1, <1>2, <1>3, <1>4, <1>5, JobsStep, StepCases

LEMMA RequestsStep ==
  ASSUME Inv, [Next]_vars
  PROVE  Requests'
<1> USE DEF Inv
<1>1. ASSUME NEW o \in Counted \cup {"failed"}, Report(o) PROVE Requests'
  BY <1>1 DEF Report, Requests
<1>2. ASSUME TurnGoesOn PROVE Requests'
  <2>1. UNCHANGED todo /\ Spec0' = Spec0
    BY <1>2, TurnFrame DEF Spec0
  <2>2. ASSUME Post PROVE Requests'
    BY <2>1, <2>2 DEF Post, Requests
  <2>3. ASSUME UNCHANGED request, phase' \in {"get", "poll", "reply"},
               phase \in {"post", "sync", "poll", "get", "reply"}
        PROVE  Requests'
    BY <2>1, <2>3 DEF Requests
  <2>4. ASSUME phase' = "shards",
               request' = [endpoint |-> Spec0.endpoint,
                           params |-> Spec0.params \cup {"n", "shard", "async"}]
        PROVE  Requests'
    BY <2>1, <2>4 DEF Requests
  <2> QED BY <1>2, <2>2, <2>3, <2>4
        DEF TurnGoesOn, FetchFails, GetArrives, PostGivesJob, PollGoesOn
<1>3. ASSUME StartOrExit PROVE Requests'
  BY <1>3 DEF StartOrExit, Start, Exit, Requests
<1>4. ASSUME JobSteps PROVE Requests'
  <2>1. UNCHANGED <<todo, request>> /\ Spec0' = Spec0
    BY <1>4, JobFrame DEF Spec0
  <2>2. phase' = phase \/ (phase \in {"post", "sync"} /\ phase' \in {"sync", "reply"})
    BY <1>4, JobFrame
  <2> QED BY <2>1, <2>2 DEF Requests
<1>5. ASSUME Idles PROVE Requests'
  <2>1. UNCHANGED <<todo, request, phase>> /\ Spec0' = Spec0
    BY <1>5, IdlesFrame DEF Spec0
  <2> QED BY <2>1 DEF Requests
<1> QED BY <1>1, <1>2, <1>3, <1>4, <1>5, StepCases

LEMMA MissingStep ==
  ASSUME Inv, [Next]_vars
  PROVE  OnlyMetricsAreMissing'
<1> USE DEF Inv
<1>1. ASSUME NEW o \in Counted \cup {"failed"}, Report(o) PROVE OnlyMetricsAreMissing'
  BY <1>1 DEF Report, OnlyMetricsAreMissing, FromMetrics
<1>2. ASSUME UNCHANGED absent PROVE OnlyMetricsAreMissing'
  BY <1>2 DEF OnlyMetricsAreMissing
<1>3. TurnGoesOn => UNCHANGED absent
  BY TurnFrame
<1>4. StartOrExit => UNCHANGED absent
  BY DEF StartOrExit, Start, Exit
<1>5. JobSteps => UNCHANGED absent
  BY JobFrame
<1>6. Idles => UNCHANGED absent
  BY IdlesFrame
<1> QED BY <1>1, <1>2, <1>3, <1>4, <1>5, <1>6, StepCases

----------------------------------------------------------------------------
LEMMA InitInv ==
  ASSUME Init
  PROVE  Inv
<1> USE DEF Init, QueueInit
<1>1. TypeOK
  <2>1. QueueTypeOK
    BY DEF QueueTypeOK, BenchState
  <2>2. todo = {} /\ fell = {} /\ DOMAIN timers = {}
    OBVIOUS
  <2>3. outcome \in [Shard -> {"none", "ok", "drift", "regress", "failed"}]
    OBVIOUS
  <2>4. absent \in [Shard -> SUBSET UNION {Tests[i].baseline : i \in DOMAIN Tests}]
    <3>1. {} \in SUBSET UNION {Tests[i].baseline : i \in DOMAIN Tests}
      OBVIOUS
    <3> QED BY <3>1
  <2> QED BY <2>1, <2>2, <2>3, <2>4 DEF TypeOK
<1>2. Turns /\ JobsAreTrue /\ Answers /\ Benches /\ Fallen
  BY DEF Turns, JobsAreTrue, Answers, Benches, Counted, Fallen, FallenRateFailsTheRun
<1>3. Requests /\ OnlyMetricsAreMissing
  BY DEF Requests, OnlyMetricsAreMissing
<1> QED BY <1>1, <1>2, <1>3 DEF Inv

LEMMA StepInv ==
  ASSUME Inv, [Next]_vars
  PROVE  Inv'
BY TypeStep, TurnsStep, JobsAreTrueStep, AnswersStep, BenchesStep, FallenStep,
   RequestsStep, MissingStep DEF Inv

\* The job map's, the turn's and the report's variables stay of their types.
THEOREM TypeCorrect == Spec => []TypeOK
<1>1. Init => Inv
  BY InitInv
<1>2. Inv /\ [Next]_vars => Inv'
  BY StepInv
<1>3. Inv => TypeOK
  BY DEF Inv
<1> QED BY <1>1, <1>2, <1>3, PTL DEF Spec

\* A test of one bench-runner is counted only on a resolved bench of its own.
THEOREM OwnResults == Spec => []CountedTestsResolved
<1>1. Init => Inv
  BY InitInv
<1>2. Inv /\ [Next]_vars => Inv'
  BY StepInv
<1>3. Inv => CountedTestsResolved
  BY DEF Inv, Benches, Counted, CountedTestsResolved
<1> QED BY <1>1, <1>2, <1>3, PTL DEF Spec

\* A bench that runs beside another test's turn was left behind by a failed turn.
THEOREM OverlapAfterFailure == Spec => []OverlapIsOfAFailure
<1>1. Init => Inv
  BY InitInv
<1>2. Inv /\ [Next]_vars => Inv'
  BY StepInv
<1>3. Inv => OverlapIsOfAFailure
  <2>1. SUFFICES ASSUME Inv, NEW t \in Shard, bench[t] = "running", todo = {} \/ t # Spec0.id
                 PROVE  outcome[t] = "failed"
    BY DEF OverlapIsOfAFailure
  <2>2. phase \in {"sync", "poll", "get", "reply"} => todo # {}
    BY <2>1 DEF Inv, Turns
  <2>3. t[1] # "idle" /\ outcome[t] # "none" /\ outcome[t] \notin Counted
    BY <2>1, <2>2 DEF Inv, Benches
  <2> QED BY <2>1, <2>3 DEF Inv, TypeOK, Counted
<1> QED BY <1>1, <1>2, <1>3, PTL DEF Spec

\* A delivery rate that fell in any test makes the exit code 1.
THEOREM FallenFails == Spec => []FallenRateFailsTheRun
<1>1. Init => Inv
  BY InitInv
<1>2. Inv /\ [Next]_vars => Inv'
  BY StepInv
<1>3. Inv => FallenRateFailsTheRun
  BY DEF Inv, Fallen
<1> QED BY <1>1, <1>2, <1>3, PTL DEF Spec

\* Every parameter a test sends is one its endpoint reads: of the manifest's
\* entries as they stand, whatever is selected and however the runners answer.
THEOREM SentIsRead == Spec => []ParamsAreRead
<1>1. Init => Inv
  BY InitInv
<1>2. Inv /\ [Next]_vars => Inv'
  BY StepInv
<1>3. Inv => ParamsAreRead
  <2>1. SUFFICES ASSUME Inv, phase \in {"post", "shards"}
                 PROVE  request.params \subseteq Reads(request.endpoint)
    BY DEF ParamsAreRead
  <2>2. todo # {}
    BY <2>1 DEF Inv, Turns
  <2>3. Matches(Spec0)
    BY <2>1, <2>2, Current, TestsMatch DEF Spec0, Inv
  <2>4. Spec0.params \cup Added(Spec0) \subseteq Reads(Spec0.endpoint)
    BY <2>3 DEF Matches
  <2>5. CASE phase = "post"
    <3>1. Spec0.mode # "multi-shard"
      BY <2>1, <2>5 DEF Inv, Turns
    <3>2. request = [endpoint |-> Spec0.endpoint, params |-> Spec0.params \cup Added(Spec0)]
      BY <2>1, <2>5, <3>1 DEF Inv, Requests, Added
    <3> QED BY <2>4, <3>2
  <2>6. CASE phase = "shards"
    <3>1. Spec0.mode = "multi-shard"
      BY <2>1, <2>6 DEF Inv, Turns
    <3>2. request = [endpoint |-> Spec0.endpoint, params |-> Spec0.params \cup Added(Spec0)]
      BY <2>1, <2>6, <3>1 DEF Inv, Requests, Added
    <3> QED BY <2>4, <3>2
  <2> QED BY <2>1, <2>5, <2>6
<1> QED BY <1>1, <1>2, <1>3, PTL DEF Spec

\* A baseline field that a judged result lacks is one of Railway's metrics.
THEOREM OnlyMetricsMissing == Spec => []OnlyMetricsAreMissing
<1>1. Init => Inv
  BY InitInv
<1>2. Inv /\ [Next]_vars => Inv'
  BY StepInv
<1>3. Inv => OnlyMetricsAreMissing
  BY DEF Inv
<1> QED BY <1>1, <1>2, <1>3, PTL DEF Spec

=============================================================================
