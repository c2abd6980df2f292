---------------------------- MODULE VisualAudioProofs ----------------------------
(***************************************************************************)
(* Proofs about VisualAudioIngestion, for any sessions, requests, people   *)
(* and similarities, whatever order the model server answers in and        *)
(* however often the process is lost: the detector is Page's test, and a   *)
(* change-point of either stream goes with its request through the         *)
(* pipeline, so that two of them that were decided are acted upon.         *)
(***************************************************************************)
EXTENDS VisualAudioIngestion, OrchestrationProofs, SequenceTheorems

\* A running total begins at 0 and has a value for each observation.
Running(total) == total \in Seq(Int) /\ Len(total) >= 1

\* A sum is what the running total has gained since its lowest value.
Pages(sum, total) ==
    /\ \E k \in 1..Len(total) : sum = total[Len(total)] - total[k]
    /\ \A k \in 1..Len(total) : total[Len(total)] - total[k] <= sum
    /\ sum <= ControlLimit

DetectorTypes ==
    /\ sums \in [Sessions -> [Bundles -> Int]]
    /\ totals \in [Sessions -> [Bundles -> Seq(Int)]]

PInv ==
    /\ DetectorTypes
    /\ \A s \in Sessions, b \in Bundles :
           Running(totals[s][b]) /\ Pages(sums[s][b], totals[s][b])

-----------------------------------------------------------------------------
(* One observation *)

\* The greatest member of a set is unique.
LEMMA GreatestIsMax ==
    ASSUME NEW S, S \subseteq Int, NEW n \in S, \A m \in S : m <= n
    PROVE  Max(S) = n
<1>1. \A x \in S : (\A y \in S : x >= y) => x = n
  OBVIOUS
<1>2. \A y \in S : n >= y
  OBVIOUS
<1> QED
  BY <1>1, <1>2 DEF Max

\* A running total starts anew.
LEMMA StartsAnew ==
    ASSUME NEW total, total = << 0 >> PROVE Running(total) /\ Pages(0, total)
<1>1. total \in Seq(Int) /\ Len(total) = 1 /\ total[1] = 0
  OBVIOUS
<1> QED
  BY <1>1 DEF Running, Pages, ControlLimit

\* An observation adds to every stretch before it and begins an empty one, of
\* which the detector keeps the greatest, unless that is beyond the limit.
LEMMA ObservationIsPages ==
    ASSUME NEW sum \in Int, NEW total, Running(total), Pages(sum, total),
           NEW similarity \in Int,
           NEW result, result = ObserveChangePoint(sum, similarity),
           NEW later, later = IF result.detected THEN << 0 >>
                              ELSE Append(total, Last(total) + Deviation(similarity))
    PROVE  /\ result.sum \in Int
           /\ Running(later) /\ Pages(result.sum, later)
<1> DEFINE n == Len(total)
           d == Deviation(similarity)
           next == AtLeastZero(sum + d)
<1>1. d \in Int /\ next \in Int
  BY DEF Deviation, TargetSimilarity, Slack, AtLeastZero
<1>2. /\ next >= 0 /\ next >= sum + d
      /\ next = 0 \/ next = sum + d
  BY <1>1 DEF AtLeastZero
<1>3. /\ result.sum = IF next > ControlLimit THEN 0 ELSE next
      /\ result.detected <=> next > ControlLimit
  BY DEF ObserveChangePoint
<1>4. CASE next > ControlLimit
  <2>1. result.sum = 0 /\ later = << 0 >>
    BY <1>3, <1>4
  <2>2. Running(later) /\ Pages(0, later)
    BY <2>1, StartsAnew
  <2> QED
    BY <2>1, <2>2
<1>5. CASE ~(next > ControlLimit)
  <2>1. /\ total \in Seq(Int) /\ n \in Nat /\ n >= 1
        /\ \A k \in 1..n : total[k] \in Int
    BY DEF Running
  <2>2. PICK last \in Int : last = total[n]
    BY <2>1
  <2> HIDE DEF d, next
  <2>3. result.sum = next /\ later = Append(total, last + d)
    BY <1>3, <1>5, <2>2 DEF Last, d
  <2>4. /\ later \in Seq(Int) /\ Len(later) = n + 1
        /\ \A k \in 1..n : later[k] = total[k]
        /\ later[n + 1] = last + d
    <3>1. PICK e \in Int : e = last + d
      BY <1>1
    <3>2. later = Append(total, e)
      BY <2>3, <3>1
    <3> QED
      BY <2>1, <3>1, <3>2, SMTT(20)
  <2>5. Running(later)
    BY <2>1, <2>4 DEF Running
  <2>6. \A k \in 1..(n + 1) : later[n + 1] - later[k] <= next
    <3> SUFFICES ASSUME NEW k \in 1..(n + 1) PROVE later[n + 1] - later[k] <= next
      OBVIOUS
    <3>1. CASE k = n + 1
      BY <1>1, <1>2, <2>4, <3>1
    <3>2. CASE k # n + 1
      <4>1. k \in 1..n
        BY <2>1, <3>2
      <4>2. PICK low \in Int : low = total[k]
        BY <2>1, <4>1
      <4>3. later[k] = low /\ last - low <= sum
        BY <2>2, <2>4, <4>1, <4>2 DEF Pages
      <4>4. (last + d) - low <= next
        BY <1>1, <1>2, <4>3
      <4> QED
        BY <2>4, <4>3, <4>4
    <3> QED
      BY <3>1, <3>2
  <2>7. \E k \in 1..(n + 1) : next = later[n + 1] - later[k]
    <3>1. CASE next = 0
      <4>1. n + 1 \in 1..(n + 1) /\ later[n + 1] - later[n + 1] = 0
        BY <1>1, <2>1, <2>4
      <4> QED
        BY <3>1, <4>1
    <3>2. CASE next = sum + d
      <4>1. PICK k \in 1..n : sum = last - total[k]
        BY <2>2 DEF Pages
      <4>2. PICK low \in Int : low = total[k]
        BY <2>1
      <4>3. k \in 1..(n + 1) /\ later[k] = low
        BY <2>1, <2>4, <4>2
      <4>4. next = (last + d) - low
        BY <1>1, <3>2, <4>1, <4>2
      <4> QED
        BY <2>4, <4>3, <4>4
    <3> QED
      BY <1>2, <3>1, <3>2
  <2>8. next <= ControlLimit
    BY <1>1, <1>5 DEF ControlLimit
  <2>9. Pages(next, later)
    BY <2>4, <2>6, <2>7, <2>8 DEF Pages
  <2> QED
    BY <1>1, <2>3, <2>5, <2>9
<1> QED
  BY <1>4, <1>5

-----------------------------------------------------------------------------
(* Every step *)

\* Of a step that observes, only one stream of one session changes.
LEMMA ObserveKeepsPages ==
    ASSUME PInv, NEW i \in Ingests, NEW b \in Bundles, NEW similarity \in Alike \cup Unlike,
           Observe(i, b, similarity)
    PROVE  PInv'
<1> DEFINE s == requests[i].session
           sum == sums[s][b]
           total == totals[s][b]
           result == ObserveChangePoint(sum, similarity)
           later == IF result.detected THEN << 0 >>
                    ELSE Append(total, Last(total) + Deviation(similarity))
<1>1. similarity \in Int
  BY SimilaritiesAssumption
<1>2. /\ sums' = [sums EXCEPT ![s][b] = result.sum]
      /\ totals' = [totals EXCEPT ![s][b] = later]
  BY DEF Observe
<1>3. CASE s \in Sessions
  <2>1. sum \in Int /\ Running(total) /\ Pages(sum, total)
    BY <1>3 DEF PInv, DetectorTypes
  <2> HIDE DEF sum, total
  <2>2. result.sum \in Int /\ Running(later) /\ Pages(result.sum, later)
    BY <1>1, <2>1, ObservationIsPages
  <2> HIDE DEF result, later
  <2>3. later \in Seq(Int)
    BY <2>2 DEF Running
  <2>4. DetectorTypes'
    BY <1>2, <1>3, <2>2, <2>3 DEF PInv, DetectorTypes
  <2>5. ASSUME NEW t \in Sessions, NEW c \in Bundles
        PROVE  Running(totals'[t][c]) /\ Pages(sums'[t][c], totals'[t][c])
    <3>1. CASE t = s /\ c = b
      <4>1. sums'[t][c] = result.sum /\ totals'[t][c] = later
        BY <1>2, <1>3, <3>1 DEF PInv, DetectorTypes
      <4> QED
        BY <2>2, <4>1
    <3>2. CASE ~(t = s /\ c = b)
      <4>1. sums'[t][c] = sums[t][c] /\ totals'[t][c] = totals[t][c]
        BY <1>2, <3>2 DEF PInv, DetectorTypes
      <4> QED
        BY <4>1 DEF PInv
    <3> QED
      BY <3>1, <3>2
  <2> QED
    BY <2>4, <2>5 DEF PInv, Running, Pages
<1>4. CASE s \notin Sessions
  <2>1. sums' = sums /\ totals' = totals
    BY <1>2, <1>4 DEF PInv, DetectorTypes
  <2> QED
    BY <2>1 DEF PInv, DetectorTypes, Running, Pages
<1> QED
  BY <1>3, <1>4

\* A new process starts every stream anew.
LEMMA RestartKeepsPages ==
    ASSUME /\ sums' = [s \in Sessions |-> [b \in Bundles |-> 0]]
           /\ totals' = [s \in Sessions |-> [b \in Bundles |-> << 0 >>]]
    PROVE  PInv'
<1>1. << 0 >> \in Seq(Int)
  OBVIOUS
<1>2. DetectorTypes'
  BY <1>1 DEF DetectorTypes
<1>3. ASSUME NEW s \in Sessions, NEW b \in Bundles
      PROVE  Running(totals'[s][b]) /\ Pages(sums'[s][b], totals'[s][b])
  BY StartsAnew
<1> QED
  BY <1>2, <1>3 DEF PInv, Running, Pages

\* Whatever order the requests reach the detector in, its sums are those of
\* Page's test (ChangePointDetector.observe).
THEOREM PagesInvariance == VisualAudioSpec => []PInv
<1>1. VisualAudioInit => PInv
  <2> SUFFICES ASSUME VisualAudioInit PROVE PInv
    OBVIOUS
  <2>1. << 0 >> \in Seq(Int)
    OBVIOUS
  <2> QED
    BY <2>1, StartsAnew DEF VisualAudioInit, PInv, DetectorTypes
<1>2. PInv /\ [VisualAudioNext]_allVars => PInv'
  <2> SUFFICES ASSUME PInv, [VisualAudioNext]_allVars PROVE PInv'
    OBVIOUS
  <2>1. CASE UNCHANGED << sums, totals >>
    BY <2>1 DEF PInv, DetectorTypes, Running, Pages
  <2>2. ASSUME NEW i \in Ingests, NEW b \in Bundles, NEW similarity \in Alike \cup Unlike,
               Observe(i, b, similarity)
        PROVE  PInv'
    BY <2>2, ObserveKeepsPages
  <2>3. ASSUME NEW orphans \in SUBSET Calls, RestartAll(orphans) PROVE PInv'
    BY <2>3, RestartKeepsPages DEF RestartAll
  <2>4. \/ UNCHANGED << sums, totals >>
        \/ \E i \in Ingests, b \in Bundles, similarity \in Alike \cup Unlike :
               Observe(i, b, similarity)
        \/ \E orphans \in SUBSET Calls : RestartAll(orphans)
    <3>1. ASSUME NEW i \in Ingests, AdapterStep(i)
          PROVE  \/ UNCHANGED << sums, totals >>
                 \/ \E b \in Bundles, similarity \in Alike \cup Unlike : Observe(i, b, similarity)
      BY <3>1 DEF AdapterStep, LivenessAnswers, NoEmbedding, ObserveFirst, Submit
    <3>2. ASSUME NEW i \in Ingests, AdapterThrows(i) PROVE UNCHANGED << sums, totals >>
      BY <3>2 DEF AdapterThrows
    <3>3. ASSUME NEW i \in Ingests, NEW s \in Sessions, NEW capture \in Captures, NEW now \in Nows,
                 Ingest(i, s, capture, now)
          PROVE  UNCHANGED << sums, totals >>
      BY <3>3 DEF Ingest
    <3>4. ASSUME UNCHANGED adapterVars PROVE UNCHANGED << sums, totals >>
      BY <3>4 DEF adapterVars
    <3>5. ASSUME UNCHANGED allVars PROVE UNCHANGED << sums, totals >>
      BY <3>5 DEF allVars, adapterVars
    <3> QED
      BY <3>1, <3>2, <3>3, <3>4, <3>5 DEF VisualAudioNext
  <2> QED
    BY <2>1, <2>2, <2>3, <2>4
<1> QED
  BY <1>1, <1>2, PTL DEF VisualAudioSpec

\* The detector's sum is the largest total deviation of any stretch of
\* observations ending now, and no stretch since the last change-point has
\* exceeded the control limit unreported (changePointDetector.ts:71-76).
THEOREM SumsArePagesTest == VisualAudioSpec => []CusumIsPagesTest
<1>1. PInv => CusumIsPagesTest
  <2> SUFFICES ASSUME PInv, NEW s \in Sessions, NEW b \in Bundles
               PROVE  LET total == totals[s][b]
                          tails == { Last(total) - total[k] : k \in DOMAIN total }
                      IN  sums[s][b] = Max(tails) /\ Max(tails) <= ControlLimit
    BY DEF CusumIsPagesTest
  <2> DEFINE total == totals[s][b]
             tails == { Last(total) - total[k] : k \in DOMAIN total }
  <2>1. Running(total) /\ Pages(sums[s][b], total)
    BY DEF PInv
  <2> HIDE DEF total
  <2>2. /\ DOMAIN total = 1..Len(total) /\ \A k \in 1..Len(total) : total[k] \in Int
        /\ Last(total) = total[Len(total)] /\ Len(total) \in 1..Len(total)
    BY <2>1 DEF Running, Last
  <2>3. tails \subseteq Int
    BY <2>2
  <2>4. sums[s][b] \in tails /\ \A m \in tails : m <= sums[s][b]
    BY <2>1, <2>2 DEF Pages
  <2> HIDE DEF tails
  <2>5. Max(tails) = sums[s][b]
    BY <2>3, <2>4, GreatestIsMax
  <2>6. sums[s][b] <= ControlLimit
    BY <2>1 DEF Pages
  <2> QED
    BY <2>5, <2>6 DEF tails, total
<1> QED
  BY <1>1, PagesInvariance, PTL

-----------------------------------------------------------------------------
(* What becomes of a change-point *)

\* A request with its adapters, and one that is not with them.
Building ==
    [pc : { "liveness", "visual", "audio", "built" }, session : Sessions, capture : Captures,
     now : Nows, events : AnyBatch]

Away == [pc : { "idle", "submitted", "thrown", "lost" }]

Detection == [ingest : Ingests, session : Sessions, bundle : Bundles]

\* A detection is among the events of its request, goes with it through the
\* pipeline, or was lost with it.
Found(d) ==
    \/ /\ requests[d.ingest] \in Building
       /\ requests[d.ingest].session = d.session
       /\ \E n \in 1..Len(requests[d.ingest].events) :
              /\ requests[d.ingest].events[n].bundle = d.bundle
              /\ requests[d.ingest].events[n].flagged
    \/ requests[d.ingest].pc \in { "thrown", "lost" }
    \/ requests[d.ingest].pc = "submitted" /\ Carried(d.ingest, d.session, d.bundle)

UInv ==
    /\ requests \in [Ingests -> Building \cup Away]
    /\ detections \subseteq Detection
    /\ \A i \in Ingests : requests[i].pc # "submitted" => ingests[i].pc = "new"
    /\ \A d \in detections : Found(d)

\* Submitting is enqueuing what the adapters have found; every other step is
\* the pipeline's, or none of its concern.
LEMMA NextOpens == ASSUME UInv, [VisualAudioNext]_allVars PROVE [OpenNext]_vars
<1>1. ASSUME NEW i \in Ingests, Submit(i) PROVE OpenNext
  <2>1. requests[i] \in Building
    BY <1>1 DEF UInv, Submit, Building, Away
  <2>2. requests[i].session \in Sessions /\ requests[i].events \in AnyBatch /\ requests[i].now \in Nows
    BY <2>1 DEF Building
  <2> QED
    BY <1>1, <2>2 DEF Submit, OpenNext
<1>2. ASSUME NEW i \in Ingests, AdapterStep(i), ~Submit(i) PROVE UNCHANGED vars
  BY <1>2 DEF AdapterStep, LivenessAnswers, NoEmbedding, ObserveFirst, Observe
<1>3. ASSUME NEW i \in Ingests, AdapterThrows(i) PROVE UNCHANGED vars
  BY <1>3 DEF AdapterThrows
<1>4. ASSUME NEW i \in Ingests, NEW s \in Sessions, NEW capture \in Captures, NEW now \in Nows,
             Ingest(i, s, capture, now)
      PROVE  UNCHANGED vars
  BY <1>4 DEF Ingest
<1>5. ASSUME NEW orphans \in SUBSET Calls, RestartAll(orphans) PROVE OpenNext
  BY <1>5 DEF RestartAll, OpenNext
<1>6. ASSUME Serve PROVE OpenNext
  BY <1>6 DEF OpenNext
<1>7. ASSUME UNCHANGED allVars PROVE UNCHANGED vars
  BY <1>7 DEF allVars
<1> QED
  BY <1>1, <1>2, <1>3, <1>4, <1>5, <1>6, <1>7 DEF VisualAudioNext

\* An ingestion begins by entering the chain, and only so.
LEMMA NewStays ==
    ASSUME OInv, Serve \/ (\E orphans \in SUBSET Calls : Restart(orphans)) \/ UNCHANGED vars,
           NEW i \in Ingests, ingests[i].pc = "new"
    PROVE  ingests'[i].pc = "new"
<1>0. ingests \in [Ingests -> Idle \cup Admitted \cup Evaluating \cup Narrating]
  BY DEF OInv, OrchTypes
<1>1. CASE UNCHANGED orchVars
  BY <1>1 DEF orchVars
<1>2. CASE \E orphans \in SUBSET Calls : Restart(orphans)
  BY <1>2 DEF Restart
<1>3. ASSUME NEW j \in Ingests, IngestStep(j) \/ LedgerFails(j) \/ LedgerReplyLost(j)
      PROVE  ingests'[i] = ingests[i]
  <2>1. i # j
    BY <1>3 DEF IngestStep, Start, AppendNext, AllAppended, Score, DecideOn, Publish, StoreFails,
                LedgerFails, LedgerReplyLost
  <2>2. PICK ing : ingests' = [ingests EXCEPT ![j] = ing]
    BY <1>3, WorkOrEnd
  <2> QED
    BY <1>0, <2>1, <2>2
<1> QED
  BY <1>1, <1>2, <1>3 DEF Serve, ApplyHumanOverride, StoreStep, vars

\* A detection whose request does not move is where it was, or further on in
\* the pipeline.
LEMMA FoundStays ==
    ASSUME OInv, DInv, [OpenNext]_vars, NEW d \in Detection, Found(d),
           requests'[d.ingest] = requests[d.ingest]
    PROVE  Found(d)'
<1>0. d.ingest \in Ingests /\ d.session \in Sessions
  BY DEF Detection
<1>1. CASE requests[d.ingest].pc = "submitted" /\ Carried(d.ingest, d.session, d.bundle)
  <2>1. Carried(d.ingest, d.session, d.bundle)'
    BY <1>0, <1>1, CarriedOn
  <2> QED
    BY <1>1, <2>1 DEF Found
<1> QED
  BY <1>1 DEF Found

\* The request as it is now holds the detection, or was lost with it.
HeldBy(req, d) ==
    \/ /\ req \in Building
       /\ req.session = d.session
       /\ \E n \in 1..Len(req.events) : req.events[n].bundle = d.bundle /\ req.events[n].flagged
    \/ req.pc \in { "thrown", "lost" }

\* A step of one request that is not in the pipeline and does not enter it.
LEMMA RequestMoves ==
    ASSUME OInv, DInv, UInv, UNCHANGED vars,
           NEW i \in Ingests, requests[i].pc # "submitted",
           NEW req \in Building \cup Away, req.pc # "submitted",
           requests' = [requests EXCEPT ![i] = req],
           NEW new \in SUBSET Detection, detections' = detections \cup new,
           \A d \in new : d.ingest = i /\ HeldBy(req, d),
           \A d \in detections : d.ingest = i => HeldBy(req, d)
    PROVE  UInv'
<1>1. requests' \in [Ingests -> Building \cup Away]
  BY DEF UInv
<1>2. detections' \subseteq Detection
  BY DEF UInv
<1>3. requests'[i] = req /\ \A j \in Ingests \ {i} : requests'[j] = requests[j]
  BY DEF UInv
<1>4. \A j \in Ingests : requests'[j].pc # "submitted" => ingests'[j].pc = "new"
  <2>1. ingests' = ingests
    BY DEF vars, orchVars
  <2> QED
    BY <1>3, <2>1 DEF UInv
<1>5. ASSUME NEW d \in detections' PROVE Found(d)'
  <2>1. d \in Detection /\ d.ingest \in Ingests
    BY <1>2, <1>5 DEF Detection
  <2>2. CASE d.ingest = i
    <3>1. HeldBy(req, d)
      BY <1>5, <2>2
    <3> QED
      BY <1>3, <2>2, <3>1 DEF HeldBy, Found
  <2>3. CASE d.ingest # i
    <3>1. Found(d) /\ requests'[d.ingest] = requests[d.ingest]
      BY <1>3, <1>5, <2>1, <2>3 DEF UInv
    <3> QED
      BY <2>1, <3>1, FoundStays
  <2> QED
    BY <2>2, <2>3
<1> QED
  BY <1>1, <1>2, <1>4, <1>5 DEF UInv

\* What is appended to a batch, and what was in it before.
LEMMA Joined ==
    ASSUME NEW e \in AnyBatch, NEW f \in AnyBatch
    PROVE  /\ e \o f \in AnyBatch
           /\ \A n \in 1..Len(e) : n \in 1..Len(e \o f) /\ (e \o f)[n] = e[n]
           /\ \A n \in 1..Len(f) : Len(e) + n \in 1..Len(e \o f) /\ (e \o f)[Len(e) + n] = f[n]
<1> DEFINE Event == [bundle : STRING, flagged : BOOLEAN]
<1>0. e \in Seq(Event) /\ f \in Seq(Event)
  BY DEF AnyBatch
<1>1. /\ e \o f \in Seq(Event)
      /\ Len(e \o f) = Len(e) + Len(f)
      /\ \A k \in 1..Len(e) + Len(f) : (e \o f)[k] = IF k <= Len(e) THEN e[k] ELSE f[k - Len(e)]
  BY <1>0, ConcatProperties
<1>2. Len(e) \in Nat /\ Len(f) \in Nat
  BY <1>0
<1> HIDE DEF Event
<1>3. ASSUME NEW n \in 1..Len(e) PROVE n \in 1..Len(e \o f) /\ (e \o f)[n] = e[n]
  <2>1. n \in 1..Len(e) + Len(f) /\ n <= Len(e)
    BY <1>2
  <2> QED
    BY <1>1, <2>1
<1>4. ASSUME NEW n \in 1..Len(f)
      PROVE  Len(e) + n \in 1..Len(e \o f) /\ (e \o f)[Len(e) + n] = f[n]
  <2>1. /\ Len(e) + n \in 1..Len(e) + Len(f) /\ ~(Len(e) + n <= Len(e))
        /\ (Len(e) + n) - Len(e) = n
    BY <1>2
  <2> QED
    BY <1>1, <2>1
<1> QED
  BY <1>1, <1>3, <1>4 DEF AnyBatch, Event

\* An adapter's events join those of the request; a change-point among them is
\* what the detector has reported.
LEMMA ContributeKeeps ==
    ASSUME OInv, DInv, UInv, UNCHANGED vars,
           NEW i \in Ingests, NEW b \in Bundles, NEW events \in AnyBatch,
           requests[i].pc \in { "liveness", "visual", "audio" }, Contribute(i, b, events),
           NEW new \in SUBSET Detection, detections' = detections \cup new,
           \A d \in new : d.ingest = i /\ d.session = requests[i].session /\
               \E n \in 1..Len(events) : events[n].bundle = d.bundle /\ events[n].flagged
    PROVE  UInv'
<1>1. requests[i] \in Building /\ requests \in [Ingests -> Building \cup Away]
  BY DEF UInv, Building, Away
<1>2. PICK pc \in { "audio", "built" } : pc = After(b, requests[i].capture)
  BY DEF After
<1>3. PICK old \in Building, mine \in AnyBatch : old = requests[i] /\ mine = old.events
  BY <1>1 DEF Building
<1>4. PICK joined \in AnyBatch : joined = mine \o events
  BY Joined
<1> DEFINE req == [pc |-> pc, session |-> old.session, capture |-> old.capture,
                   now |-> old.now, events |-> joined]
<1>5. requests' = [requests EXCEPT ![i] = req]
  <2>1. requests' = [requests EXCEPT ![i] = [[old EXCEPT !.events = joined] EXCEPT !.pc = pc]]
    BY <1>1, <1>2, <1>3, <1>4 DEF Contribute
  <2>2. [old EXCEPT !.events = joined] =
        [pc |-> old.pc, session |-> old.session, capture |-> old.capture,
         now |-> old.now, events |-> joined]
    BY DEF Building
  <2>3. [[pc |-> old.pc, session |-> old.session, capture |-> old.capture,
          now |-> old.now, events |-> joined] EXCEPT !.pc = pc] = req
    OBVIOUS
  <2>4. [[old EXCEPT !.events = joined] EXCEPT !.pc = pc] = req
    BY <2>2, <2>3, Zenon
  <2> QED
    BY <2>1, <2>4
<1>6. req \in Building
  BY <1>2 DEF Building
<1>7. req.pc # "submitted" /\ req.session = requests[i].session /\ req.events = joined
  BY <1>2, <1>3
<1> HIDE DEF req
<1>8. ASSUME NEW d \in new PROVE d.ingest = i /\ HeldBy(req, d)
  <2>1. PICK n \in 1..Len(events) : events[n].bundle = d.bundle /\ events[n].flagged
    OBVIOUS
  <2>2. Len(mine) + n \in 1..Len(joined) /\ joined[Len(mine) + n] = events[n]
    BY <1>4, Joined
  <2>3. d.ingest = i /\ d.session = req.session
    BY <1>7
  <2> QED
    BY <1>6, <1>7, <2>1, <2>2, <2>3 DEF HeldBy
<1>9. ASSUME NEW d \in detections, d.ingest = i PROVE HeldBy(req, d)
  <2>1. requests[i].session = d.session
    BY <1>9 DEF UInv, Found
  <2>2. PICK n \in 1..Len(mine) : mine[n].bundle = d.bundle /\ mine[n].flagged
    BY <1>3, <1>9 DEF UInv, Found
  <2>3. n \in 1..Len(joined) /\ joined[n] = mine[n]
    BY <1>4, Joined
  <2> QED
    BY <1>6, <1>7, <2>1, <2>2, <2>3 DEF HeldBy
<1> QED
  BY <1>5, <1>6, <1>7, <1>8, <1>9, RequestMoves

\* One event of this bundle, and the one the detector adds to it.
LEMMA AdapterEvents ==
    ASSUME NEW b \in Bundles, NEW detected \in BOOLEAN
    PROVE  /\ << SelfConsistency(b) >> \in AnyBatch
           /\ << SelfConsistency(b), ChangePointEvent(b, detected) >> \in AnyBatch
<1> DEFINE Event == [bundle : STRING, flagged : BOOLEAN]
<1>1. SelfConsistency(b) \in Event /\ ChangePointEvent(b, detected) \in Event
  <2>1. b \in STRING
    BY BundlesAssumption
  <2> QED
    BY <2>1 DEF SelfConsistency, ChangePointEvent
<1> HIDE DEF Event
<1>2. \A e, f \in Event : << e >> \in Seq(Event) /\ << e, f >> \in Seq(Event)
  OBVIOUS
<1> QED
  BY <1>1, <1>2 DEF AnyBatch, Event

\* The steps of the adapters.
LEMMA AdaptersKeep ==
    ASSUME OInv, DInv, UInv, NEW i \in Ingests, AdapterStep(i) \/ AdapterThrows(i), ~Submit(i)
    PROVE  UInv'
<1>0. requests[i] \in Building \cup Away /\ {} \in SUBSET Detection
  BY DEF UInv
<1>1. CASE LivenessAnswers(i)
  <2>1. requests[i] \in Building /\ UNCHANGED vars
    BY <1>0, <1>1 DEF LivenessAnswers, Away
  <2> DEFINE req == [requests[i] EXCEPT !.pc = "visual"]
  <2>2. /\ req \in Building /\ req.pc = "visual"
        /\ req.session = requests[i].session /\ req.events = requests[i].events
    BY <2>1 DEF Building
  <2>3. requests' = [requests EXCEPT ![i] = req] /\ detections' = detections \cup {}
    BY <1>1 DEF LivenessAnswers
  <2>4. ASSUME NEW d \in detections, d.ingest = i PROVE HeldBy(req, d)
    BY <1>1, <2>2, <2>4 DEF UInv, Found, HeldBy, LivenessAnswers
  <2>5. requests[i].pc # "submitted"
    BY <1>1 DEF LivenessAnswers
  <2> HIDE DEF req
  <2> QED
    BY <1>0, <2>1, <2>2, <2>3, <2>4, <2>5, RequestMoves
<1>2. CASE AdapterThrows(i)
  <2> DEFINE req == [pc |-> "thrown"]
  <2>1. /\ req \in Building \cup Away /\ req.pc # "submitted" /\ UNCHANGED vars
        /\ \A d \in detections : HeldBy(req, d)
    BY <1>2 DEF AdapterThrows, Away, HeldBy
  <2>2. requests' = [requests EXCEPT ![i] = req] /\ detections' = detections \cup {}
    BY <1>2 DEF AdapterThrows
  <2>3. requests[i].pc # "submitted"
    BY <1>2 DEF AdapterThrows
  <2> HIDE DEF req
  <2> QED
    BY <1>0, <2>1, <2>2, <2>3, RequestMoves
<1>3. ASSUME NEW b \in Bundles, NoEmbedding(i, b) \/ ObserveFirst(i, b) PROVE UInv'
  <2>1. /\ requests[i].pc \in { "liveness", "visual", "audio" }
        /\ Contribute(i, b, << SelfConsistency(b) >>)
        /\ UNCHANGED vars /\ detections' = detections \cup {}
    BY <1>3 DEF NoEmbedding, ObserveFirst, Awaits, Bundles
  <2>2. << SelfConsistency(b) >> \in AnyBatch
    BY AdapterEvents
  <2> QED
    BY <1>0, <2>1, <2>2, ContributeKeeps
<1>4. ASSUME NEW b \in Bundles, NEW similarity \in Alike \cup Unlike, Observe(i, b, similarity)
      PROVE  UInv'
  <2>1. PICK detected \in BOOLEAN :
            detected = ObserveChangePoint(sums[requests[i].session][b], similarity).detected
    <3>1. ObserveChangePoint(sums[requests[i].session][b], similarity).detected \in BOOLEAN
      BY DEF ObserveChangePoint
    <3> QED
      BY <3>1
  <2>2. PICK events \in AnyBatch : events = << SelfConsistency(b), ChangePointEvent(b, detected) >>
    BY AdapterEvents
  <2>3. PICK s \in Sessions : s = requests[i].session
    BY <1>0, <1>4 DEF Observe, Building, Away, Bundles
  <2>4. /\ requests[i].pc \in { "liveness", "visual", "audio" }
        /\ Contribute(i, b, events)
        /\ UNCHANGED vars
    BY <1>4, <2>1, <2>2 DEF Observe, Bundles, Detected
  <2> DEFINE new == IF detected THEN {[ingest |-> i, session |-> s, bundle |-> b]} ELSE {}
  <2>5. detections' = detections \cup new /\ new \in SUBSET Detection
    BY <1>4, <2>1, <2>3, SMTT(20) DEF Observe, Detection
  <2>6. ASSUME NEW d \in new
        PROVE  d.ingest = i /\ d.session = requests[i].session /\
                   \E n \in 1..Len(events) : events[n].bundle = d.bundle /\ events[n].flagged
    <3>1. detected /\ d = [ingest |-> i, session |-> s, bundle |-> b]
      BY <2>6
    <3>2. 2 \in 1..Len(events) /\ events[2].bundle = b /\ events[2].flagged
      BY <2>2, <3>1 DEF ChangePointEvent
    <3> QED
      BY <2>3, <3>1, <3>2
  <2> HIDE DEF new
  <2> QED
    BY <2>4, <2>5, <2>6, ContributeKeeps
<1> QED
  BY <1>1, <1>2, <1>3, <1>4 DEF AdapterStep

\* A request begins with nothing found.
LEMMA IngestKeeps ==
    ASSUME OInv, DInv, UInv, NEW i \in Ingests, NEW s \in Sessions, NEW capture \in Captures,
           NEW now \in Nows, Ingest(i, s, capture, now)
    PROVE  UInv'
<1> DEFINE req == [pc |-> FirstAwait(capture), session |-> s, capture |-> capture,
                   now |-> now, events |-> << >>]
<1>1. req \in Building /\ req.pc # "submitted"
  BY DEF FirstAwait, Building, AnyBatch
<1>2. requests' = [requests EXCEPT ![i] = req] /\ detections' = detections \cup {} /\ UNCHANGED vars
  BY DEF Ingest
<1>3. requests[i].pc # "submitted" /\ {} \in SUBSET Detection
  BY DEF Ingest
<1>4. ASSUME NEW d \in detections, d.ingest = i PROVE HeldBy(req, d)
  BY <1>4 DEF UInv, Found, Ingest, Building
<1> HIDE DEF req
<1> QED
  BY <1>1, <1>2, <1>3, <1>4, RequestMoves

\* What the adapters found goes into the pipeline whole.
LEMMA SubmitKeeps ==
    ASSUME OInv, DInv, UInv, [OpenNext]_vars, NEW i \in Ingests, Submit(i)
    PROVE  UInv'
<1>1. requests[i] \in Building /\ requests \in [Ingests -> Building \cup Away]
  BY DEF UInv, Submit, Building, Away
<1>2. PICK s \in Sessions, batch \in AnyBatch, now \in Nows :
          s = requests[i].session /\ batch = requests[i].events /\ now = requests[i].now
  BY <1>1 DEF Building
<1>3. ingests \in [Ingests -> Idle \cup Admitted \cup Evaluating \cup Narrating]
  BY DEF OInv, OrchTypes
<1>4. ingests' = [ingests EXCEPT ![i] =
          [pc |-> "queued", session |-> s, batch |-> batch, now |-> now, appended |-> 0]]
  BY <1>2 DEF Submit, Enqueue
<1>5. /\ ingests'[i] = [pc |-> "queued", session |-> s, batch |-> batch, now |-> now, appended |-> 0]
      /\ \A j \in Ingests \ {i} : ingests'[j] = ingests[j]
  BY <1>3, <1>4
<1>6. /\ requests' = [requests EXCEPT ![i] = [pc |-> "submitted"]]
      /\ requests[i].pc = "built" /\ detections' = detections
  BY DEF Submit
<1>7. requests' \in [Ingests -> Building \cup Away]
  BY <1>1, <1>6 DEF Away
<1>8. requests'[i].pc = "submitted" /\ \A j \in Ingests \ {i} : requests'[j] = requests[j]
  BY <1>1, <1>6
<1>9. ASSUME NEW d \in detections PROVE Found(d)'
  <2>1. d \in Detection /\ d.ingest \in Ingests /\ Found(d)
    BY DEF UInv, Detection
  <2>2. CASE d.ingest = i
    <3>1. s = d.session /\ \E n \in 1..Len(batch) : batch[n].bundle = d.bundle /\ batch[n].flagged
      BY <1>2, <1>6, <2>1, <2>2 DEF Found
    <3>2. Carried(d.ingest, d.session, d.bundle)'
      BY <1>5, <2>2, <3>1 DEF Carried
    <3> QED
      BY <1>8, <2>2, <3>2 DEF Found
  <2>3. CASE d.ingest # i
    BY <1>8, <2>1, <2>3, FoundStays
  <2> QED
    BY <2>2, <2>3
<1>10. \A j \in Ingests : requests'[j].pc # "submitted" => ingests'[j].pc = "new"
  BY <1>5, <1>8 DEF UInv
<1> QED
  BY <1>6, <1>7, <1>9, <1>10 DEF UInv

\* The steps of the pipeline, and the loss of the process.
LEMMA PipelineKeeps ==
    ASSUME OInv, DInv, UInv, [OpenNext]_vars, UNCHANGED detections,
           \/ (Serve \/ UNCHANGED vars) /\ UNCHANGED requests
           \/ \E orphans \in SUBSET Calls : RestartAll(orphans)
    PROVE  UInv'
<1>1. \A i \in Ingests : requests'[i] = requests[i] \/ requests'[i] = [pc |-> "lost"]
  BY DEF RestartAll
<1>2. requests' \in [Ingests -> Building \cup Away]
  BY DEF UInv, RestartAll, Away
<1>3. \A i \in Ingests : requests'[i].pc # "submitted" => requests[i].pc # "submitted"
  BY DEF RestartAll
<1>4. Serve \/ (\E orphans \in SUBSET Calls : Restart(orphans)) \/ UNCHANGED vars
  BY DEF RestartAll
<1>5. \A i \in Ingests : requests'[i].pc # "submitted" => ingests'[i].pc = "new"
  BY <1>3, <1>4, NewStays DEF UInv
<1>6. ASSUME NEW d \in detections PROVE Found(d)'
  <2>1. d \in Detection /\ d.ingest \in Ingests /\ Found(d)
    BY DEF UInv, Detection
  <2>2. CASE requests'[d.ingest] = requests[d.ingest]
    BY <2>1, <2>2, FoundStays
  <2>3. CASE requests'[d.ingest] = [pc |-> "lost"]
    BY <2>3 DEF Found
  <2> QED
    BY <1>1, <2>1, <2>2, <2>3
<1> QED
  BY <1>2, <1>5, <1>6 DEF UInv

\* Every step.
LEMMA NextFound ==
    ASSUME OInv, DInv, UInv, [VisualAudioNext]_allVars
    PROVE  UInv'
<1>1. [OpenNext]_vars
  BY NextOpens
<1>2. CASE UNCHANGED allVars
  BY <1>1, <1>2, PipelineKeeps DEF allVars, adapterVars
<1>3. CASE Serve /\ UNCHANGED adapterVars
  BY <1>1, <1>3, PipelineKeeps DEF adapterVars
<1>4. CASE \E orphans \in SUBSET Calls : RestartAll(orphans)
  BY <1>1, <1>4, PipelineKeeps DEF RestartAll
<1>5. ASSUME NEW i \in Ingests, AdapterStep(i) \/ AdapterThrows(i) PROVE UInv'
  BY <1>1, <1>5, SubmitKeeps, AdaptersKeep
<1> QED
  BY <1>2, <1>3, <1>4, <1>5, IngestKeeps DEF VisualAudioNext

-----------------------------------------------------------------------------
(* Two streams that broke *)

\* Two streams that broke are acted upon: once change-points of both bundles
\* were detected by requests that were decided, in whatever order they
\* overtook each other and across a restart, the disqualification is on file.
THEOREM DetectionsAct ==
    ASSUME Overlap = "none", MaxFailures = 0, MaxLostReplies = 0, MaxOrphans = 0
    PROVE  VisualAudioSpec => []DecidedDetectionsEscalate
<1> DEFINE Inv == OInv /\ DInv /\ LInv /\ StoreInv /\ WInv /\ UInv
<1>1. VisualAudioInit => Inv
  <2> SUFFICES ASSUME VisualAudioInit PROVE Inv
    OBVIOUS
  <2>1. OInv /\ DInv /\ LInv /\ StoreInv /\ WInv
    BY ActedInvariance DEF VisualAudioInit
  <2>2. UInv
    BY DEF VisualAudioInit, Init, UInv, Away
  <2> QED
    BY <2>1, <2>2
<1>2. Inv /\ [VisualAudioNext]_allVars => Inv'
  <2> SUFFICES ASSUME Inv, [VisualAudioNext]_allVars PROVE Inv'
    OBVIOUS
  <2>1. [OpenNext]_vars
    BY NextOpens
  <2>2. OInv' /\ DInv' /\ LInv' /\ StoreInv' /\ WInv'
    BY <2>1, ActedInvariance
  <2>3. UInv'
    BY NextFound
  <2> QED
    BY <2>2, <2>3
<1>3. Inv => DecidedDetectionsEscalate
  <2> SUFFICES ASSUME Inv, NEW s \in Sessions, { d.bundle : d \in Decided(s) } = Bundles
               PROVE  /\ LatestRecord(s) # NoRecord
                      /\ LatestRecord(s).disqualificationAnnotations # << >>
    BY DEF DecidedDetectionsEscalate
  <2>1. ASSUME NEW b \in Bundles
        PROVE  \E k \in 1..Len(ledger[s]) :
                   /\ IsDecided(ledger[s][k].ingest)
                   /\ ledger[s][k].bundle = b /\ ledger[s][k].flagged
    <3>1. PICK d \in Decided(s) : d.bundle = b
      OBVIOUS
    <3>2. /\ d \in detections /\ d.session = s /\ d.ingest \in Ingests
          /\ ingests[d.ingest].pc = "done" /\ Found(d)
      BY DEF Decided, UInv, Detection
    <3>3. requests[d.ingest].pc = "submitted"
      BY <3>2 DEF UInv
    <3>4. Carried(d.ingest, s, b)
      BY <3>1, <3>2, <3>3 DEF Found, Building
    <3>5. PICK k \in 1..Len(ledger[s]) :
              /\ ledger[s][k].ingest = d.ingest
              /\ ledger[s][k].bundle = b /\ ledger[s][k].flagged
      BY <3>2, <3>4 DEF Carried
    <3> QED
      BY <3>2, <3>5 DEF IsDecided
  <2>2. PICK k \in 1..Len(ledger[s]) :
            /\ IsDecided(ledger[s][k].ingest)
            /\ ledger[s][k].bundle = "visual" /\ ledger[s][k].flagged
    BY <2>1 DEF Bundles
  <2>3. PICK l \in 1..Len(ledger[s]) :
            /\ IsDecided(ledger[s][l].ingest)
            /\ ledger[s][l].bundle = "audio" /\ ledger[s][l].flagged
    BY <2>1 DEF Bundles
  <2>4. EscalationsIn(LatestRecord(s)) >= 1
    BY <2>2, <2>3 DEF WInv, ActedUpon, Contradict
  <2> QED
    BY <2>4 DEF EscalationsIn
<1> QED
  BY <1>1, <1>2, <1>3, PTL DEF VisualAudioSpec
=============================================================================
