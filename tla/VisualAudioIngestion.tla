-------------------------- MODULE VisualAudioIngestion --------------------------
(***************************************************************************)
(* ingestVisualAudioEvidence of SessionOrchestrationService: a camera      *)
(* frame and an audio clip go through the visual and the audio bundle      *)
(* adapter (orchestrator/src/bundles/), which ask the model server for     *)
(* embeddings, compare them with the session's running mean, feed the      *)
(* change-point detector, and only then hand their events to the pipeline. *)
(* The adapters do not take turns: requests of one session reach tracker   *)
(* and detector in the order the model server answers.                     *)
(*                                                                         *)
(* An embedding is the person it is of.  Its similarity to a running mean  *)
(* is any of Alike when the mean is of that person alone, any of Unlike    *)
(* when it is of others, and any of both when it is of several.            *)
(***************************************************************************)
EXTENDS SessionOrchestration

CONSTANTS
    People,
    Nobody,         \* a frame without a face, a clip without a voice
    Nothing,        \* null: no frame, or no clip, came with the request
    Captures,       \* what a request may bring: a frame and a clip
    Alike,          \* similarities of two embeddings of one person,
    Unlike          \*   and of two people

Bundles == { "visual", "audio" }

\* Their names are strings, as those of all bundles: of string literals the
\* provers know only that they differ.
ASSUME BundlesAssumption == Bundles \subseteq STRING
ASSUME PeopleAssumption == { Nobody, Nothing } \cap People = {}
ASSUME CapturesAssumption ==
    Captures \subseteq { capture \in [Bundles -> People \cup { Nobody, Nothing }] :
                           \E b \in Bundles : capture[b] # Nothing }
ASSUME SimilaritiesAssumption == Alike \cup Unlike \subseteq -100..100

VARIABLES
    references,     \* EmbeddingSelfConsistencyTracker.entries: who is in the mean
    sums,           \* ChangePointDetector.stateByKey: cumulativeDeviation
    requests,       \* the requests, up to the pipeline
    totals,         \* history: running totals of the deviations since the last change-point
    detections      \* history: every change-point the detector has reported

adapterVars == << references, sums, requests, totals, detections >>
allVars == << vars, adapterVars >>

VisualAudioInit ==
    /\ Init
    /\ references = [s \in Sessions |-> [b \in Bundles |-> {}]]
    /\ sums = [s \in Sessions |-> [b \in Bundles |-> 0]]
    /\ requests = [i \in Ingests |-> [pc |-> "idle"]]
    /\ totals = [s \in Sessions |-> [b \in Bundles |-> << 0 >>]]
    /\ detections = {}

-----------------------------------------------------------------------------
(* The adapters. *)

\* Where a request waits first, and where it goes when a bundle is done: the
\* visual adapter is through before the audio adapter begins.
FirstAwait(capture) == IF capture["visual"] # Nothing THEN "liveness" ELSE "audio"

After(b, capture) ==
    IF b = "visual" /\ capture["audio"] # Nothing THEN "audio" ELSE "built"

Ingest(i, s, capture, now) ==
    /\ requests[i].pc = "idle"
    /\ requests' = [requests EXCEPT ![i] =
         [pc |-> FirstAwait(capture), session |-> s, capture |-> capture,
          now |-> now, events |-> << >>]]
    /\ UNCHANGED << vars, references, sums, totals, detections >>

\* The adapter of bundle b returns its events.
Contribute(i, b, events) ==
    requests' = [requests EXCEPT ![i].events = @ \o events,
                                 ![i].pc = After(b, requests[i].capture)]

SelfConsistency(b) == [bundle |-> b, flagged |-> FALSE]

ChangePointEvent(b, detected) == [bundle |-> b, flagged |-> detected]

\* Which bundle the answer of the model server is for.
Awaits(i, b) == requests[i].pc \in (IF b = "visual" THEN { "liveness", "visual" } ELSE { "audio" })

\* The frame passes for live or not; either way its face is asked for next.
LivenessAnswers(i) ==
    /\ requests[i].pc = "liveness"
    /\ requests' = [requests EXCEPT ![i].pc = "visual"]
    /\ UNCHANGED << vars, references, sums, totals, detections >>

\* No face, no speech, or no answer within the timeout: the tracker is not
\* asked, and the events say so.
NoEmbedding(i, b) ==
    /\ Awaits(i, b)
    /\ Contribute(i, b, << SelfConsistency(b) >>)
    /\ UNCHANGED << vars, references, sums, totals, detections >>

Similarities(reference, person) ==
    (IF person \in reference THEN Alike ELSE {}) \cup
    (IF reference \ {person} # {} THEN Unlike ELSE {})

\* The first embedding of a bundle becomes the mean; there is nothing to
\* compare it with.
ObserveFirst(i, b) ==
    LET s      == requests[i].session
        person == requests[i].capture[b]
    IN  /\ requests[i].pc = b
        /\ person \in People
        /\ references[s][b] = {}
        /\ references' = [references EXCEPT ![s][b] = {person}]
        /\ Contribute(i, b, << SelfConsistency(b) >>)
        /\ UNCHANGED << vars, sums, totals, detections >>

\* Read off the state after the observation, which a change-point has reset.
DetectedByState(result) == result.sum > ControlLimit

Detected(result) == result.detected

Observe(i, b, similarity) ==
    LET s      == requests[i].session
        person == requests[i].capture[b]
        result == ObserveChangePoint(sums[s][b], similarity)
    IN  /\ requests[i].pc = b
        /\ person \in People
        /\ similarity \in Similarities(references[s][b], person)
        /\ references' = [references EXCEPT ![s][b] = @ \cup {person}]
        /\ sums' = [sums EXCEPT ![s][b] = result.sum]
        /\ totals' = [totals EXCEPT ![s][b] =
             IF result.detected THEN << 0 >> ELSE Append(@, Last(@) + Deviation(similarity))]
        /\ detections' = detections \cup
             (IF result.detected THEN {[ingest |-> i, session |-> s, bundle |-> b]} ELSE {})
        /\ Contribute(i, b, << SelfConsistency(b), ChangePointEvent(b, Detected(result)) >>)
        /\ UNCHANGED vars

\* An error the adapter does not translate: the request is rejected with what
\* the other adapter had found.
AdapterThrows(i) ==
    /\ requests[i].pc \in { "liveness", "visual", "audio" }
    /\ requests' = [requests EXCEPT ![i] = [pc |-> "thrown"]]
    /\ UNCHANGED << vars, references, sums, totals, detections >>

Submit(i) ==
    /\ requests[i].pc = "built"
    /\ Enqueue(i, requests[i].session, requests[i].events, requests[i].now)
    /\ requests' = [requests EXCEPT ![i] = [pc |-> "submitted"]]
    /\ UNCHANGED << references, sums, totals, detections >>

\* Means and sums live in memory only.
RestartAll(orphans) ==
    /\ Restart(orphans)
    /\ references' = [s \in Sessions |-> [b \in Bundles |-> {}]]
    /\ sums' = [s \in Sessions |-> [b \in Bundles |-> 0]]
    /\ totals' = [s \in Sessions |-> [b \in Bundles |-> << 0 >>]]
    /\ requests' = [i \in Ingests |->
         IF requests[i].pc \in { "idle", "submitted", "thrown" }
         THEN requests[i] ELSE [pc |-> "lost"]]
    /\ UNCHANGED detections

AdapterStep(i) ==
    \/ LivenessAnswers(i)
    \/ (\E b \in Bundles : NoEmbedding(i, b) \/ ObserveFirst(i, b))
    \/ (\E b \in Bundles, similarity \in Alike \cup Unlike : Observe(i, b, similarity))
    \/ Submit(i)

VisualAudioNext ==
    \/ \E i \in Ingests, s \in Sessions, capture \in Captures, now \in Nows : Ingest(i, s, capture, now)
    \/ \E i \in Ingests : AdapterStep(i) \/ AdapterThrows(i)
    \/ Serve /\ UNCHANGED adapterVars
    \/ \E orphans \in SUBSET Calls : RestartAll(orphans)

VisualAudioSpec == VisualAudioInit /\ [][VisualAudioNext]_allVars

-----------------------------------------------------------------------------
(* Properties *)

\* The detector is Page's test: whatever the order in which requests reached
\* it, its sum is the largest total deviation of any stretch of observations
\* ending now, and no stretch since the last change-point has exceeded the
\* control limit unreported (changePointDetector.ts:71-76).  A stretch is what
\* the running total has gained since one of its earlier values.
CusumIsPagesTest ==
    \A s \in Sessions, b \in Bundles :
        LET total == totals[s][b]
            tails == { Last(total) - total[k] : k \in DOMAIN total }
        IN  sums[s][b] = Max(tails) /\ Max(tails) <= ControlLimit

\* Detected and decided upon.
Decided(s) == { d \in detections : d.session = s /\ ingests[d.ingest].pc = "done" }

\* Two streams that broke are acted upon: once change-points of both bundles
\* were detected by requests that were decided, in whatever order they
\* overtook each other and across a restart, the disqualification is on file.
DecidedDetectionsEscalate ==
    \A s \in Sessions :
        AtRest(s) /\ { d.bundle : d \in Decided(s) } = Bundles =>
            /\ LatestRecord(s) # NoRecord
            /\ LatestRecord(s).disqualificationAnnotations # << >>

\* docs/architecture.md:294 says of a change-point that it "is logged
\* permanently regardless of subsequent recovery": once the pipeline is
\* through with a request, what it detected is in the ledger.
DetectionsAreLogged ==
    \A d \in detections :
        ingests[d.ingest].pc \in { "done", "rejected" } =>
            \E k \in DOMAIN ledger[d.session] :
                /\ ledger[d.session][k].ingest = d.ingest
                /\ ledger[d.session][k].bundle = d.bundle
                /\ ledger[d.session][k].flagged
=============================================================================
