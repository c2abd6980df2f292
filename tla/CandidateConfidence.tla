------------------------- MODULE CandidateConfidence -------------------------
(* candidateConfidence/: from a session's ledger to the ranked candidates.
   candidateConfidenceEngine.ts keeps, in the memory of the process, who has
   been claimed to be in the session; contradictionMetrics.ts and
   crossModalConsistency.ts judge each hypothesis; the engine then picks one.
   The steps are the ingestions of SessionOrchestrationService, each evaluated
   at the time its request arrived, which may be before that of the ingestion
   that held the session's lock. *)
EXTENDS EvidenceBundles

CONSTANTS
    ClaimObservations, MetadataObservations, DeviceObservations,
    LinguisticObservations, ElicitationObservations,
    BiometricEvents,     \* what the visual and audio adapters may report
    KnownCandidateLists, \* what listKnownCandidateIds may return, << >> for a real ATS
    Probability(_),      \* the sigmoid: any increasing function into 1 .. Certain - 1
    Certain,
    MaxIngestions

ASSUME ObservationsAssumption ==
    /\ DeviceObservations \subseteq [consentGranted : BOOLEAN, counts : [1 .. 4 -> Nat \cup {Null}]]
    /\ \A claims \in LinguisticObservations :
          Len(claims) \in Nat /\ DOMAIN claims = 1 .. Len(claims)
    /\ ElicitationObservations \subseteq { "yes", "no", None }
    /\ BiometricEvents \subseteq
          Seq([bundle : { "visual", "audio" }, signalName : BiometricSignals,
               healthStatus : HealthStatuses, value : Int, occurredAt : Nat])

VARIABLES
    knownCandidateIds, \* what it does return: the candidates of the pilot's ATS
    ledger,          \* the session's events, in ledger order
    clock,           \* the time
    evaluatedAt,     \* the time of the last evaluation
    participantIds,  \* the hypotheses, in the order they were added
    observedClaim,   \* the latest observation, or None
    ingested         \* what was ingested last, and how many ingestions there were

confidenceVars ==
    << knownCandidateIds, ledger, clock, evaluatedAt, participantIds, observedClaim, ingested >>

NothingIngested == [bundle |-> "none", observed |-> None]

ConfidenceInit ==
    /\ knownCandidateIds \in KnownCandidateLists
    /\ ledger = << >>
    /\ clock = 1
    /\ evaluatedAt = 1
    /\ participantIds = << >>
    /\ observedClaim = None
    /\ ingested = [last |-> NothingIngested, count |-> 0]

\* The request arrives at any time up to now, and its events are appended.
Ingest(bundle, observed, EventsAt(_)) ==
    /\ ingested.count < MaxIngestions
    /\ \E at \in { clock - 1, clock } :
          /\ at >= 0
          /\ evaluatedAt' = at
          /\ ledger' = ledger \o EventsAt(at)
    /\ ingested' = [last |-> [bundle |-> bundle, observed |-> observed], count |-> ingested.count + 1]
    /\ UNCHANGED << knownCandidateIds, clock >>

\* Set.add, one after the other.
WithParticipants(ids, added) ==
    FoldLeft(LAMBDA known, id : IF Contains(known, id) THEN known ELSE Append(known, id), ids, added)

IngestClaimAndMetadata(claim, metadata) ==
    /\ participantIds' = WithParticipants(participantIds, << claim.candidateId >> \o knownCandidateIds)
    /\ observedClaim' = claim
    /\ Ingest("claim", [claim |-> claim, metadata |-> metadata],
              LAMBDA at : ClaimEvents(claim, at) \o MetadataEvents(metadata, at))

\* The ATS cannot be reached: the request fails, but what was claimed is noted.
IngestClaimFails(claim) ==
    /\ participantIds' = WithParticipants(participantIds, << claim.candidateId >> \o knownCandidateIds)
    /\ observedClaim' = claim
    /\ ingested.count < MaxIngestions
    /\ ingested' = [last |-> NothingIngested, count |-> ingested.count + 1]
    /\ UNCHANGED << knownCandidateIds, ledger, clock, evaluatedAt >>

IngestDevice(observed) ==
    /\ Ingest("device", observed, LAMBDA at : DeviceEvents(observed, at))
    /\ UNCHANGED << participantIds, observedClaim >>

IngestLinguistic(claims) ==
    /\ Ingest("linguistic", claims, LAMBDA at : LinguisticEvents(claims, at))
    /\ UNCHANGED << participantIds, observedClaim >>

IngestElicitation(satisfied) ==
    /\ Ingest("elicitation", satisfied, LAMBDA at : ElicitationEvents(satisfied, at))
    /\ UNCHANGED << participantIds, observedClaim >>

IngestVisualAudio(events) ==
    /\ Ingest("biometric", events,
              LAMBDA at : [i \in DOMAIN events |-> [events[i] EXCEPT !.occurredAt = at]])
    /\ UNCHANGED << participantIds, observedClaim >>

Wait ==
    /\ clock < Horizon
    /\ clock' = clock + 1
    /\ UNCHANGED << knownCandidateIds, ledger, evaluatedAt, participantIds, observedClaim, ingested >>

\* Another process takes over, or this one restarts: the ledger stays, the
\* hypotheses do not.
Restart ==
    /\ participantIds # << >>
    /\ participantIds' = << >>
    /\ observedClaim' = None
    /\ UNCHANGED << knownCandidateIds, ledger, clock, evaluatedAt, ingested >>

ConfidenceNext ==
    \/ \E claim \in ClaimObservations, metadata \in MetadataObservations :
          IngestClaimAndMetadata(claim, metadata)
    \/ \E claim \in ClaimObservations : IngestClaimFails(claim)
    \/ \E observed \in DeviceObservations : IngestDevice(observed)
    \/ \E claims \in LinguisticObservations : IngestLinguistic(claims)
    \/ \E satisfied \in ElicitationObservations : IngestElicitation(satisfied)
    \/ \E events \in BiometricEvents : IngestVisualAudio(events)
    \/ Wait
    \/ Restart

ConfidenceSpec == ConfidenceInit /\ [][ConfidenceNext]_confidenceVars
----------------------------------------------------------------------------
\* contradictionMetrics.ts: the weight of the events that support a hypothesis
\* and of those that contradict it.
Weight(events, stance) ==
    FoldLeft(LAMBDA sum, event :
        IF Classification(event) = stance
        THEN sum + DecayWeight(event.occurredAt, evaluatedAt) ELSE sum, 0, events)

\* agreementScore, which the normalized consistencyScore equals; the
\* contradictionScore is the rest of 1.
AgreementScore(events) ==
    LET supports == Weight(events, "SUPPORTS")
        contradicts == Weight(events, "CONTRADICTS")
    IN IF supports + contradicts = 0 THEN [part |-> 1, of |-> 1]
       ELSE [part |-> supports, of |-> supports + contradicts]

\* latestItem and the stance of a modality read from one signal: of events at
\* the same time the first of the ledger counts.
Stance(events, bundle, signalName) ==
    LET of == SelectSeq(events, LAMBDA event : event.bundle = bundle /\ event.signalName = signalName)
        latest == SelectInSeq(of, LAMBDA event :
                      \A i \in DOMAIN of : of[i].occurredAt <= event.occurredAt)
    IN IF latest = 0 THEN "NEUTRAL" ELSE Classification(of[latest])

\* assessMetadata: one contradiction outweighs every support.
ClaimStance(events) ==
    LET stances == { Classification(event) : event \in { events[i] : i \in { j \in DOMAIN events :
                        /\ events[j].bundle = "claim"
                        /\ events[j].signalName \in { "display_name_match", "email_domain_match",
                                                      "calendar_invite_match" } } } }
    IN IF "CONTRADICTS" \in stances THEN "CONTRADICTS"
       ELSE IF "SUPPORTS" \in stances THEN "SUPPORTS" ELSE "NEUTRAL"

\* assessFace, assessSpeaker, assessMetadata, assessTranscript.
Modalities(events) ==
    [face |-> Stance(events, "visual", "face_embedding_self_consistency"),
     speaker |-> Stance(events, "audio", "voice_embedding_self_consistency"),
     metadata |-> ClaimStance(events),
     transcript |-> Stance(events, "linguistic", "biographical_claim_consistency")]

CountOf(modalities, stance) == Cardinality({ m \in DOMAIN modalities : modalities[m] = stance })

BiometricConflict(modalities) == { modalities.face, modalities.speaker } = { "SUPPORTS", "CONTRADICTS" }

\* modalityScores: consistency in quarters, and disagreement as a part of the
\* modalities that are known.
ModalityScores(modalities) ==
    LET aligned == CountOf(modalities, "SUPPORTS")
        contradicting == CountOf(modalities, "CONTRADICTS")
    IN IF BiometricConflict(modalities)
       THEN [consistency |-> 0, disagreement |-> 1, known |-> 1]
       ELSE IF aligned + contradicting = 0 THEN [consistency |-> 4, disagreement |-> 0, known |-> 1]
       ELSE [consistency |-> aligned, disagreement |-> contradicting,
             known |-> aligned + contradicting]

\* What disagreement, a fraction, leaves of a score.
Lessened(score, part, of) == (score * (2 * of - part)) \div (2 * of)

\* crossModalSelectionScore, out of Certain: probability * consistency *
\* (1 - disagreement / 2), with the greater of the two disagreements.
CrossModalSelectionScore(probability, scores, agreement) ==
    LET consistent == (((probability * scores.consistency) \div 4) * agreement.part) \div agreement.of
    IN Min({ Lessened(consistent, scores.disagreement, scores.known),
             Lessened(consistent, agreement.of - agreement.part, agreement.of) })

\* The score of a hypothesis with this evidence.
SelectionScore(events) ==
    CrossModalSelectionScore(Probability(LogOdds(events, evaluatedAt)),
                             ModalityScores(Modalities(events)), AgreementScore(events))

WithoutClaims(events) ==
    FoldLeft(LAMBDA kept, event :
        IF event.bundle = "claim" THEN kept ELSE Append(kept, event), << >>, events)

\* The evidence of one of several hypotheses: the ledger without its claim
\* events, and the latest observation compared with that candidate's record now.
HypothesisEvents(participantId) ==
    WithoutClaims(ledger) \o ClaimEvents([observedClaim EXCEPT !.candidateId = participantId], evaluatedAt)

\* Any pool is treated as several hypotheses.
AnyHypothesis == Len(participantIds) > 0 /\ observedClaim # None

ManyHypotheses == Len(participantIds) > 1 /\ observedClaim # None

\* What a participant of the pool is judged by; with one, the whole ledger.
EventsOf(participantId) ==
    IF ManyHypotheses THEN HypothesisEvents(participantId) ELSE ledger

CandidateWith(participantId, events) ==
    [id |-> participantId, probability |-> Probability(LogOdds(events, evaluatedAt)),
     score |-> SelectionScore(events)]

Candidate(participantId) == CandidateWith(participantId, EventsOf(participantId))

\* rankedCandidates: by probability and then, stably, by selection score; one
\* candidate alone is not ranked.
Ranked ==
    LET candidates == FoldLeft(LAMBDA all, id : Append(all, Candidate(id)), << >>, participantIds)
        byProbability == StablySorted(candidates, LAMBDA one, other :
                                          one.probability > other.probability)
    IN StablySorted(byProbability, LAMBDA one, other : one.score > other.score)

\* The events whose posterior goes on to the lifecycle: selectedPosterior.
SelectedEvents == IF ManyHypotheses THEN EventsOf(Ranked[1].id) ELSE ledger
----------------------------------------------------------------------------
\* What was observed speaks against, or for, the candidate: by the observation
\* itself, not by the events made of it.
Differ(one, other) == one # None /\ other # None /\ one # other
Agree(one, other) == one # None /\ one = other

Filed(claim) == claim.candidateId \in DOMAIN Ats

Against(bundle, observed) ==
    CASE bundle = "claim" ->
            \/ /\ Filed(observed.claim)
               /\ LET record == Ats[observed.claim.candidateId] IN
                  \/ Differ(observed.claim.displayName, record.applicationName)
                  \/ Differ(observed.claim.joinEmail, record.applicationEmail)
                  \/ Differ(observed.claim.calendarAttendeeEmail, record.calendarInviteAttendeeEmail)
            \/ observed.metadata.joinMethod = "forwarded_link"
            \/ Differ(observed.metadata.observedIpCountry, observed.metadata.statedCountry)
            \/ Differ(observed.metadata.observedDeviceFingerprint,
                      observed.metadata.priorSessionDeviceFingerprint)
            \/ observed.metadata.virtualCaptureDeviceDetected = "yes"
            \/ observed.metadata.multiMonitorDetected = "yes"
      [] bundle = "device" -> observed.consentGranted /\ \E i \in 1 .. 4 : observed.counts[i] > 0
      [] bundle = "linguistic" ->
            \E i \in DOMAIN observed : Differ(observed[i].observedValue, observed[i].claimedValue)
      [] bundle = "elicitation" -> observed = "no"
      [] OTHER -> \E i \in DOMAIN observed : observed[i].healthStatus = "OK"

For(bundle, observed) ==
    CASE bundle = "claim" ->
            \/ /\ Filed(observed.claim)
               /\ LET record == Ats[observed.claim.candidateId] IN
                  \/ Agree(observed.claim.displayName, record.applicationName)
                  \/ Agree(observed.claim.joinEmail, record.applicationEmail)
                  \/ Agree(observed.claim.calendarAttendeeEmail, record.calendarInviteAttendeeEmail)
                  \/ record.hasReferencePhoto \/ record.hasPriorIdVerification
                  \/ record.hasAccountHistory
            \/ observed.metadata.joinMethod = "direct_invite_link"
            \/ Agree(observed.metadata.observedIpCountry, observed.metadata.statedCountry)
            \/ Agree(observed.metadata.observedDeviceFingerprint,
                     observed.metadata.priorSessionDeviceFingerprint)
      [] bundle = "device" -> FALSE
      [] bundle = "linguistic" ->
            \E i \in DOMAIN observed : Agree(observed[i].observedValue, observed[i].claimedValue)
      [] bundle = "elicitation" -> observed = "yes"
      [] OTHER -> \E i \in DOMAIN observed : observed[i].healthStatus = "OK"

\* An ingestion counts against the candidate only if something in it was
\* observed to differ, and for the candidate only if something was observed to
\* agree: a declined consent, a missing record, an unanswered challenge or a
\* null field, with whatever placeholder its adapter stores, moves nothing
\* ("absence of evidence is never evidence against", evidenceClassifier.ts).
AbsenceIsNotEvidence ==
    [][\A i \in DOMAIN ledger' : i > Len(ledger) =>
          LET added == Contribution(ledger'[i], evaluatedAt')
              last == ingested'.last
          IN /\ added < 0 => Against(last.bundle, last.observed)
             /\ added > 0 => For(last.bundle, last.observed)]_confidenceVars

Total(contributors) ==
    FoldLeft(LAMBDA sum, contributor : sum + contributor.adds, 0, contributors)

\* The contributors reported for the selected hypothesis explain its score:
\* together they make up the log odds when they all fit, and otherwise none
\* that is left out outweighs one that is listed.
ContributorsExplain(top, events) ==
    IF Len(top) < MaxContributors
    THEN Total(top) = LogOdds(events, evaluatedAt)
    ELSE \A event \in Range(events) \ { top[i].event : i \in DOMAIN top } :
             Eligible(event) => Magnitude(Contribution(event, evaluatedAt)) <= Magnitude(Last(top).adds)

ContributorsExplainTheScore ==
    LET events == SelectedEvents
    IN ContributorsExplain(TopEvidenceContributors(events, evaluatedAt), events)

\* A restart forgets who was claimed to be there, which is in no store. As long
\* as it was one candidate, the posterior is what it was before.
RestartsKeepTheScore ==
    [][Restart /\ Len(participantIds) = 1 =>
          LogOdds(SelectedEvents', evaluatedAt) = LogOdds(SelectedEvents, evaluatedAt)]_confidenceVars
=============================================================================
