------------------------------- MODULE Fusion -------------------------------
(* fusion/: the registry of likelihood ratios, decay, clamp and the sum of the
   Fusion Engine, with the two readers of the same sum,
   evidenceClassification/evidenceClassifier.ts and
   candidateConfidence/contributors.ts.

   A log-likelihood ratio is in thousandths. Ages are in half-lives, at most
   Horizon of them apart, so a decayed ratio is an exact integer in units of
   1 / (1000 * 2^Horizon). The value of an event is the one number its
   extractor looks at: 1 or 0 for a boolean, a count, a similarity in tenths,
   Null for anything the extractor does not recognise. The probability, a
   sigmoid, is left to LogOdds, in which it is monotone, and the credible
   interval is left out. *)
EXTENDS Integers, Sequences, FiniteSets, SequencesExt

CONSTANTS
    Horizon,            \* half-lives the model looks at
    MaxContributors     \* DEFAULT_MAX_TOP_CONTRIBUTORS

ASSUME FusionAssumption == Horizon \in Nat \ {0} /\ MaxContributors \in Nat \ {0}

Null == -1

\* A registered signal. Its extractor tells apart both outcomes ("match"), only
\* support ("presence") or only contradiction ("flag").
RegisteredSignal(extractor, threshold, supports, contradicts) ==
    [extractor |-> extractor, threshold |-> threshold,
     supports |-> supports, contradicts |-> contradicts]

\* The tables of signals of each bundle; screen_share_state and the two change-point
\* signals are deliberately in none.
ClaimSignals ==
    [display_name_match |-> RegisteredSignal("match", 1, 50, -50),
     email_domain_match |-> RegisteredSignal("match", 1, 150, -150),
     calendar_invite_match |-> RegisteredSignal("match", 1, 150, -150),
     reference_photo_available |-> RegisteredSignal("presence", 1, 50, -10),
     prior_id_verification_available |-> RegisteredSignal("presence", 1, 200, -10),
     account_history_available |-> RegisteredSignal("presence", 1, 100, -10)]

MetadataSignals ==
    [join_method |-> RegisteredSignal("match", 1, 100, -100),
     ip_geolocation_consistency |-> RegisteredSignal("match", 1, 50, -50),
     device_fingerprint_continuity |-> RegisteredSignal("match", 1, 80, -80),
     virtual_capture_device_detected |-> RegisteredSignal("flag", 1, 10, -300),
     multi_monitor_detected |-> RegisteredSignal("flag", 1, 10, -50)]

VisualSignals ==
    [face_embedding_self_consistency |-> RegisteredSignal("match", 7, 400, -400),
     visual_liveness |-> RegisteredSignal("match", 1, 50, -500)]

AudioSignals ==
    [voice_embedding_self_consistency |-> RegisteredSignal("match", 7, 350, -350)]

DeviceSignals ==
    [tab_focus_change |-> RegisteredSignal("flag", 5, 1, -10),
     application_switch |-> RegisteredSignal("flag", 3, 1, -10),
     clipboard_paste |-> RegisteredSignal("flag", 1, 1, -15),
     keyboard_rhythm_anomaly |-> RegisteredSignal("flag", 1, 1, -15)]

LinguisticSignals ==
    [biographical_claim_consistency |-> RegisteredSignal("match", 1, 100, -150)]

ElicitationSignals ==
    [active_elicitation_response |-> RegisteredSignal("match", 1, 300, -450)]

REGISTRY ==
    [claim |-> ClaimSignals, metadata |-> MetadataSignals, visual |-> VisualSignals,
     audio |-> AudioSignals, device |-> DeviceSignals, linguistic |-> LinguisticSignals,
     elicitation |-> ElicitationSignals]

Registered(event) == event.signalName \in DOMAIN REGISTRY[event.bundle]

SpecOf(event) == REGISTRY[event.bundle][event.signalName]

ExtractOutcome(spec, value) ==
    CASE value = Null -> "NEUTRAL"
      [] value >= spec.threshold /\ spec.extractor # "flag" -> "SUPPORTS"
      [] value >= spec.threshold /\ spec.extractor = "flag" -> "CONTRADICTS"
      [] value # Null /\ value < spec.threshold /\ spec.extractor = "match" -> "CONTRADICTS"
      [] OTHER -> "NEUTRAL"

\* The payload is read whatever the signal's health.
ResolveWhateverTheHealth(event) ==
    IF Registered(event) THEN ExtractOutcome(SpecOf(event), event.value) ELSE "NEUTRAL"

\* The caller excludes SERVICE_UNAVAILABLE events.
ResolveSignalOutcome(event) ==
    IF event.healthStatus = "OK" /\ Registered(event)
    THEN ExtractOutcome(SpecOf(event), event.value) ELSE "NEUTRAL"

SignalLogLikelihoodRatio(event) ==
    CASE ResolveSignalOutcome(event) = "SUPPORTS" -> SpecOf(event).supports
      [] ResolveSignalOutcome(event) = "CONTRADICTS" -> SpecOf(event).contradicts
      [] OTHER -> 0

\* decayWeight, in units of 1 / 2^Horizon: no event is younger than its evaluation.
DecayWeight(occurredAt, evaluatedAt) ==
    IF evaluatedAt >= occurredAt THEN 2 ^ (Horizon - (evaluatedAt - occurredAt)) ELSE 2 ^ Horizon

Clamp == 600 * 2 ^ Horizon

\* What one event adds to the log odds: decayed, then clamped.
Contribution(event, evaluatedAt) ==
    LET decayed == SignalLogLikelihoodRatio(event) * DecayWeight(event.occurredAt, evaluatedAt)
    IN IF decayed > Clamp THEN Clamp ELSE IF decayed < -Clamp THEN -Clamp ELSE decayed

\* What is not excluded "before any other step" (fusionEngine.ts).
Eligible(event) == event.healthStatus # "SERVICE_UNAVAILABLE"

Magnitude(n) == IF n < 0 THEN -n ELSE n

\* computePosterior: the log odds.
LogOdds(events, evaluatedAt) ==
    FoldLeft(LAMBDA sum, event :
        IF Eligible(event) THEN sum + Contribution(event, evaluatedAt) ELSE sum, 0, events)

\* Array.prototype.sort, which keeps equals in order: one after the other comes
\* before the first that it is better than.
StablySorted(s, Better(_, _)) ==
    FoldLeft(LAMBDA sorted, one :
        LET worse == SelectInSeq(sorted, LAMBDA other : Better(one, other))
        IN IF worse = 0 THEN Append(sorted, one) ELSE InsertAt(sorted, worse, one), << >>, s)

\* By what each adds, whichever way.
StrongestFirst(found) ==
    StablySorted(found, LAMBDA one, other : Magnitude(one.adds) > Magnitude(other.adds))

\* classifyEvidenceEvent: the stance of any event, of any health.
Classification(event) ==
    IF event.healthStatus = "OK" THEN ResolveSignalOutcome(event) ELSE "NEUTRAL"

FirstOf(s) == SubSeq(s, 1, IF Len(s) < MaxContributors THEN Len(s) ELSE MaxContributors)

\* What each event that contributes adds.
Contributors(events, evaluatedAt) ==
    FoldLeft(LAMBDA found, event :
        LET added == Contribution(event, evaluatedAt)
        IN IF Eligible(event) /\ added # 0
           THEN Append(found, [event |-> event, adds |-> added]) ELSE found, << >>, events)

\* topEvidenceContributors: the events that contribute, strongest first.
TopEvidenceContributors(events, evaluatedAt) ==
    FirstOf(StrongestFirst(Contributors(events, evaluatedAt)))
=============================================================================
