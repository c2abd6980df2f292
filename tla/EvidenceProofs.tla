---------------------------- MODULE EvidenceProofs ----------------------------
(***************************************************************************)
(* Proofs about CandidateConfidence, Explanation and the adapters and the  *)
(* fusion they are built on, for any observations, records on file and     *)
(* times: an event adds to the log odds what its signal observed and       *)
(* nothing else, a restart changes no score of a single candidate, and     *)
(* what is told about a score (contributors, report, narrative) is what    *)
(* made it.                                                                *)
(***************************************************************************)
EXTENDS Explanation, OperatorLemmas, SequenceTheorems, FiniteSetTheorems, TLAPS

-----------------------------------------------------------------------------
(* What one event adds *)

\* A power of two is a positive number.
LEMMA PowersArePositive == \A n \in Nat : 2 ^ n \in Nat \ {0}
<1> SUFFICES ASSUME NEW n \in Nat PROVE 2 ^ n \in Nat \ {0}
  OBVIOUS
<1>1. IsFiniteSet(1..n) /\ Cardinality(1..n) = n
  BY FS_Interval
<1>2. IsFiniteSet(SUBSET (1..n)) /\ Cardinality(SUBSET (1..n)) = 2 ^ n
  BY <1>1, FS_SUBSET
<1>3. SUBSET (1..n) # {}
  OBVIOUS
<1> QED
  BY <1>2, <1>3, FS_CardinalityType, FS_EmptySet

\* What a fresh event adds has the sign of its ratio: the clamp cuts neither.
LEMMA ContributionSign ==
    ASSUME NEW event, NEW at \in Int, event.occurredAt = at,
           NEW r \in Int, r = SignalLogLikelihoodRatio(event)
    PROVE  /\ Contribution(event, at) < 0 => r < 0
           /\ Contribution(event, at) > 0 => r > 0
<1>1. PICK one \in Nat \ {0} : one = 2 ^ Horizon
  BY FusionAssumption, PowersArePositive
<1>2. DecayWeight(event.occurredAt, at) = one
  <2>1. Horizon - (at - at) = Horizon /\ at >= at
    BY FusionAssumption
  <2> QED
    BY <1>1, <2>1 DEF DecayWeight
<1>3. PICK decayed \in Int, limit \in Nat \ {0} : decayed = r * one /\ limit = 600 * one
  OBVIOUS
<1>4. Contribution(event, at) =
      IF decayed > limit THEN limit ELSE IF decayed < -limit THEN -limit ELSE decayed
  BY <1>1, <1>2, <1>3 DEF Contribution, Clamp
<1>5. (decayed < 0 => r < 0) /\ (decayed > 0 => r > 0)
  BY <1>3
<1> QED
  BY <1>3, <1>4, <1>5

\* The registry's ratios are positive for support and negative for the contrary.
Ratios(spec) ==
    /\ spec.extractor \in { "match", "presence", "flag" } /\ spec.threshold \in 1..7
    /\ spec.supports \in Nat \ {0} /\ spec.contradicts \in Int /\ spec.contradicts < 0

\* What an extractor makes of a value.
LEMMA OutcomeOfValue ==
    ASSUME NEW spec, Ratios(spec), NEW value \in Int
    PROVE  /\ ExtractOutcome(spec, value) = "CONTRADICTS" =>
                  /\ value # Null
                  /\ \/ value >= spec.threshold /\ spec.extractor = "flag"
                     \/ value < spec.threshold /\ spec.extractor = "match"
           /\ ExtractOutcome(spec, value) = "SUPPORTS" =>
                  /\ value # Null
                  /\ value >= spec.threshold /\ spec.extractor # "flag"
<1>1. CASE value = Null
  <2>1. ExtractOutcome(spec, value) = "NEUTRAL"
    BY <1>1 DEF ExtractOutcome, Ratios, Null
  <2> QED
    BY <2>1
<1>2. CASE value # Null /\ value >= spec.threshold /\ spec.extractor = "flag"
  <2>1. ExtractOutcome(spec, value) = "CONTRADICTS"
    BY <1>2 DEF ExtractOutcome, Ratios
  <2> QED
    BY <1>2, <2>1
<1>3. CASE value # Null /\ value >= spec.threshold /\ spec.extractor # "flag"
  <2>1. ExtractOutcome(spec, value) = "SUPPORTS"
    BY <1>3 DEF ExtractOutcome, Ratios
  <2> QED
    BY <1>3, <2>1
<1>4. CASE value # Null /\ value < spec.threshold /\ spec.extractor = "match"
  <2>1. ExtractOutcome(spec, value) = "CONTRADICTS"
    BY <1>4 DEF ExtractOutcome, Ratios
  <2> QED
    BY <1>4, <2>1
<1>5. CASE value # Null /\ value < spec.threshold /\ spec.extractor # "match"
  <2>1. ExtractOutcome(spec, value) = "NEUTRAL"
    BY <1>5 DEF ExtractOutcome, Ratios
  <2> QED
    BY <2>1
<1> QED
  BY <1>1, <1>2, <1>3, <1>4, <1>5 DEF Ratios

\* What a registered signal of this kind says, by its value.
LEMMA OutcomeOfRatio ==
    ASSUME NEW event, NEW at \in Int, event.occurredAt = at,
           NEW spec, Ratios(spec), event.value \in Int,
           Registered(event) => spec = SpecOf(event)
    PROVE  /\ Contribution(event, at) < 0 =>
                  /\ Registered(event) /\ event.healthStatus = "OK" /\ event.value # Null
                  /\ \/ event.value >= spec.threshold /\ spec.extractor = "flag"
                     \/ event.value < spec.threshold /\ spec.extractor = "match"
           /\ Contribution(event, at) > 0 =>
                  /\ Registered(event) /\ event.healthStatus = "OK" /\ event.value # Null
                  /\ event.value >= spec.threshold /\ spec.extractor # "flag"
<1>1. PICK r \in Int : r = SignalLogLikelihoodRatio(event)
  BY DEF SignalLogLikelihoodRatio, ResolveSignalOutcome, Ratios
<1>2. /\ Contribution(event, at) < 0 => r < 0
      /\ Contribution(event, at) > 0 => r > 0
  BY <1>1, ContributionSign
<1>3. /\ r < 0 => Registered(event) /\ ResolveSignalOutcome(event) = "CONTRADICTS"
      /\ r > 0 => Registered(event) /\ ResolveSignalOutcome(event) = "SUPPORTS"
  BY <1>1 DEF SignalLogLikelihoodRatio, ResolveSignalOutcome, Ratios
<1>4. ASSUME Registered(event), ResolveSignalOutcome(event) = "CONTRADICTS"
      PROVE  /\ event.healthStatus = "OK" /\ event.value # Null
             /\ \/ event.value >= spec.threshold /\ spec.extractor = "flag"
                \/ event.value < spec.threshold /\ spec.extractor = "match"
  <2>1. event.healthStatus = "OK" /\ ExtractOutcome(spec, event.value) = "CONTRADICTS"
    BY <1>4 DEF ResolveSignalOutcome
  <2> QED
    BY <2>1, OutcomeOfValue
<1>5. ASSUME Registered(event), ResolveSignalOutcome(event) = "SUPPORTS"
      PROVE  /\ event.healthStatus = "OK" /\ event.value # Null
             /\ event.value >= spec.threshold /\ spec.extractor # "flag"
  <2>1. event.healthStatus = "OK" /\ ExtractOutcome(spec, event.value) = "SUPPORTS"
    BY <1>5 DEF ResolveSignalOutcome
  <2> QED
    BY <2>1, OutcomeOfValue
<1> QED
  BY <1>2, <1>3, <1>4, <1>5

-----------------------------------------------------------------------------
(* What one event says *)

\* The signals that tell both outcomes apart, by bundle.
Matches(bundle) ==
    CASE bundle = "claim" ->
            { "display_name_match", "email_domain_match", "calendar_invite_match" }
      [] bundle = "metadata" ->
            { "join_method", "ip_geolocation_consistency", "device_fingerprint_continuity" }
      [] bundle = "linguistic" -> { "biographical_claim_consistency" }
      [] bundle = "elicitation" -> { "active_elicitation_response" }

Presences ==
    { "reference_photo_available", "prior_id_verification_available", "account_history_available" }

Detections == { "virtual_capture_device_detected", "multi_monitor_detected" }

Counts == { "tab_focus_change", "application_switch", "clipboard_paste", "keyboard_rhythm_anomaly" }

\* What the registry says of them.
LEMMA RegistryRatios ==
    ASSUME NEW event
    PROVE  /\ event.bundle \in { "claim", "metadata", "linguistic", "elicitation" }
              /\ event.signalName \in Matches(event.bundle) =>
                  /\ Ratios(SpecOf(event))
                  /\ SpecOf(event).extractor = "match" /\ SpecOf(event).threshold = 1
           /\ event.bundle = "claim" /\ event.signalName \in Presences =>
                  Ratios(SpecOf(event)) /\ SpecOf(event).extractor = "presence"
                  /\ SpecOf(event).threshold = 1
           /\ event.bundle = "metadata" /\ event.signalName \in Detections =>
                  Ratios(SpecOf(event)) /\ SpecOf(event).extractor = "flag"
                  /\ SpecOf(event).threshold = 1
           /\ event.bundle = "device" /\ event.signalName \in Counts =>
                  Ratios(SpecOf(event)) /\ SpecOf(event).extractor = "flag"
<1>1. CASE event.bundle = "claim"
  <2>1. SpecOf(event) = ClaimSignals[event.signalName]
    BY <1>1 DEF SpecOf, REGISTRY
  <2>2. ASSUME event.signalName \in Matches("claim")
        PROVE  Ratios(SpecOf(event)) /\ SpecOf(event).extractor = "match" /\ SpecOf(event).threshold = 1
    BY <2>1, <2>2 DEF ClaimSignals, Matches, Ratios, RegisteredSignal
  <2>3. ASSUME event.signalName \in Presences
        PROVE  Ratios(SpecOf(event)) /\ SpecOf(event).extractor = "presence" /\ SpecOf(event).threshold = 1
    BY <2>1, <2>3 DEF ClaimSignals, Presences, Ratios, RegisteredSignal
  <2> QED
    BY <1>1, <2>2, <2>3
<1>2. CASE event.bundle = "metadata"
  <2>1. SpecOf(event) = MetadataSignals[event.signalName]
    BY <1>2 DEF SpecOf, REGISTRY
  <2>2. ASSUME event.signalName \in Matches("metadata")
        PROVE  Ratios(SpecOf(event)) /\ SpecOf(event).extractor = "match" /\ SpecOf(event).threshold = 1
    BY <2>1, <2>2 DEF MetadataSignals, Matches, Ratios, RegisteredSignal
  <2>3. ASSUME event.signalName \in Detections
        PROVE  Ratios(SpecOf(event)) /\ SpecOf(event).extractor = "flag" /\ SpecOf(event).threshold = 1
    BY <2>1, <2>3 DEF MetadataSignals, Detections, Ratios, RegisteredSignal
  <2> QED
    BY <1>2, <2>2, <2>3
<1>3. CASE event.bundle = "linguistic"
  <2>1. SpecOf(event) = LinguisticSignals[event.signalName]
    BY <1>3 DEF SpecOf, REGISTRY
  <2>2. ASSUME event.signalName \in Matches("linguistic")
        PROVE  Ratios(SpecOf(event)) /\ SpecOf(event).extractor = "match" /\ SpecOf(event).threshold = 1
    BY <2>1, <2>2 DEF LinguisticSignals, Matches, Ratios, RegisteredSignal
  <2> QED
    BY <1>3, <2>2
<1>4. CASE event.bundle = "elicitation"
  <2>1. SpecOf(event) = ElicitationSignals[event.signalName]
    BY <1>4 DEF SpecOf, REGISTRY
  <2>2. ASSUME event.signalName \in Matches("elicitation")
        PROVE  Ratios(SpecOf(event)) /\ SpecOf(event).extractor = "match" /\ SpecOf(event).threshold = 1
    BY <2>1, <2>2 DEF ElicitationSignals, Matches, Ratios, RegisteredSignal
  <2> QED
    BY <1>4, <2>2
<1>5. CASE event.bundle = "device"
  <2>1. SpecOf(event) = DeviceSignals[event.signalName]
    BY <1>5 DEF SpecOf, REGISTRY
  <2> QED
    BY <1>5, <2>1 DEF DeviceSignals, Counts, Ratios, RegisteredSignal
<1> QED
  BY <1>1, <1>2, <1>3, <1>4, <1>5

\* An event counts only as these allow.
Counting(event, at, against, for) ==
    /\ Contribution(event, at) < 0 => against
    /\ Contribution(event, at) > 0 => for

\* An event of a signal that tells both outcomes apart: its value is 1 if they
\* agree and 0 if they do not.
LEMMA MatchCounts ==
    ASSUME NEW event, NEW at \in Int, event.occurredAt = at,
           event.bundle \in { "claim", "metadata", "linguistic", "elicitation" },
           event.signalName \in Matches(event.bundle), event.value \in { Null, 0, 1 }
    PROVE  Counting(event, at, event.healthStatus = "OK" /\ event.value = 0,
                               event.healthStatus = "OK" /\ event.value = 1)
<1> DEFINE spec == SpecOf(event)
<1>1. Ratios(spec) /\ spec.extractor = "match" /\ spec.threshold = 1
  BY RegistryRatios
<1>2. event.value \in Int
  BY DEF Null
<1> HIDE DEF spec
<1>3. Registered(event) => spec = SpecOf(event)
  BY DEF spec
<1>4. /\ Contribution(event, at) < 0 => event.healthStatus = "OK" /\ event.value # Null /\ event.value < 1
      /\ Contribution(event, at) > 0 => event.healthStatus = "OK" /\ event.value # Null /\ event.value >= 1
  BY <1>1, <1>2, <1>3, OutcomeOfRatio
<1> QED
  BY <1>4 DEF Counting, Null

\* An event that can only speak against the candidate.
LEMMA FlagCounts ==
    ASSUME NEW event, NEW at \in Int, event.occurredAt = at, event.value \in Int,
           \/ event.bundle = "metadata" /\ event.signalName \in Detections
           \/ event.bundle = "device" /\ event.signalName \in Counts
    PROVE  Counting(event, at, event.healthStatus = "OK" /\ event.value > 0, FALSE)
<1> DEFINE spec == SpecOf(event)
<1>1. Ratios(spec) /\ spec.extractor = "flag"
  BY RegistryRatios
<1> HIDE DEF spec
<1>2. Registered(event) => spec = SpecOf(event)
  BY DEF spec
<1>3. /\ Contribution(event, at) < 0 => event.healthStatus = "OK" /\ event.value >= spec.threshold
      /\ ~(Contribution(event, at) > 0)
  BY <1>1, <1>2, OutcomeOfRatio
<1>4. spec.threshold \in 1..7
  BY <1>1 DEF Ratios
<1> QED
  BY <1>3, <1>4 DEF Counting

\* An event that can only speak for the candidate.
LEMMA PresenceCounts ==
    ASSUME NEW event, NEW at \in Int, event.occurredAt = at, event.value \in { 0, 1 },
           event.bundle = "claim", event.signalName \in Presences
    PROVE  Counting(event, at, FALSE, event.value = 1)
<1> DEFINE spec == SpecOf(event)
<1>1. Ratios(spec) /\ spec.extractor = "presence" /\ spec.threshold = 1
  BY RegistryRatios
<1> HIDE DEF spec
<1>2. Registered(event) => spec = SpecOf(event)
  BY DEF spec
<1>3. event.value \in Int
  OBVIOUS
<1>4. /\ Contribution(event, at) > 0 => event.value >= 1
      /\ ~(Contribution(event, at) < 0)
  BY <1>1, <1>2, <1>3, OutcomeOfRatio
<1> QED
  BY <1>4 DEF Counting

\* An event that is not registered, or not of a healthy signal, adds nothing.
LEMMA NothingCounts ==
    ASSUME NEW event, NEW at \in Int, event.occurredAt = at,
           ~Registered(event) \/ event.healthStatus # "OK"
    PROVE  Counting(event, at, FALSE, FALSE)
<1>1. SignalLogLikelihoodRatio(event) = 0
  BY DEF SignalLogLikelihoodRatio, ResolveSignalOutcome
<1>2. PICK r \in Int : r = 0 /\ r = SignalLogLikelihoodRatio(event)
  BY <1>1
<1> QED
  BY <1>2, ContributionSign DEF Counting

-----------------------------------------------------------------------------
(* What an adapter reports *)

\* All events of a report count only as these allow.
Reporting(events, at, against, for) ==
    /\ \E S : events \in Seq(S)
    /\ \A i \in DOMAIN events : Counting(events[i], at, against, for)

\* A name or an address against the record on file.
LEMMA MatchEventCounts ==
    ASSUME NEW signalName \in Matches("claim"), NEW observed, NEW filed, NEW at \in Int
    PROVE  Counting(MatchEvent(signalName, observed, filed, at), at,
                    Differ(observed, filed), Agree(observed, filed))
<1> DEFINE event == MatchEvent(signalName, observed, filed, at)
<1>1. /\ event.bundle = "claim" /\ event.signalName = signalName /\ event.occurredAt = at
      /\ event.value = Flag(observed # None /\ observed = filed)
      /\ event.healthStatus = Health(observed # None /\ filed # None)
  BY DEF MatchEvent, Event
<1> HIDE DEF event
<1>2. event.value \in { Null, 0, 1 }
  BY <1>1 DEF Flag
<1>3. Counting(event, at, event.healthStatus = "OK" /\ event.value = 0,
                          event.healthStatus = "OK" /\ event.value = 1)
  BY <1>1, <1>2, MatchCounts
<1>4. /\ event.healthStatus = "OK" => observed # None /\ filed # None
      /\ event.value = 0 => ~(observed # None /\ observed = filed)
      /\ event.value = 1 => observed # None /\ observed = filed
  BY <1>1 DEF Flag, Health
<1>5. Counting(event, at, Differ(observed, filed), Agree(observed, filed))
  BY <1>3, <1>4 DEF Counting, Differ, Agree
<1> QED
  BY <1>5 DEF event

\* Two places, or two devices.
LEMMA ConsistencyEventCounts ==
    ASSUME NEW signalName \in Matches("metadata"), NEW observed, NEW stated, NEW at \in Int
    PROVE  Counting(ConsistencyEvent(signalName, observed, stated, at), at,
                    Differ(observed, stated), Agree(observed, stated))
<1> DEFINE event == ConsistencyEvent(signalName, observed, stated, at)
           bothPresent == observed # None /\ stated # None
<1>1. /\ event.bundle = "metadata" /\ event.signalName = signalName /\ event.occurredAt = at
      /\ event.value = IF bothPresent THEN Flag(observed = stated) ELSE Null
      /\ event.healthStatus = Health(bothPresent)
  BY DEF ConsistencyEvent, Event
<1> HIDE DEF event
<1>2. event.value \in { Null, 0, 1 }
  BY <1>1 DEF Flag
<1>3. Counting(event, at, event.healthStatus = "OK" /\ event.value = 0,
                          event.healthStatus = "OK" /\ event.value = 1)
  BY <1>1, <1>2, MatchCounts
<1>4. /\ event.healthStatus = "OK" => bothPresent
      /\ bothPresent /\ event.value = 0 => observed # stated
      /\ bothPresent /\ event.value = 1 => observed = stated
  BY <1>1 DEF Flag, Health
<1>5. Counting(event, at, Differ(observed, stated), Agree(observed, stated))
  BY <1>3, <1>4 DEF Counting, Differ, Agree
<1> QED
  BY <1>5 DEF event

\* A virtual camera, or a second monitor.
LEMMA DetectionEventCounts ==
    ASSUME NEW signalName \in Detections, NEW detected, NEW at \in Int
    PROVE  Counting(DetectionEvent(signalName, detected, at), at, detected = "yes", FALSE)
<1> DEFINE event == DetectionEvent(signalName, detected, at)
<1>1. /\ event.bundle = "metadata" /\ event.signalName = signalName /\ event.occurredAt = at
      /\ event.value = IF detected = None THEN Null ELSE Flag(detected = "yes")
  BY DEF DetectionEvent, Event
<1> HIDE DEF event
<1>2. event.value \in Int /\ (event.value > 0 => detected = "yes")
  BY <1>1 DEF Flag, Null
<1>3. Counting(event, at, event.healthStatus = "OK" /\ event.value > 0, FALSE)
  BY <1>1, <1>2, FlagCounts
<1>4. Counting(event, at, detected = "yes", FALSE)
  BY <1>2, <1>3 DEF Counting
<1> QED
  BY <1>4 DEF event

\* How the candidate joined.
LEMMA JoinMethodCounts ==
    ASSUME NEW method, NEW at \in Int
    PROVE  Counting(JoinMethodEvent(method, at), at,
                    method = "forwarded_link", method = "direct_invite_link")
<1> DEFINE event == JoinMethodEvent(method, at)
<1>1. /\ event.bundle = "metadata" /\ event.signalName = "join_method" /\ event.occurredAt = at
      /\ event.value = CASE method = "direct_invite_link" -> 1
                         [] method = "forwarded_link" -> 0
                         [] OTHER -> Null
  BY DEF JoinMethodEvent, Event
<1> HIDE DEF event
<1>2. /\ event.value \in { Null, 0, 1 }
      /\ event.value = 0 => method = "forwarded_link"
      /\ event.value = 1 => method = "direct_invite_link"
  BY <1>1 DEF Null
<1>3. event.signalName \in Matches(event.bundle)
  BY <1>1 DEF Matches
<1>4. Counting(event, at, event.healthStatus = "OK" /\ event.value = 0,
                          event.healthStatus = "OK" /\ event.value = 1)
  BY <1>1, <1>2, <1>3, MatchCounts
<1>5. Counting(event, at, method = "forwarded_link", method = "direct_invite_link")
  BY <1>2, <1>4 DEF Counting
<1> QED
  BY <1>5 DEF event

\* What is on file speaks for the candidate if it is there.
LEMMA PresenceEventCounts ==
    ASSUME NEW signalName \in Presences, NEW available \in BOOLEAN, NEW at \in Int
    PROVE  Counting(PresenceEvent(signalName, available, at), at, FALSE, available)
<1> DEFINE event == PresenceEvent(signalName, available, at)
<1>1. /\ event.bundle = "claim" /\ event.signalName = signalName /\ event.occurredAt = at
      /\ event.value = Flag(available)
  BY DEF PresenceEvent, Event
<1> HIDE DEF event
<1>2. event.value \in { 0, 1 } /\ (event.value = 1 => available)
  BY <1>1 DEF Flag
<1>3. Counting(event, at, FALSE, event.value = 1)
  BY <1>1, <1>2, PresenceCounts
<1>4. Counting(event, at, FALSE, available)
  BY <1>2, <1>3 DEF Counting
<1> QED
  BY <1>4 DEF event

\* A report of one event after another.
LEMMA JoinedReports ==
    ASSUME NEW e, NEW f, NEW at, NEW against, NEW for,
           Reporting(e, at, against, for), Reporting(f, at, against, for)
    PROVE  Reporting(e \o f, at, against, for)
<1>1. PICK S : e \in Seq(S)
  BY DEF Reporting
<1>2. PICK T : f \in Seq(T)
  BY DEF Reporting
<1>3. e \in Seq(S \cup T) /\ f \in Seq(S \cup T)
  BY <1>1, <1>2, SeqDef
<1>4. /\ e \o f \in Seq(S \cup T)
      /\ Len(e \o f) = Len(e) + Len(f)
      /\ \A k \in 1..Len(e) + Len(f) : (e \o f)[k] = IF k <= Len(e) THEN e[k] ELSE f[k - Len(e)]
  BY <1>3, ConcatProperties
<1>5. Len(e) \in Nat /\ Len(f) \in Nat /\ DOMAIN e = 1..Len(e) /\ DOMAIN f = 1..Len(f)
      /\ DOMAIN (e \o f) = 1..Len(e) + Len(f)
  BY <1>3, <1>4
<1>6. ASSUME NEW k \in 1..Len(e) + Len(f) PROVE Counting((e \o f)[k], at, against, for)
  <2>1. CASE k <= Len(e)
    <3>1. k \in 1..Len(e) /\ (e \o f)[k] = e[k]
      BY <1>4, <1>5, <2>1
    <3> QED
      BY <1>5, <3>1 DEF Reporting
  <2>2. CASE ~(k <= Len(e))
    <3>1. k - Len(e) \in 1..Len(f) /\ (e \o f)[k] = f[k - Len(e)]
      BY <1>4, <1>5, <2>2
    <3> QED
      BY <1>5, <3>1 DEF Reporting
  <2> QED
    BY <2>1, <2>2
<1> QED
  BY <1>4, <1>5, <1>6 DEF Reporting

\* A report of six events.
LEMMA SixReport ==
    ASSUME NEW a, NEW b, NEW c, NEW d, NEW e, NEW f, NEW at, NEW against, NEW for,
           Counting(a, at, against, for), Counting(b, at, against, for), Counting(c, at, against, for),
           Counting(d, at, against, for), Counting(e, at, against, for), Counting(f, at, against, for)
    PROVE  Reporting(<< a, b, c, d, e, f >>, at, against, for)
<1> DEFINE events == << a, b, c, d, e, f >>
           S == { a, b, c, d, e, f }
<1>1. events \in Seq(S) /\ DOMAIN events = 1..6
  OBVIOUS
<1>2. ASSUME NEW i \in 1..6 PROVE Counting(events[i], at, against, for)
  <2>1. i \in { 1, 2, 3, 4, 5, 6 }
    OBVIOUS
  <2>2. events[i] \in { a, b, c, d, e, f }
    BY <2>1
  <2> HIDE DEF events
  <2> QED
    BY <2>2
<1> HIDE DEF S
<1> QED
  BY <1>1, <1>2 DEF Reporting

\* The claim adapter.
LEMMA ClaimReports ==
    ASSUME NEW observed, NEW at \in Int
    PROVE  Reporting(ClaimEvents(observed.claim, at), at,
                     Against("claim", observed), For("claim", observed))
<1> DEFINE claim == observed.claim
           against == Against("claim", observed)
           for == For("claim", observed)
<1>1. CASE ~Filed(claim)
  <2>1. PICK n \in Nat : n = 6 /\ DOMAIN ClaimSignalNames = 1..n
    BY DEF ClaimSignalNames
  <2>2. PICK events : events = [i \in 1..n |->
             Event("claim", ClaimSignalNames[i], "SERVICE_UNAVAILABLE", Null, at)]
    OBVIOUS
  <2>3. ClaimEvents(claim, at) = events
    BY <1>1, <2>1, <2>2 DEF ClaimEvents, Filed
  <2>4. \E S : events \in Seq(S)
    <3>1. events \in [1..n -> { events[i] : i \in 1..n }]
      BY <2>2
    <3> QED
      BY <3>1, SeqDef
  <2>5. ASSUME NEW i \in 1..n PROVE Counting(events[i], at, FALSE, FALSE)
    <3>1. events[i].occurredAt = at /\ events[i].healthStatus # "OK"
      BY <2>2 DEF Event
    <3> QED
      BY <3>1, NothingCounts
  <2>6. DOMAIN events = 1..n
    BY <2>2
  <2> QED
    BY <2>3, <2>4, <2>5, <2>6 DEF Reporting, Counting
<1>2. CASE Filed(claim)
  <2> DEFINE record == Ats[claim.candidateId]
  <2>1. /\ record.hasReferencePhoto \in BOOLEAN
        /\ record.hasPriorIdVerification \in BOOLEAN
        /\ record.hasAccountHistory \in BOOLEAN
    BY <1>2, AtsAssumption DEF Filed
  <2>2. /\ Differ(claim.displayName, record.applicationName) => against
        /\ Differ(claim.joinEmail, record.applicationEmail) => against
        /\ Differ(claim.calendarAttendeeEmail, record.calendarInviteAttendeeEmail) => against
    BY <1>2 DEF Against
  <2>3. /\ Agree(claim.displayName, record.applicationName) => for
        /\ Agree(claim.joinEmail, record.applicationEmail) => for
        /\ Agree(claim.calendarAttendeeEmail, record.calendarInviteAttendeeEmail) => for
        /\ record.hasReferencePhoto => for
        /\ record.hasPriorIdVerification => for
        /\ record.hasAccountHistory => for
    BY <1>2 DEF For
  <2>4. ClaimEvents(claim, at) =
         << MatchEvent("display_name_match", claim.displayName, record.applicationName, at),
            MatchEvent("email_domain_match", claim.joinEmail, record.applicationEmail, at),
            MatchEvent("calendar_invite_match", claim.calendarAttendeeEmail,
                       record.calendarInviteAttendeeEmail, at),
            PresenceEvent("reference_photo_available", record.hasReferencePhoto, at),
            PresenceEvent("prior_id_verification_available", record.hasPriorIdVerification, at),
            PresenceEvent("account_history_available", record.hasAccountHistory, at) >>
    BY <1>2 DEF ClaimEvents, Filed
  <2> HIDE DEF record, against, for
  <2>5. /\ Counting(MatchEvent("display_name_match", claim.displayName, record.applicationName, at),
                    at, against, for)
        /\ Counting(MatchEvent("email_domain_match", claim.joinEmail, record.applicationEmail, at),
                    at, against, for)
        /\ Counting(MatchEvent("calendar_invite_match", claim.calendarAttendeeEmail,
                               record.calendarInviteAttendeeEmail, at), at, against, for)
    BY <2>2, <2>3, MatchEventCounts DEF Counting, Matches
  <2>6. /\ Counting(PresenceEvent("reference_photo_available", record.hasReferencePhoto, at),
                    at, against, for)
        /\ Counting(PresenceEvent("prior_id_verification_available", record.hasPriorIdVerification, at),
                    at, against, for)
        /\ Counting(PresenceEvent("account_history_available", record.hasAccountHistory, at),
                    at, against, for)
    BY <2>1, <2>3, PresenceEventCounts DEF Counting, Presences
  <2>7. Reporting(ClaimEvents(claim, at), at, against, for)
    BY <2>4, <2>5, <2>6, SixReport
  <2> QED
    BY <2>7 DEF against, for
<1> QED
  BY <1>1, <1>2

\* The metadata adapter.
LEMMA MetadataReports ==
    ASSUME NEW observed, NEW at \in Int
    PROVE  Reporting(MetadataEvents(observed.metadata, at), at,
                     Against("claim", observed), For("claim", observed))
<1> DEFINE metadata == observed.metadata
           against == Against("claim", observed)
           for == For("claim", observed)
           shared == Event("metadata", "screen_share_state",
                           Health(metadata.screenShareState # None), Null, at)
<1>1. /\ metadata.joinMethod = "forwarded_link" => against
      /\ Differ(metadata.observedIpCountry, metadata.statedCountry) => against
      /\ Differ(metadata.observedDeviceFingerprint, metadata.priorSessionDeviceFingerprint) => against
      /\ metadata.virtualCaptureDeviceDetected = "yes" => against
      /\ metadata.multiMonitorDetected = "yes" => against
  BY DEF Against
<1>2. /\ metadata.joinMethod = "direct_invite_link" => for
      /\ Agree(metadata.observedIpCountry, metadata.statedCountry) => for
      /\ Agree(metadata.observedDeviceFingerprint, metadata.priorSessionDeviceFingerprint) => for
  BY DEF For
<1>3. MetadataEvents(metadata, at) =
      << JoinMethodEvent(metadata.joinMethod, at),
         ConsistencyEvent("ip_geolocation_consistency",
                          metadata.observedIpCountry, metadata.statedCountry, at),
         ConsistencyEvent("device_fingerprint_continuity", metadata.observedDeviceFingerprint,
                          metadata.priorSessionDeviceFingerprint, at),
         DetectionEvent("virtual_capture_device_detected", metadata.virtualCaptureDeviceDetected, at),
         shared,
         DetectionEvent("multi_monitor_detected", metadata.multiMonitorDetected, at) >>
  BY DEF MetadataEvents
<1>4. Counting(shared, at, FALSE, FALSE)
  <2>1. shared.bundle = "metadata" /\ shared.signalName = "screen_share_state" /\ shared.occurredAt = at
    BY DEF Event
  <2> HIDE DEF shared
  <2>2. ~Registered(shared)
    BY <2>1 DEF Registered, REGISTRY, MetadataSignals
  <2> QED
    BY <2>1, <2>2, NothingCounts
<1> HIDE DEF against, for, shared, metadata
<1>5. Counting(JoinMethodEvent(metadata.joinMethod, at), at, against, for)
  BY <1>1, <1>2, JoinMethodCounts DEF Counting
<1>6. Counting(ConsistencyEvent("ip_geolocation_consistency",
                          metadata.observedIpCountry, metadata.statedCountry, at), at, against, for)
  BY <1>1, <1>2, ConsistencyEventCounts DEF Counting, Matches
<1>7. Counting(ConsistencyEvent("device_fingerprint_continuity", metadata.observedDeviceFingerprint,
                          metadata.priorSessionDeviceFingerprint, at), at, against, for)
  BY <1>1, <1>2, ConsistencyEventCounts DEF Counting, Matches
<1>8. /\ Counting(DetectionEvent("virtual_capture_device_detected",
                                 metadata.virtualCaptureDeviceDetected, at), at, against, for)
      /\ Counting(DetectionEvent("multi_monitor_detected", metadata.multiMonitorDetected, at),
                  at, against, for)
  BY <1>1, DetectionEventCounts DEF Counting, Detections
<1>9. Counting(shared, at, against, for)
  BY <1>4 DEF Counting
<1>10. Reporting(MetadataEvents(metadata, at), at, against, for)
  BY <1>3, <1>5, <1>6, <1>7, <1>8, <1>9, SixReport
<1> QED
  BY <1>10 DEF against, for, metadata

\* A report of any length, event by event.
LEMMA ListReports ==
    ASSUME NEW n \in Nat, NEW events, DOMAIN events = 1..n, events = [i \in 1..n |-> events[i]],
           NEW at, NEW against, NEW for,
           \A i \in 1..n : Counting(events[i], at, against, for)
    PROVE  Reporting(events, at, against, for)
<1>1. events \in [1..n -> { events[i] : i \in 1..n }]
  OBVIOUS
<1>2. \E S : events \in Seq(S)
  BY <1>1, SeqDef
<1> QED
  BY <1>2 DEF Reporting

\* The device adapter: without consent no count is looked at.
LEMMA DeviceReports ==
    ASSUME NEW observed \in DeviceObservations, NEW at \in Int
    PROVE  Reporting(DeviceEvents(observed, at), at,
                     Against("device", observed), For("device", observed))
<1> DEFINE against == Against("device", observed)
           for == For("device", observed)
           CountOn(i) == IF observed.consentGranted THEN observed.counts[i] ELSE Null
<1>1. observed.consentGranted \in BOOLEAN /\ observed.counts \in [1..4 -> Nat \cup {Null}]
  BY ObservationsAssumption
<1>2. DOMAIN DeviceSignalNames = 1..4 /\ \A i \in 1..4 : DeviceSignalNames[i] \in Counts
  <2>1. DOMAIN DeviceSignalNames = 1..4
    BY DEF DeviceSignalNames
  <2>2. ASSUME NEW i \in 1..4 PROVE DeviceSignalNames[i] \in Counts
    <3>1. i \in { 1, 2, 3, 4 }
      OBVIOUS
    <3> QED
      BY <3>1 DEF DeviceSignalNames, Counts
  <2> QED
    BY <2>1, <2>2
<1>3. PICK events : /\ events = DeviceEvents(observed, at)
                    /\ events = [i \in 1..4 |->
                          Event("device", DeviceSignalNames[i], Health(CountOn(i) # Null), CountOn(i), at)]
  BY <1>2 DEF DeviceEvents
<1>4. ASSUME NEW i \in 1..4 PROVE Counting(events[i], at, against, for)
  <2>1. /\ events[i].bundle = "device" /\ events[i].signalName = DeviceSignalNames[i]
        /\ events[i].occurredAt = at /\ events[i].value = CountOn(i)
    BY <1>3 DEF Event
  <2>2. CountOn(i) \in Int
    BY <1>1 DEF Null
  <2>3. Counting(events[i], at, events[i].healthStatus = "OK" /\ events[i].value > 0, FALSE)
    BY <1>2, <2>1, <2>2, FlagCounts
  <2>4. CountOn(i) > 0 => against
    BY <1>1 DEF Against, Null
  <2> HIDE DEF against, for, CountOn
  <2> QED
    BY <2>1, <2>3, <2>4 DEF Counting
<1> HIDE DEF against, for
<1>5. DOMAIN events = 1..4 /\ events = [i \in 1..4 |-> events[i]]
  BY <1>3
<1>6. Reporting(events, at, against, for)
  BY <1>4, <1>5, ListReports
<1> QED
  BY <1>3, <1>6 DEF against, for

\* The linguistic adapter.
LEMMA LinguisticReports ==
    ASSUME NEW claims \in LinguisticObservations, NEW at \in Int
    PROVE  Reporting(LinguisticEvents(claims, at), at,
                     Against("linguistic", claims), For("linguistic", claims))
<1> DEFINE against == Against("linguistic", claims)
           for == For("linguistic", claims)
           BothPresent(i) == claims[i].observedValue # None /\ claims[i].claimedValue # None
<1>1. PICK n \in Nat : DOMAIN claims = 1..n
  BY ObservationsAssumption
<1>2. PICK events : /\ events = LinguisticEvents(claims, at)
                    /\ events = [i \in 1..n |->
                         Event("linguistic", "biographical_claim_consistency", Health(BothPresent(i)),
                               IF BothPresent(i) THEN Flag(claims[i].observedValue = claims[i].claimedValue)
                               ELSE Null, at)]
  BY <1>1 DEF LinguisticEvents
<1>3. ASSUME NEW i \in 1..n PROVE Counting(events[i], at, against, for)
  <2> DEFINE event == events[i]
  <2>1. /\ event.bundle = "linguistic" /\ event.signalName = "biographical_claim_consistency"
        /\ event.occurredAt = at /\ event.healthStatus = Health(BothPresent(i))
        /\ event.value = IF BothPresent(i) THEN Flag(claims[i].observedValue = claims[i].claimedValue)
                         ELSE Null
    BY <1>2 DEF Event
  <2> HIDE DEF event
  <2>2. event.value \in { Null, 0, 1 } /\ event.signalName \in Matches(event.bundle)
    BY <2>1 DEF Flag, Matches
  <2>3. Counting(event, at, event.healthStatus = "OK" /\ event.value = 0,
                            event.healthStatus = "OK" /\ event.value = 1)
    BY <2>1, <2>2, MatchCounts
  <2>4. /\ event.healthStatus = "OK" => BothPresent(i)
        /\ BothPresent(i) /\ event.value = 0 => claims[i].observedValue # claims[i].claimedValue
        /\ BothPresent(i) /\ event.value = 1 => claims[i].observedValue = claims[i].claimedValue
    BY <2>1 DEF Flag, Health
  <2>5. /\ Differ(claims[i].observedValue, claims[i].claimedValue) => against
        /\ Agree(claims[i].observedValue, claims[i].claimedValue) => for
    BY <1>1 DEF Against, For
  <2> HIDE DEF against, for
  <2>6. Counting(event, at, against, for)
    BY <2>3, <2>4, <2>5 DEF Counting, Differ, Agree
  <2> QED
    BY <2>6 DEF event
<1> HIDE DEF against, for
<1>4. DOMAIN events = 1..n /\ events = [i \in 1..n |-> events[i]]
  BY <1>2
<1>5. Reporting(events, at, against, for)
  BY <1>3, <1>4, ListReports
<1> QED
  BY <1>2, <1>5 DEF against, for

\* The elicitation adapter.
LEMMA ElicitationReports ==
    ASSUME NEW satisfied \in ElicitationObservations, NEW at \in Int
    PROVE  Reporting(ElicitationEvents(satisfied, at), at,
                     Against("elicitation", satisfied), For("elicitation", satisfied))
<1> DEFINE against == Against("elicitation", satisfied)
           for == For("elicitation", satisfied)
           event == Event("elicitation", "active_elicitation_response", Health(satisfied # None),
                          IF satisfied = None THEN Null ELSE Flag(satisfied = "yes"), at)
<1>1. /\ event.bundle = "elicitation" /\ event.signalName = "active_elicitation_response"
      /\ event.occurredAt = at /\ event.healthStatus = Health(satisfied # None)
      /\ event.value = IF satisfied = None THEN Null ELSE Flag(satisfied = "yes")
  BY DEF Event
<1>2. ElicitationEvents(satisfied, at) = << event >>
  BY DEF ElicitationEvents
<1> HIDE DEF event
<1>3. event.value \in { Null, 0, 1 } /\ event.signalName \in Matches(event.bundle)
  BY <1>1 DEF Flag, Matches
<1>4. Counting(event, at, event.healthStatus = "OK" /\ event.value = 0,
                          event.healthStatus = "OK" /\ event.value = 1)
  BY <1>1, <1>3, MatchCounts
<1>5. /\ event.healthStatus = "OK" /\ event.value = 0 => against
      /\ event.value = 1 => for
  <2>1. satisfied \in { "yes", "no", None }
    BY ObservationsAssumption
  <2>2. event.healthStatus = "OK" => satisfied # None
    BY <1>1 DEF Health
  <2>3. satisfied # None => event.value = Flag(satisfied = "yes")
    BY <1>1
  <2>4. event.value = 1 => satisfied = "yes"
    BY <1>1 DEF Flag, Null
  <2> QED
    BY <2>1, <2>2, <2>3, <2>4 DEF Flag, Against, For
<1> HIDE DEF against, for
<1>6. Counting(event, at, against, for)
  BY <1>4, <1>5 DEF Counting
<1>7. PICK events : events = << event >>
  OBVIOUS
<1>8. DOMAIN events = 1..1 /\ events = [i \in 1..1 |-> events[i]] /\ \A i \in 1..1 : events[i] = event
  BY <1>7
<1>9. Reporting(events, at, against, for)
  BY <1>6, <1>8, ListReports
<1> QED
  BY <1>2, <1>7, <1>9 DEF against, for

\* The visual and the audio adapter.
LEMMA BiometricReports ==
    ASSUME NEW events \in BiometricEvents, NEW at \in Int, NEW reported,
           reported = [i \in DOMAIN events |-> [events[i] EXCEPT !.occurredAt = at]]
    PROVE  Reporting(reported, at, Against("biometric", events), For("biometric", events))
<1> DEFINE against == Against("biometric", events)
           for == For("biometric", events)
           Reported == [bundle : { "visual", "audio" }, signalName : BiometricSignals,
                        healthStatus : HealthStatuses, value : Int, occurredAt : Nat]
<1>1. PICK n \in Nat : events \in [1..n -> Reported]
  <2>1. events \in Seq(Reported)
    BY ObservationsAssumption
  <2> HIDE DEF Reported
  <2>2. Len(events) \in Nat /\ events \in [1..Len(events) -> Reported]
    BY <2>1, SeqDef
  <2> QED
    BY <2>2
<1>2. ASSUME NEW i \in 1..n PROVE Counting(reported[i], at, against, for)
  <2>1. events[i] \in Reported
    BY <1>1
  <2>2. reported[i] = [events[i] EXCEPT !.occurredAt = at]
    BY <1>1
  <2>3. reported[i].occurredAt = at /\ reported[i].healthStatus = events[i].healthStatus
    BY <2>1, <2>2
  <2>4. CASE reported[i].healthStatus = "OK"
    <3>1. against /\ for
      BY <1>1, <2>3, <2>4 DEF Against, For
    <3> QED
      BY <3>1 DEF Counting
  <2>5. CASE reported[i].healthStatus # "OK"
    <3>1. Counting(reported[i], at, FALSE, FALSE)
      BY <2>3, <2>5, NothingCounts
    <3> QED
      BY <3>1 DEF Counting
  <2> QED
    BY <2>4, <2>5
<1> HIDE DEF against, for
<1>3. DOMAIN reported = 1..n /\ reported = [i \in 1..n |-> reported[i]]
  BY <1>1
<1>4. Reporting(reported, at, against, for)
  BY <1>2, <1>3, ListReports
<1> QED
  BY <1>4 DEF against, for

-----------------------------------------------------------------------------
(* Every step *)

\* The ledger is a sequence, and time a number.
LedgerIsASequence == clock \in Nat /\ \E S : ledger \in Seq(S)

\* What one ingestion has added.
NewEventsCount ==
    \A i \in DOMAIN ledger' : i > Len(ledger) =>
          LET added == Contribution(ledger'[i], evaluatedAt')
              last == ingested'.last
          IN /\ added < 0 => Against(last.bundle, last.observed)
             /\ added > 0 => For(last.bundle, last.observed)

\* An ingestion appends its report, dated as the evaluation it asks for.
LEMMA IngestCounts ==
    ASSUME LedgerIsASequence, NEW at \in Int, NEW events, NEW bundle, NEW observed,
           Reporting(events, at, Against(bundle, observed), For(bundle, observed)),
           ledger' = ledger \o events, evaluatedAt' = at,
           ingested'.last = [bundle |-> bundle, observed |-> observed], UNCHANGED clock
    PROVE  NewEventsCount /\ LedgerIsASequence'
<1>1. PICK S : ledger \in Seq(S)
  BY DEF LedgerIsASequence
<1>2. PICK T : events \in Seq(T)
  BY DEF Reporting
<1>3. PICK before \in Seq(S \cup T) : before = ledger
  BY <1>1, SeqDef
<1>4. events \in Seq(S \cup T)
  BY <1>2, SeqDef
<1>5. /\ before \o events \in Seq(S \cup T)
      /\ Len(before \o events) = Len(before) + Len(events)
      /\ \A k \in 1..Len(before) + Len(events) :
            (before \o events)[k] = IF k <= Len(before) THEN before[k] ELSE events[k - Len(before)]
  BY <1>4, ConcatProperties
<1>6. /\ Len(before) \in Nat /\ Len(events) \in Nat /\ DOMAIN events = 1..Len(events)
      /\ DOMAIN (before \o events) = 1..Len(before) + Len(events)
  BY <1>4, <1>5
<1>7. LedgerIsASequence'
  BY <1>3, <1>5 DEF LedgerIsASequence
<1>8. ASSUME NEW i \in DOMAIN ledger', i > Len(ledger)
      PROVE  /\ Contribution(ledger'[i], evaluatedAt') < 0 => Against(bundle, observed)
             /\ Contribution(ledger'[i], evaluatedAt') > 0 => For(bundle, observed)
  <2>1. i \in 1..Len(before) + Len(events) /\ ~(i <= Len(before))
    BY <1>3, <1>6, <1>8
  <2>2. i - Len(before) \in 1..Len(events)
    BY <1>6, <2>1
  <2>3. ledger'[i] = events[i - Len(before)]
    BY <1>3, <1>5, <2>1
  <2>4. Counting(events[i - Len(before)], at, Against(bundle, observed), For(bundle, observed))
    BY <1>6, <2>2 DEF Reporting
  <2> QED
    BY <2>3, <2>4 DEF Counting
<1> QED
  BY <1>7, <1>8 DEF NewEventsCount

\* A step that adds nothing.
LEMMA NothingNew ==
    ASSUME LedgerIsASequence, UNCHANGED ledger, clock' \in Nat
    PROVE  NewEventsCount /\ LedgerIsASequence'
<1>1. PICK S : ledger \in Seq(S)
  BY DEF LedgerIsASequence
<1>2. DOMAIN ledger = 1..Len(ledger) /\ Len(ledger) \in Nat
  BY <1>1
<1> QED
  BY <1>1, <1>2 DEF NewEventsCount, LedgerIsASequence

\* Every step.
LEMMA StepCounts ==
    ASSUME LedgerIsASequence, [ConfidenceNext]_confidenceVars
    PROVE  NewEventsCount /\ LedgerIsASequence'
<1>0. clock \in Nat
  BY DEF LedgerIsASequence
<1>1. ASSUME NEW claim \in ClaimObservations, NEW metadata \in MetadataObservations,
             IngestClaimAndMetadata(claim, metadata)
      PROVE  NewEventsCount /\ LedgerIsASequence'
  <2> DEFINE observed == [claim |-> claim, metadata |-> metadata]
  <2>1. PICK at \in { clock - 1, clock } :
            /\ evaluatedAt' = at
            /\ ledger' = ledger \o (ClaimEvents(claim, at) \o MetadataEvents(metadata, at))
            /\ ingested'.last = [bundle |-> "claim", observed |-> observed]
            /\ UNCHANGED clock
    BY <1>1 DEF IngestClaimAndMetadata, Ingest
  <2>2. at \in Int /\ observed.claim = claim /\ observed.metadata = metadata
    BY <1>0
  <2> HIDE DEF observed
  <2>3. /\ Reporting(ClaimEvents(claim, at), at, Against("claim", observed), For("claim", observed))
        /\ Reporting(MetadataEvents(metadata, at), at, Against("claim", observed), For("claim", observed))
    BY <2>2, ClaimReports, MetadataReports
  <2>4. PICK events : events = ClaimEvents(claim, at) \o MetadataEvents(metadata, at)
    OBVIOUS
  <2>5. Reporting(events, at, Against("claim", observed), For("claim", observed))
    BY <2>3, <2>4, JoinedReports
  <2> QED
    BY <2>1, <2>2, <2>4, <2>5, IngestCounts
<1>2. ASSUME NEW observed \in DeviceObservations, IngestDevice(observed)
      PROVE  NewEventsCount /\ LedgerIsASequence'
  <2>1. PICK at \in { clock - 1, clock } :
            /\ evaluatedAt' = at
            /\ ledger' = ledger \o DeviceEvents(observed, at)
            /\ ingested'.last = [bundle |-> "device", observed |-> observed]
            /\ UNCHANGED clock
    BY <1>2 DEF IngestDevice, Ingest
  <2>2. at \in Int
    BY <1>0
  <2> QED
    BY <2>1, <2>2, DeviceReports, IngestCounts
<1>3. ASSUME NEW claims \in LinguisticObservations, IngestLinguistic(claims)
      PROVE  NewEventsCount /\ LedgerIsASequence'
  <2>1. PICK at \in { clock - 1, clock } :
            /\ evaluatedAt' = at
            /\ ledger' = ledger \o LinguisticEvents(claims, at)
            /\ ingested'.last = [bundle |-> "linguistic", observed |-> claims]
            /\ UNCHANGED clock
    BY <1>3 DEF IngestLinguistic, Ingest
  <2>2. at \in Int
    BY <1>0
  <2> QED
    BY <2>1, <2>2, LinguisticReports, IngestCounts
<1>4. ASSUME NEW satisfied \in ElicitationObservations, IngestElicitation(satisfied)
      PROVE  NewEventsCount /\ LedgerIsASequence'
  <2>1. PICK at \in { clock - 1, clock } :
            /\ evaluatedAt' = at
            /\ ledger' = ledger \o ElicitationEvents(satisfied, at)
            /\ ingested'.last = [bundle |-> "elicitation", observed |-> satisfied]
            /\ UNCHANGED clock
    BY <1>4 DEF IngestElicitation, Ingest
  <2>2. at \in Int
    BY <1>0
  <2> QED
    BY <2>1, <2>2, ElicitationReports, IngestCounts
<1>5. ASSUME NEW events \in BiometricEvents, IngestVisualAudio(events)
      PROVE  NewEventsCount /\ LedgerIsASequence'
  <2>1. PICK at \in { clock - 1, clock } :
            /\ evaluatedAt' = at
            /\ ledger' = ledger \o [i \in DOMAIN events |-> [events[i] EXCEPT !.occurredAt = at]]
            /\ ingested'.last = [bundle |-> "biometric", observed |-> events]
            /\ UNCHANGED clock
    BY <1>5 DEF IngestVisualAudio, Ingest
  <2>2. at \in Int
    BY <1>0
  <2>3. PICK reported : reported = [i \in DOMAIN events |-> [events[i] EXCEPT !.occurredAt = at]]
    OBVIOUS
  <2>4. Reporting(reported, at, Against("biometric", events), For("biometric", events))
    BY <2>2, <2>3, BiometricReports
  <2> QED
    BY <2>1, <2>2, <2>3, <2>4, IngestCounts
<1>6. ASSUME UNCHANGED ledger, UNCHANGED clock \/ clock' = clock + 1
      PROVE  NewEventsCount /\ LedgerIsASequence'
  BY <1>0, <1>6, NothingNew
<1> QED
  BY <1>1, <1>2, <1>3, <1>4, <1>5, <1>6
     DEF ConfidenceNext, confidenceVars, IngestClaimFails, Wait, Restart

\* What nobody observed moves no score: an ingestion counts against the
\* candidate only if something in it was observed to differ, and for the
\* candidate only if something was observed to agree ("absence of evidence is
\* never evidence against", evidenceClassifier.ts).
THEOREM AbsenceCountsNothing == ConfidenceSpec => AbsenceIsNotEvidence
<1>1. ConfidenceInit => LedgerIsASequence
  BY DEF ConfidenceInit, LedgerIsASequence
<1>2. LedgerIsASequence /\ [ConfidenceNext]_confidenceVars =>
          LedgerIsASequence' /\ [NewEventsCount]_confidenceVars
  BY StepCounts
<1> QED
  BY <1>1, <1>2, PTL DEF ConfidenceSpec, AbsenceIsNotEvidence, NewEventsCount

\* A restart forgets who was claimed to be there; as long as it was one
\* candidate, the posterior is what it was before (candidateConfidenceEngine.ts).
THEOREM RestartKeepsScore == ConfidenceSpec => RestartsKeepTheScore
<1>1. [ConfidenceNext]_confidenceVars =>
      [Restart /\ Len(participantIds) = 1 =>
          LogOdds(SelectedEvents', evaluatedAt) = LogOdds(SelectedEvents, evaluatedAt)]_confidenceVars
  <2>1. ASSUME Restart, Len(participantIds) = 1
        PROVE  LogOdds(SelectedEvents', evaluatedAt) = LogOdds(SelectedEvents, evaluatedAt)
    <3>1. SelectedEvents = ledger
      BY <2>1 DEF SelectedEvents, ManyHypotheses
    <3>2. SelectedEvents' = ledger'
      BY <2>1 DEF SelectedEvents, ManyHypotheses, Restart
    <3> QED
      BY <2>1, <3>1, <3>2 DEF Restart
  <2> QED
    BY <2>1
<1> QED
  BY <1>1, PTL DEF ConfidenceSpec, RestartsKeepTheScore

-----------------------------------------------------------------------------
(* What an event adds, at any age *)

\* The names the adapters give their signals.
SignalNames ==
    BiometricSignals \union
    { "display_name_match", "email_domain_match", "calendar_invite_match",
      "reference_photo_available", "prior_id_verification_available", "account_history_available",
      "join_method", "ip_geolocation_consistency", "device_fingerprint_continuity",
      "virtual_capture_device_detected", "screen_share_state", "multi_monitor_detected",
      "tab_focus_change", "application_switch", "clipboard_paste", "keyboard_rhythm_anomaly",
      "biographical_claim_consistency", "active_elicitation_response" }

BundleNames == { "claim", "metadata", "visual", "audio", "device", "linguistic", "elicitation" }

\* An event that one of the adapters makes, dated within the time looked at.
Events ==
    [bundle : BundleNames,
     signalName : SignalNames, healthStatus : HealthStatuses, value : Int, occurredAt : 0..Horizon]

\* A ratio is smaller than the clamp.
Bounded(spec) == Ratios(spec) /\ spec.supports <= 500 /\ spec.contradicts >= -500

\* The registry's ratios are.
LEMMA RegistryIsBounded ==
    ASSUME NEW event \in Events, Registered(event)
    PROVE  Bounded(SpecOf(event))
<1>1. CASE event.bundle = "claim"
  <2>1. SpecOf(event) = ClaimSignals[event.signalName] /\ event.signalName \in DOMAIN ClaimSignals
    BY <1>1 DEF SpecOf, Registered, REGISTRY
  <2> QED
    BY <2>1 DEF ClaimSignals, Bounded, Ratios, RegisteredSignal
<1>2. CASE event.bundle = "metadata"
  <2>1. SpecOf(event) = MetadataSignals[event.signalName] /\ event.signalName \in DOMAIN MetadataSignals
    BY <1>2 DEF SpecOf, Registered, REGISTRY
  <2> QED
    BY <2>1 DEF MetadataSignals, Bounded, Ratios, RegisteredSignal
<1>3. CASE event.bundle = "visual"
  <2>1. SpecOf(event) = VisualSignals[event.signalName] /\ event.signalName \in DOMAIN VisualSignals
    BY <1>3 DEF SpecOf, Registered, REGISTRY
  <2> QED
    BY <2>1 DEF VisualSignals, Bounded, Ratios, RegisteredSignal
<1>4. CASE event.bundle = "audio"
  <2>1. SpecOf(event) = AudioSignals[event.signalName] /\ event.signalName \in DOMAIN AudioSignals
    BY <1>4 DEF SpecOf, Registered, REGISTRY
  <2> QED
    BY <2>1 DEF AudioSignals, Bounded, Ratios, RegisteredSignal
<1>5. CASE event.bundle = "device"
  <2>1. SpecOf(event) = DeviceSignals[event.signalName] /\ event.signalName \in DOMAIN DeviceSignals
    BY <1>5 DEF SpecOf, Registered, REGISTRY
  <2> QED
    BY <2>1 DEF DeviceSignals, Bounded, Ratios, RegisteredSignal
<1>6. CASE event.bundle = "linguistic"
  <2>1. /\ SpecOf(event) = LinguisticSignals[event.signalName]
        /\ event.signalName \in DOMAIN LinguisticSignals
    BY <1>6 DEF SpecOf, Registered, REGISTRY
  <2> QED
    BY <2>1 DEF LinguisticSignals, Bounded, Ratios, RegisteredSignal
<1>7. CASE event.bundle = "elicitation"
  <2>1. /\ SpecOf(event) = ElicitationSignals[event.signalName]
        /\ event.signalName \in DOMAIN ElicitationSignals
    BY <1>7 DEF SpecOf, Registered, REGISTRY
  <2> QED
    BY <2>1 DEF ElicitationSignals, Bounded, Ratios, RegisteredSignal
<1> QED
  BY <1>1, <1>2, <1>3, <1>4, <1>5, <1>6, <1>7 DEF Events, BundleNames

\* The powers of two grow.
LEMMA PowersGrow == \A n \in Nat : \A k \in 0..n : 2 ^ k <= 2 ^ n
<1> SUFFICES ASSUME NEW n \in Nat, NEW k \in 0..n PROVE 2 ^ k <= 2 ^ n
  OBVIOUS
<1>1. /\ IsFiniteSet(1..n) /\ Cardinality(1..n) = n
      /\ IsFiniteSet(1..k) /\ Cardinality(1..k) = k
  BY FS_Interval
<1>2. /\ IsFiniteSet(SUBSET (1..n)) /\ Cardinality(SUBSET (1..n)) = 2 ^ n
      /\ IsFiniteSet(SUBSET (1..k)) /\ Cardinality(SUBSET (1..k)) = 2 ^ k
  BY <1>1, FS_SUBSET
<1>3. (SUBSET (1..k)) \in SUBSET (SUBSET (1..n))
  OBVIOUS
<1> QED
  BY <1>2, <1>3, FS_Subset

\* What a ratio of at most 500 is decayed to, is at most 600 times the unit.
LEMMA ProductIsBounded ==
    ASSUME NEW r \in Int, -500 <= r, r <= 500, NEW w \in Nat \ {0}, NEW one \in Nat, w <= one
    PROVE  /\ r * w \in Int
           /\ r * w <= 600 * one /\ ~(r * w < -(600 * one))
           /\ r * w > 0 <=> r > 0
           /\ r * w < 0 <=> r < 0
<1>1. (500 - r) * w >= 0 /\ (r + 500) * w >= 0
  <2>1. \A a, b \in Nat : a * b >= 0
    OBVIOUS
  <2>2. 500 - r \in Nat /\ r + 500 \in Nat
    OBVIOUS
  <2> QED
    BY <2>1, <2>2
<1>2. PICK p \in Int : p = r * w
  OBVIOUS
<1>3. (500 - r) * w = 500 * w - p /\ (r + 500) * w = p + 500 * w
  BY <1>2
<1>4. p <= 500 * w /\ p >= -(500 * w)
  BY <1>1, <1>3
<1>5. p <= 600 * one /\ ~(p < -(600 * one))
  BY <1>4
<1>6. r > 0 => p > 0
  BY <1>2
<1>7. r < 0 => p < 0
  BY <1>2
<1>8. r = 0 => p = 0
  BY <1>2
<1>9. (p > 0 <=> r > 0) /\ (p < 0 <=> r < 0)
  BY <1>6, <1>7, <1>8
<1> QED
  BY <1>2, <1>5, <1>9

\* What an event adds to the log odds, by what its signal says; the report's own
\* loop, which does not clamp, comes to the same.
LEMMA EventAdds ==
    ASSUME NEW event \in Events, NEW at \in 0..Horizon
    PROVE  /\ DecayedLogLikelihoodRatio(event, at) = Contribution(event, at)
           /\ Contribution(event, at) \in Int
           /\ Contribution(event, at) > 0 <=> ResolveSignalOutcome(event) = "SUPPORTS"
           /\ Contribution(event, at) < 0 <=> ResolveSignalOutcome(event) = "CONTRADICTS"
<1>1. PICK one \in Nat \ {0} : one = 2 ^ Horizon
  BY FusionAssumption, PowersArePositive
<1>2. PICK w \in Nat \ {0} : w = DecayWeight(event.occurredAt, at) /\ w <= one
  <2>1. event.occurredAt \in 0..Horizon /\ Horizon \in Nat
    BY FusionAssumption DEF Events
  <2>2. CASE at >= event.occurredAt
    <3>1. PICK k \in 0..Horizon : k = Horizon - (at - event.occurredAt)
      BY <2>1, <2>2
    <3>2. DecayWeight(event.occurredAt, at) = 2 ^ k
      BY <2>2, <3>1 DEF DecayWeight
    <3>3. 2 ^ k \in Nat \ {0} /\ 2 ^ k <= 2 ^ Horizon
      BY <2>1, PowersArePositive, PowersGrow
    <3> QED
      BY <1>1, <3>2, <3>3
  <2>3. CASE ~(at >= event.occurredAt)
    <3>1. DecayWeight(event.occurredAt, at) = one
      BY <1>1, <2>3 DEF DecayWeight
    <3> QED
      BY <3>1
  <2> QED
    BY <2>2, <2>3
<1>3. PICK r \in Int : /\ r = SignalLogLikelihoodRatio(event)
                       /\ -500 <= r /\ r <= 500
                       /\ r > 0 <=> ResolveSignalOutcome(event) = "SUPPORTS"
                       /\ r < 0 <=> ResolveSignalOutcome(event) = "CONTRADICTS"
  <2>1. CASE Registered(event)
    <3>1. Bounded(SpecOf(event))
      BY <2>1, RegistryIsBounded
    <3> QED
      BY <3>1 DEF Bounded, Ratios, SignalLogLikelihoodRatio
  <2>2. CASE ~Registered(event)
    <3>1. ResolveSignalOutcome(event) = "NEUTRAL"
      BY <2>2 DEF ResolveSignalOutcome
    <3> QED
      BY <3>1 DEF SignalLogLikelihoodRatio
  <2> QED
    BY <2>1, <2>2
<1>4. PICK p : p = r * w
  OBVIOUS
<1>5. /\ p \in Int /\ p <= 600 * one /\ ~(p < -(600 * one))
      /\ (p > 0 <=> r > 0) /\ (p < 0 <=> r < 0)
  BY <1>4, <1>2, <1>3, ProductIsBounded
<1>6. DecayedLogLikelihoodRatio(event, at) = p
  BY <1>2, <1>3, <1>4 DEF DecayedLogLikelihoodRatio
<1>7. Contribution(event, at) = p
  <2>1. SignalLogLikelihoodRatio(event) * DecayWeight(event.occurredAt, at) = p /\ Clamp = 600 * one
    BY <1>1, <1>2, <1>3, <1>4 DEF Clamp
  <2>2. Contribution(event, at) = IF p > 600 * one THEN 600 * one
                                  ELSE IF p < -(600 * one) THEN -(600 * one) ELSE p
    BY <2>1 DEF Contribution
  <2>3. ~(p > 600 * one)
    BY <1>5
  <2> QED
    BY <1>5, <2>2, <2>3
<1> QED
  BY <1>3, <1>5, <1>6, <1>7

-----------------------------------------------------------------------------
(* What is added up *)

\* p adds up the first of s, one by one.
AddsUp(p, s, n) ==
    /\ p \in [0..n -> Int] /\ p[0] = 0
    /\ \A i \in 1..n : p[i] = p[i - 1] + s[i].adds

Adding(s, n) == \A i \in 1..n : s[i].adds \in Int

\* The recursion of Total's fold.
TotalFold(g, s) ==
    [T \in SUBSET DOMAIN s |->
        IF T = {} THEN 0 ELSE LET last == Max(T) IN g[T \ {last}] + s[last].adds]

\* It is defined, and Total is what the summands add up to.
LEMMA TotalAddsUp ==
    ASSUME NEW n \in Nat, NEW s, DOMAIN s = 1..n, Adding(s, n)
    PROVE  \E p : AddsUp(p, s, n) /\ p[n] = Total(s)
<1> DEFINE step == [i \in 1..n |-> [sum \in Int |-> sum + s[i].adds]]
           iter == CHOOSE g : g = TotalFold(g, s)
<1>1. step \in [1..n -> [Int -> Int]]
  BY DEF Adding
<1>2. \A i \in 1..n : \A sum \in Int : step[i][sum] = sum + s[i].adds
  OBVIOUS
<1> HIDE DEF step
<1>3. HasFold(Int, n, 0, step)
  <2>1. 0 \in Int
    OBVIOUS
  <2> QED
    BY <1>1, <2>1, FoldEnds
<1>4. PICK g \in [SUBSET (1..n) -> Int] : IsFold(g, n, 0, step)
  BY <1>3 DEF HasFold
<1>5. ASSUME NEW T \in SUBSET (1..n)
      PROVE  g[T] = IF T = {} THEN 0 ELSE g[T \ {Max(T)}] + s[Max(T)].adds
  <2>1. CASE T = {}
    BY <1>4, <2>1 DEF IsFold
  <2>2. CASE T # {}
    <3>1. Max(T) \in 1..n /\ g[T \ {Max(T)}] \in Int
      BY <2>2, MaxOfNumbers
    <3>2. g[T] = step[Max(T)][g[T \ {Max(T)}]]
      BY <1>4, <2>2 DEF IsFold
    <3> QED
      BY <1>2, <2>2, <3>1, <3>2
  <2> QED
    BY <2>1, <2>2
<1>6. g = TotalFold(g, s)
  BY <1>4, <1>5 DEF TotalFold
<1>7. iter = TotalFold(iter, s)
  BY <1>6
<1>8. iter[1..n] = Total(s)
  BY DEF Total, FoldLeft, MapThenFoldSet, TotalFold
<1> HIDE DEF iter
<1>9. \A T \in SUBSET (1..n) : iter[T] = IF T = {} THEN 0 ELSE iter[T \ {Max(T)}] + s[Max(T)].adds
  BY <1>7 DEF TotalFold
<1>10. iter[1..0] = 0 /\ \A i \in 1..n : iter[1..i] = iter[1..i - 1] + s[i].adds
  <2>1. 1..0 = {} /\ 1..0 \in SUBSET (1..n)
    OBVIOUS
  <2>2. ASSUME NEW i \in 1..n PROVE iter[1..i] = iter[1..i - 1] + s[i].adds
    <3>1. /\ 1..i \in SUBSET (1..n) /\ 1..i # {}
          /\ Max(1..i) = i /\ (1..i) \ {i} = 1..i - 1
      BY LastOfInterval
    <3> QED
      BY <1>9, <3>1
  <2> QED
    BY <1>9, <2>1, <2>2
<1> DEFINE p == [k \in 0..n |-> iter[1..k]]
           Ints == { k \in Nat : k <= n => p[k] \in Int }
<1>11. p[0] = 0 /\ (\A i \in 1..n : p[i] = p[i - 1] + s[i].adds) /\ p[n] = Total(s)
  <2>1. p[0] = 0 /\ p[n] = Total(s)
    BY <1>8, <1>10
  <2>2. ASSUME NEW i \in 1..n PROVE p[i] = p[i - 1] + s[i].adds
    <3>1. i \in 0..n /\ i - 1 \in 0..n
      OBVIOUS
    <3> QED
      BY <1>10, <3>1
  <2> QED
    BY <2>1, <2>2
<1>12. DOMAIN p = 0..n /\ p = [k \in 0..n |-> p[k]]
  OBVIOUS
<1> HIDE DEF p
<1>13. 0 \in Ints
  BY <1>11
<1>14. ASSUME NEW k \in Nat, k \in Ints PROVE k + 1 \in Ints
  <2> SUFFICES ASSUME k + 1 <= n PROVE p[k + 1] \in Int
    OBVIOUS
  <2>1. k + 1 \in 1..n /\ (k + 1) - 1 = k
    OBVIOUS
  <2>2. p[k] \in Int /\ s[k + 1].adds \in Int
    BY <1>14, <2>1 DEF Adding
  <2> QED
    BY <1>11, <2>1, <2>2
<1>15. Nat \subseteq Ints
  <2> HIDE DEF Ints
  <2> QED
    BY <1>13, <1>14, NumbersByInduction
<1>16. p \in [0..n -> Int]
  BY <1>12, <1>15
<1> QED
  BY <1>11, <1>16 DEF AddsUp

\* What adds up is the total.
LEMMA AddedUp ==
    ASSUME NEW n \in Nat, NEW s, DOMAIN s = 1..n, Adding(s, n), NEW p, AddsUp(p, s, n)
    PROVE  Total(s) = p[n] /\ Total(s) \in Int
<1>1. PICK q : AddsUp(q, s, n) /\ q[n] = Total(s)
  BY TotalAddsUp
<1> DEFINE Same == { k \in Nat : k <= n => p[k] = q[k] }
<1>2. 0 \in Same
  BY <1>1 DEF AddsUp
<1>3. ASSUME NEW k \in Nat, k \in Same PROVE k + 1 \in Same
  <2>1. k + 1 <= n => k + 1 \in 1..n /\ (k + 1) - 1 = k
    OBVIOUS
  <2> QED
    BY <1>1, <1>3, <2>1 DEF AddsUp
<1>4. Nat \subseteq Same
  <2> HIDE DEF Same
  <2> QED
    BY <1>2, <1>3, NumbersByInduction
<1> QED
  BY <1>1, <1>4 DEF AddsUp

\* t is s with one more at the place k.
Inserted(t, s, n, k, one) ==
    /\ DOMAIN t = 1..n + 1
    /\ \A i \in 1..n + 1 : t[i] = IF i < k THEN s[i] ELSE IF i = k THEN one ELSE s[i - 1]

\* One more adds itself, wherever it is inserted.
LEMMA InsertedAdds ==
    ASSUME NEW n \in Nat, NEW s, DOMAIN s = 1..n, Adding(s, n), NEW one, one.adds \in Int,
           NEW k \in 1..n + 1, NEW t, Inserted(t, s, n, k, one)
    PROVE  Total(t) = Total(s) + one.adds /\ Total(t) \in Int /\ Total(s) \in Int /\ Adding(t, n + 1)
<1>1. PICK p : AddsUp(p, s, n) /\ p[n] = Total(s)
  BY TotalAddsUp
<1>2. p \in [0..n -> Int] /\ p[0] = 0 /\ \A i \in 1..n : p[i] = p[i - 1] + s[i].adds
  BY <1>1 DEF AddsUp
<1> DEFINE q == [i \in 0..n + 1 |-> IF i < k THEN p[i] ELSE p[i - 1] + one.adds]
<1>3. Adding(t, n + 1)
  <2> SUFFICES ASSUME NEW i \in 1..n + 1 PROVE t[i].adds \in Int
    BY DEF Adding
  <2>1. CASE i < k
    <3>1. i \in 1..n /\ t[i] = s[i]
      BY <2>1 DEF Inserted
    <3> QED
      BY <3>1 DEF Adding
  <2>2. CASE i = k
    BY <2>2 DEF Inserted
  <2>3. CASE i > k
    <3>1. i - 1 \in 1..n /\ t[i] = s[i - 1]
      BY <2>3 DEF Inserted
    <3> QED
      BY <3>1 DEF Adding
  <2> QED
    BY <2>1, <2>2, <2>3
<1>4. q \in [0..n + 1 -> Int]
  <2> SUFFICES ASSUME NEW i \in 0..n + 1
               PROVE  (IF i < k THEN p[i] ELSE p[i - 1] + one.adds) \in Int
    OBVIOUS
  <2>1. (i < k => i \in 0..n) /\ (~(i < k) => i - 1 \in 0..n)
    OBVIOUS
  <2> QED
    BY <1>2, <2>1
<1>5. ASSUME NEW i \in 1..n + 1 PROVE q[i] = q[i - 1] + t[i].adds
  <2>1. CASE i < k
    <3>1. i \in 1..n /\ t[i] = s[i] /\ q[i] = p[i] /\ q[i - 1] = p[i - 1]
      BY <2>1 DEF Inserted
    <3> QED
      BY <1>2, <3>1
  <2>2. CASE i = k
    <3>1. t[i] = one /\ q[i] = p[i - 1] + one.adds /\ q[i - 1] = p[i - 1]
      BY <2>2 DEF Inserted
    <3> QED
      BY <3>1
  <2>3. CASE i > k
    <3>1. /\ i - 1 \in 1..n /\ t[i] = s[i - 1] /\ q[i] = p[i - 1] + one.adds
          /\ q[i - 1] = p[(i - 1) - 1] + one.adds
      BY <2>3 DEF Inserted
    <3>2. p[i - 1] = p[(i - 1) - 1] + s[i - 1].adds
      BY <1>2, <3>1
    <3>3. p[i - 1] \in Int /\ p[(i - 1) - 1] \in Int /\ s[i - 1].adds \in Int
      BY <1>2, <3>1 DEF Adding
    <3> QED
      BY <3>1, <3>2, <3>3
  <2> QED
    BY <2>1, <2>2, <2>3
<1>6. q[0] = 0 /\ q[n + 1] = p[n] + one.adds
  BY <1>2
<1> HIDE DEF q
<1>7. AddsUp(q, t, n + 1)
  BY <1>4, <1>5, <1>6 DEF AddsUp
<1>8. DOMAIN t = 1..n + 1
  BY DEF Inserted
<1>9. Total(t) = q[n + 1] /\ Total(t) \in Int
  BY <1>3, <1>7, <1>8, AddedUp
<1>10. Total(s) \in Int
  BY <1>1, AddedUp
<1> QED
  BY <1>1, <1>3, <1>6, <1>9, <1>10

-----------------------------------------------------------------------------
(* What a loop collects *)

\* c holds what the loop has collected after each of n events: of those in K it
\* appends m, and it goes on with the next after the others.
Collects(c, K, m, n) ==
    /\ c[0] = << >>
    /\ \A i \in 1..n : c[i] = IF i \in K THEN Append(c[i - 1], m[i]) ELSE c[i - 1]

\* The recursion of its fold.
CollectingFold(g, K, m, n) ==
    [T \in SUBSET (1..n) |->
        IF T = {} THEN << >>
        ELSE IF Max(T) \in K THEN Append(g[T \ {Max(T)}], m[Max(T)]) ELSE g[T \ {Max(T)}]]

\* It is defined.
LEMMA CollectingIsDefined ==
    ASSUME NEW n \in Nat, NEW K, NEW S, NEW m \in [1..n -> S]
    PROVE  \E g : g = CollectingFold(g, K, m, n)
<1> DEFINE A == Seq(S)
           step == [i \in 1..n |-> [found \in A |-> IF i \in K THEN Append(found, m[i]) ELSE found]]
<1>1. \A found \in A, i \in 1..n : Append(found, m[i]) \in A
  OBVIOUS
<1>2. << >> \in A
  OBVIOUS
<1> HIDE DEF A
<1>3. step \in [1..n -> [A -> A]]
  BY <1>1
<1>4. \A i \in 1..n : \A found \in A : step[i][found] = IF i \in K THEN Append(found, m[i]) ELSE found
  OBVIOUS
<1> HIDE DEF step
<1>5. HasFold(A, n, << >>, step)
  BY <1>2, <1>3, FoldEnds
<1>6. PICK g \in [SUBSET (1..n) -> A] : IsFold(g, n, << >>, step)
  BY <1>5 DEF HasFold
<1>7. ASSUME NEW T \in SUBSET (1..n)
      PROVE  g[T] = IF T = {} THEN << >>
                    ELSE IF Max(T) \in K THEN Append(g[T \ {Max(T)}], m[Max(T)]) ELSE g[T \ {Max(T)}]
  <2>1. CASE T = {}
    BY <1>6, <2>1 DEF IsFold
  <2>2. CASE T # {}
    <3>1. Max(T) \in 1..n /\ g[T \ {Max(T)}] \in A
      BY <2>2, MaxOfNumbers
    <3>2. g[T] = step[Max(T)][g[T \ {Max(T)}]]
      BY <1>6, <2>2 DEF IsFold
    <3> QED
      BY <1>4, <2>2, <3>1, <3>2
  <2> QED
    BY <2>1, <2>2
<1>8. g = CollectingFold(g, K, m, n)
  BY <1>6, <1>7 DEF CollectingFold
<1> QED
  BY <1>8

\* What it comes to after each event.
LEMMA CollectingOneByOne ==
    ASSUME NEW n \in Nat, NEW K, NEW m, NEW g, g = CollectingFold(g, K, m, n)
    PROVE  \E c : Collects(c, K, m, n) /\ c[n] = g[1..n]
<1>1. \A T \in SUBSET (1..n) :
          g[T] = IF T = {} THEN << >>
                 ELSE IF Max(T) \in K THEN Append(g[T \ {Max(T)}], m[Max(T)]) ELSE g[T \ {Max(T)}]
  BY DEF CollectingFold
<1> DEFINE c == [k \in 0..n |-> g[1..k]]
<1>2. c[0] = << >> /\ c[n] = g[1..n]
  <2>1. 1..0 = {} /\ 1..0 \in SUBSET (1..n) /\ 0 \in 0..n /\ n \in 0..n
    OBVIOUS
  <2>2. g[1..0] = << >>
    BY <1>1, <2>1
  <2> QED
    BY <2>1, <2>2
<1>3. ASSUME NEW i \in 1..n PROVE c[i] = IF i \in K THEN Append(c[i - 1], m[i]) ELSE c[i - 1]
  <2>1. /\ 1..i \in SUBSET (1..n) /\ 1..i # {}
        /\ Max(1..i) = i /\ (1..i) \ {i} = 1..i - 1
    BY LastOfInterval
  <2>2. i \in 0..n /\ i - 1 \in 0..n
    OBVIOUS
  <2> QED
    BY <1>1, <2>1, <2>2
<1> HIDE DEF c
<1> QED
  BY <1>2, <1>3 DEF Collects

\* It is a sequence of what was to be collected, all of it.
Collected(found, K, m, n, S) ==
    /\ found \in Seq(S)
    /\ \A j \in 1..Len(found) : \E i \in 1..n : i \in K /\ found[j] = m[i]
    /\ \A i \in 1..n : i \in K => \E j \in 1..Len(found) : found[j] = m[i]

\* What is collected is what was to be collected.
LEMMA CollectsAll ==
    ASSUME NEW n \in Nat, NEW K, NEW S, NEW m \in [1..n -> S], NEW c, Collects(c, K, m, n),
           NEW found, found = c[n]
    PROVE  Collected(found, K, m, n, S)
<1> DEFINE So == { k \in Nat : k <= n => Collected(c[k], K, m, k, S) }
<1>1. 0 \in So
  <2>1. << >> \in Seq(S) /\ Len(<< >>) = 0
    BY EmptySeq
  <2>2. 1..0 = {}
    OBVIOUS
  <2>3. Collected(<< >>, K, m, 0, S)
    BY <2>1, <2>2 DEF Collected
  <2> QED
    BY <2>3 DEF Collects
<1>2. ASSUME NEW k \in Nat, k \in So PROVE k + 1 \in So
  <2> SUFFICES ASSUME k + 1 <= n PROVE Collected(c[k + 1], K, m, k + 1, S)
    OBVIOUS
  <2>0. Collected(c[k], K, m, k, S)
    BY <1>2
  <2>1. PICK before \in Seq(S) : before = c[k]
    BY <2>0 DEF Collected
  <2>2. /\ \A j \in 1..Len(before) : \E i \in 1..k : i \in K /\ before[j] = m[i]
        /\ \A i \in 1..k : i \in K => \E j \in 1..Len(before) : before[j] = m[i]
    BY <2>0, <2>1 DEF Collected
  <2>3. k + 1 \in 1..n /\ (k + 1) - 1 = k /\ m[k + 1] \in S
    OBVIOUS
  <2>4. c[k + 1] = IF k + 1 \in K THEN Append(before, m[k + 1]) ELSE before
    BY <2>1, <2>3 DEF Collects
  <2>5. CASE k + 1 \notin K
    <3>1. c[k + 1] = before
      BY <2>4, <2>5
    <3>2. \A i \in 1..k + 1 : i \in K => i \in 1..k
      BY <2>5
    <3>3. \A i \in 1..k : i \in 1..k + 1
      OBVIOUS
    <3> QED
      BY <2>2, <3>1, <3>2, <3>3 DEF Collected
  <2>6. CASE k + 1 \in K
    <3>0. PICK one \in S : one = m[k + 1]
      BY <2>3
    <3>1. PICK more : more = Append(before, one) /\ more = c[k + 1]
      BY <2>4, <2>6, <3>0
    <3>2. /\ Len(more) = Len(before) + 1 /\ Len(before) \in Nat
          /\ more[Len(before) + 1] = m[k + 1]
          /\ \A j \in 1..Len(before) : more[j] = before[j]
      <4>1. /\ Len(Append(before, one)) = Len(before) + 1
            /\ Append(before, one)[Len(before) + 1] = one
            /\ \A j \in 1..Len(before) : Append(before, one)[j] = before[j]
        BY AppendProperties
      <4>2. Len(before) \in Nat
        OBVIOUS
      <4>3. Append(before, one) = more
        BY <3>1
      <4> QED
        BY <3>0, <4>1, <4>2, <4>3
    <3>5. more \in Seq(S)
      <4>1. Append(before, one) \in Seq(S)
        BY AppendProperties
      <4>2. Append(before, one) = more
        BY <3>1
      <4> QED
        BY <4>1, <4>2
    <3>3. ASSUME NEW j \in 1..Len(more) PROVE \E i \in 1..k + 1 : i \in K /\ more[j] = m[i]
      <4>1. CASE j \in 1..Len(before)
        BY <2>2, <3>2, <4>1
      <4>2. CASE j = Len(before) + 1
        BY <2>6, <3>2, <4>2
      <4> QED
        BY <3>2, <4>1, <4>2
    <3>4. ASSUME NEW i \in 1..k + 1, i \in K PROVE \E j \in 1..Len(more) : more[j] = m[i]
      <4>1. CASE i \in 1..k
        BY <2>2, <3>2, <3>4, <4>1
      <4>2. CASE i = k + 1
        BY <3>2, <4>2
      <4> QED
        BY <4>1, <4>2
    <3> QED
      BY <3>1, <3>3, <3>4, <3>5 DEF Collected
  <2> QED
    BY <2>5, <2>6
<1>3. Nat \subseteq So
  <2> HIDE DEF So
  <2> QED
    BY <1>1, <1>2, NumbersByInduction
<1> QED
  BY <1>3

\* One more at the end.
LEMMA AppendedIsInserted ==
    ASSUME NEW S, NEW s \in Seq(S), NEW one, NEW t, t = Append(s, one)
    PROVE  Inserted(t, s, Len(s), Len(s) + 1, one)
<1>1. PICK n \in Nat : n = Len(s)
  OBVIOUS
<1>2. s \in Seq(S \union {one}) /\ one \in S \union {one}
  BY SeqDef
<1>3. /\ DOMAIN t = 1..n + 1 /\ t[n + 1] = one
      /\ \A i \in 1..n : t[i] = s[i]
  BY <1>1, <1>2
<1> QED
  BY <1>1, <1>3 DEF Inserted

\* The sums of what is collected.
Running(p, K, m, n) ==
    /\ p[0] = 0
    /\ \A i \in 1..n : p[i] = IF i \in K THEN p[i - 1] + m[i].adds ELSE p[i - 1]

Summable(m, n, S) == m \in [1..n -> S] /\ \A one \in S : one.adds \in Int

\* What a loop comes to, and its sum.
Sums(found, sum, K, m, n) ==
    \E c, p : Collects(c, K, m, n) /\ c[n] = found /\ Running(p, K, m, n) /\ p[n] = sum

\* What was collected adds up to what each event adds.
LEMMA CollectedTotal ==
    ASSUME NEW n \in Nat, NEW K, NEW S, NEW m, Summable(m, n, S),
           NEW found, NEW sum, Sums(found, sum, K, m, n)
    PROVE  Total(found) = sum
<1>0. m \in [1..n -> S] /\ \A one \in S : one.adds \in Int
  BY DEF Summable
<1>4. PICK c, p : Collects(c, K, m, n) /\ c[n] = found /\ Running(p, K, m, n) /\ p[n] = sum
  BY DEF Sums
<1> DEFINE So == { k \in Nat : k <= n => c[k] \in Seq(S) /\ Total(c[k]) = p[k] }
<1>1. 0 \in So
  <2>1. c[0] = << >> /\ << >> \in Seq(S)
    BY <1>4 DEF Collects
  <2>2. PICK none : none = << >>
    OBVIOUS
  <2>3. DOMAIN none = 1..0 /\ Adding(none, 0)
    BY <2>2 DEF Adding
  <2>4. PICK q : AddsUp(q, none, 0) /\ q[0] = Total(none)
    BY <2>3, TotalAddsUp
  <2>5. Total(none) = 0
    BY <2>4 DEF AddsUp
  <2> QED
    BY <1>4, <2>1, <2>2, <2>5 DEF Running
<1>2. ASSUME NEW k \in Nat, k \in So PROVE k + 1 \in So
  <2> SUFFICES ASSUME k + 1 <= n PROVE c[k + 1] \in Seq(S) /\ Total(c[k + 1]) = p[k + 1]
    OBVIOUS
  <2>1. PICK before \in Seq(S) : before = c[k] /\ Total(before) = p[k]
    BY <1>2
  <2>2. k + 1 \in 1..n /\ (k + 1) - 1 = k /\ m[k + 1] \in S
    BY <1>0
  <2>3. /\ c[k + 1] = IF k + 1 \in K THEN Append(before, m[k + 1]) ELSE before
        /\ p[k + 1] = IF k + 1 \in K THEN p[k] + m[k + 1].adds ELSE p[k]
    BY <1>4, <2>1, <2>2 DEF Collects, Running
  <2>4. CASE k + 1 \notin K
    BY <2>1, <2>3, <2>4
  <2>5. CASE k + 1 \in K
    <3>1. PICK one \in S : one = m[k + 1]
      BY <2>2
    <3>2. PICK l \in Nat : l = Len(before) /\ DOMAIN before = 1..l
      OBVIOUS
    <3>3. Adding(before, l) /\ one.adds \in Int
      BY <1>0, <3>2 DEF Adding
    <3>4. PICK more \in Seq(S) : more = Append(before, one)
      BY AppendProperties
    <3>5. Inserted(more, before, l, l + 1, one)
      BY <3>2, <3>4, AppendedIsInserted
    <3>6. Total(more) = Total(before) + one.adds
      BY <3>2, <3>3, <3>5, InsertedAdds
    <3> QED
      BY <2>1, <2>3, <2>5, <3>1, <3>4, <3>6
  <2> QED
    BY <2>4, <2>5
<1>3. Nat \subseteq So
  <2> HIDE DEF So
  <2> QED
    BY <1>1, <1>2, NumbersByInduction
<1> QED
  BY <1>4, <1>3

-----------------------------------------------------------------------------
(* The sums and the lists of an evaluation *)

\* What is no outcome adds nothing.
LEMMA NeutralAddsNothing ==
    ASSUME NEW event \in Events, NEW at \in 0..Horizon, event.healthStatus # "OK"
    PROVE  Contribution(event, at) = 0
<1>1. ResolveSignalOutcome(event) = "NEUTRAL"
  BY DEF ResolveSignalOutcome
<1> QED
  BY <1>1, EventAdds

\* The recursion of LogOdds' fold.
LogOddsFold(g, events, at) ==
    [T \in SUBSET DOMAIN events |->
        IF T = {} THEN 0
        ELSE LET last == Max(T)
             IN IF Eligible(events[last]) THEN g[T \ {last}] + Contribution(events[last], at)
                ELSE g[T \ {last}]]

\* p adds up what each event adds.
SumsUp(p, events, at, n) ==
    /\ p \in [0..n -> Int] /\ p[0] = 0
    /\ \A i \in 1..n : p[i] = p[i - 1] + Contribution(events[i], at)

\* The log odds are what the events add, one after the other.
LEMMA LogOddsSumsUp ==
    ASSUME NEW n \in Nat, NEW events \in [1..n -> Events], NEW at \in 0..Horizon
    PROVE  \E p : SumsUp(p, events, at, n) /\ p[n] = LogOdds(events, at)
<1> DEFINE step == [i \in 1..n |-> [sum \in Int |->
                       IF Eligible(events[i]) THEN sum + Contribution(events[i], at) ELSE sum]]
           iter == CHOOSE g : g = LogOddsFold(g, events, at)
<1>0. ASSUME NEW i \in 1..n
      PROVE  /\ Contribution(events[i], at) \in Int
             /\ ~Eligible(events[i]) => Contribution(events[i], at) = 0
  <2>1. events[i] \in Events
    OBVIOUS
  <2> QED
    BY <2>1, EventAdds, NeutralAddsNothing DEF Eligible
<1>1. step \in [1..n -> [Int -> Int]]
  BY <1>0
<1>2. \A i \in 1..n : \A sum \in Int :
          step[i][sum] = IF Eligible(events[i]) THEN sum + Contribution(events[i], at) ELSE sum
  OBVIOUS
<1> HIDE DEF step
<1>3. HasFold(Int, n, 0, step)
  <2>1. 0 \in Int
    OBVIOUS
  <2> QED
    BY <1>1, <2>1, FoldEnds
<1>4. PICK g \in [SUBSET (1..n) -> Int] : IsFold(g, n, 0, step)
  BY <1>3 DEF HasFold
<1>5. ASSUME NEW T \in SUBSET (1..n)
      PROVE  g[T] = IF T = {} THEN 0
                    ELSE IF Eligible(events[Max(T)]) THEN g[T \ {Max(T)}] + Contribution(events[Max(T)], at)
                    ELSE g[T \ {Max(T)}]
  <2>1. CASE T = {}
    BY <1>4, <2>1 DEF IsFold
  <2>2. CASE T # {}
    <3>1. Max(T) \in 1..n /\ g[T \ {Max(T)}] \in Int
      BY <2>2, MaxOfNumbers
    <3>2. g[T] = step[Max(T)][g[T \ {Max(T)}]]
      BY <1>4, <2>2 DEF IsFold
    <3> QED
      BY <1>2, <2>2, <3>1, <3>2
  <2> QED
    BY <2>1, <2>2
<1>6. DOMAIN events = 1..n
  OBVIOUS
<1>7. g = LogOddsFold(g, events, at)
  BY <1>4, <1>5, <1>6 DEF LogOddsFold
<1>8. iter = LogOddsFold(iter, events, at)
  BY <1>7
<1>9. iter[1..n] = LogOdds(events, at)
  BY <1>6 DEF LogOdds, FoldLeft, MapThenFoldSet, LogOddsFold
<1> HIDE DEF iter
<1>10. \A T \in SUBSET (1..n) :
          iter[T] = IF T = {} THEN 0
                    ELSE IF Eligible(events[Max(T)])
                         THEN iter[T \ {Max(T)}] + Contribution(events[Max(T)], at)
                    ELSE iter[T \ {Max(T)}]
  BY <1>6, <1>8 DEF LogOddsFold
<1>11. iter[1..0] = 0
  <2>1. 1..0 = {} /\ 1..0 \in SUBSET (1..n)
    OBVIOUS
  <2> QED
    BY <1>10, <2>1
<1>12. ASSUME NEW i \in 1..n
       PROVE  iter[1..i] = IF Eligible(events[i]) THEN iter[1..i - 1] + Contribution(events[i], at)
                           ELSE iter[1..i - 1]
  <2>1. /\ 1..i \in SUBSET (1..n) /\ 1..i # {}
        /\ Max(1..i) = i /\ (1..i) \ {i} = 1..i - 1
    BY LastOfInterval
  <2> QED
    BY <1>10, <2>1
<1> DEFINE Ints == { k \in Nat : k <= n => iter[1..k] \in Int }
<1>13. 0 \in Ints
  BY <1>11
<1>14. ASSUME NEW k \in Nat, k \in Ints PROVE k + 1 \in Ints
  <2>1. k + 1 <= n => k + 1 \in 1..n /\ (k + 1) - 1 = k
    OBVIOUS
  <2> QED
    BY <1>0, <1>12, <1>14, <2>1
<1>15. Nat \subseteq Ints
  <2> HIDE DEF Ints
  <2> QED
    BY <1>13, <1>14, NumbersByInduction
<1> DEFINE p == [k \in 0..n |-> iter[1..k]]
<1>16. p \in [0..n -> Int] /\ p[0] = 0 /\ p[n] = LogOdds(events, at)
  BY <1>9, <1>11, <1>15
<1>17. ASSUME NEW i \in 1..n PROVE p[i] = p[i - 1] + Contribution(events[i], at)
  <2>1. i \in 0..n /\ i - 1 \in 0..n
    OBVIOUS
  <2>2. iter[1..i - 1] \in Int
    BY <1>15, <2>1
  <2> QED
    BY <1>0, <1>12, <2>1, <2>2
<1> HIDE DEF p
<1> QED
  BY <1>16, <1>17 DEF SumsUp

\* The recursion of Contributors' fold.
ContributorsFold(g, events, at) ==
    [T \in SUBSET DOMAIN events |->
        IF T = {} THEN << >>
        ELSE LET last == Max(T)
                 added == Contribution(events[last], at)
             IN IF Eligible(events[last]) /\ added # 0
                THEN Append(g[T \ {last}], [event |-> events[last], adds |-> added])
                ELSE g[T \ {last}]]

\* What the contributors are made of.
Contributing(events, at, n) ==
    { i \in 1..n : Eligible(events[i]) /\ Contribution(events[i], at) # 0 }
AsContributor(events, at, n) ==
    [i \in 1..n |-> [event |-> events[i], adds |-> Contribution(events[i], at)]]

\* Contributors collects what adds something.
LEMMA ContributorsCollect ==
    ASSUME NEW n \in Nat, NEW events \in [1..n -> Events], NEW at \in 0..Horizon,
           NEW K, K = Contributing(events, at, n), NEW m, m = AsContributor(events, at, n)
    PROVE  \E c : Collects(c, K, m, n) /\ c[n] = Contributors(events, at)
<1> DEFINE iter == CHOOSE g : g = ContributorsFold(g, events, at)
<1>0. DOMAIN events = 1..n
  OBVIOUS
<1>1. ASSUME NEW g PROVE ContributorsFold(g, events, at) = CollectingFold(g, K, m, n)
  <2>1. ASSUME NEW T \in SUBSET (1..n), T # {}
        PROVE  /\ Max(T) \in K <=> Eligible(events[Max(T)]) /\ Contribution(events[Max(T)], at) # 0
               /\ m[Max(T)] = [event |-> events[Max(T)], adds |-> Contribution(events[Max(T)], at)]
    <3>1. Max(T) \in 1..n
      BY <2>1, MaxOfNumbers
    <3> QED
      BY <3>1 DEF Contributing, AsContributor
  <2> QED
    BY <1>0, <2>1 DEF ContributorsFold, CollectingFold
<1>2. m \in [1..n -> { m[i] : i \in 1..n }]
  BY DEF AsContributor
<1>3. \E g : g = CollectingFold(g, K, m, n)
  BY <1>2, CollectingIsDefined
<1>4. iter = CollectingFold(iter, K, m, n)
  BY <1>1, <1>3
<1>5. iter[1..n] = Contributors(events, at)
  BY <1>0 DEF Contributors, FoldLeft, MapThenFoldSet, ContributorsFold
<1> HIDE DEF iter
<1> QED
  BY <1>4, <1>5, CollectingOneByOne

\* The recursion of ContributingSignals' fold.
SignalsFold(g, events, at) ==
    [T \in SUBSET DOMAIN events |->
        IF T = {} THEN << >>
        ELSE LET last == Max(T)
                 adds == DecayedLogLikelihoodRatio(events[last], at)
             IN IF Missing(events[last]) \/ adds = 0 THEN g[T \ {last}]
                ELSE Append(g[T \ {last}], [signalName |-> events[last].signalName, adds |-> adds,
                                            outcome |-> Classification(events[last])])]

\* What the report's contributing signals are made of.
Signalling(events, at, n) ==
    { i \in 1..n : ~Missing(events[i]) /\ DecayedLogLikelihoodRatio(events[i], at) # 0 }
AsSignal(events, at, n) ==
    [i \in 1..n |-> [signalName |-> events[i].signalName,
                     adds |-> DecayedLogLikelihoodRatio(events[i], at),
                     outcome |-> Classification(events[i])]]

\* ContributingSignals collects what adds something and is not missing.
LEMMA SignalsCollect ==
    ASSUME NEW n \in Nat, NEW events \in [1..n -> Events], NEW at \in 0..Horizon,
           NEW K, K = Signalling(events, at, n), NEW m, m = AsSignal(events, at, n)
    PROVE  \E c : Collects(c, K, m, n) /\ c[n] = ContributingSignals(events, at)
<1> DEFINE iter == CHOOSE g : g = SignalsFold(g, events, at)
<1>0. DOMAIN events = 1..n
  OBVIOUS
<1>1. ASSUME NEW g PROVE SignalsFold(g, events, at) = CollectingFold(g, K, m, n)
  <2>1. ASSUME NEW T \in SUBSET (1..n), T # {}
        PROVE  /\ Max(T) \notin K <=> \/ Missing(events[Max(T)])
                                      \/ DecayedLogLikelihoodRatio(events[Max(T)], at) = 0
               /\ m[Max(T)] = [signalName |-> events[Max(T)].signalName,
                               adds |-> DecayedLogLikelihoodRatio(events[Max(T)], at),
                               outcome |-> Classification(events[Max(T)])]
    <3>1. Max(T) \in 1..n
      BY <2>1, MaxOfNumbers
    <3> QED
      BY <3>1 DEF Signalling, AsSignal
  <2> QED
    BY <1>0, <2>1 DEF SignalsFold, CollectingFold
<1>2. m \in [1..n -> { m[i] : i \in 1..n }]
  BY DEF AsSignal
<1>3. \E g : g = CollectingFold(g, K, m, n)
  BY <1>2, CollectingIsDefined
<1>4. iter = CollectingFold(iter, K, m, n)
  BY <1>1, <1>3
<1>5. iter[1..n] = ContributingSignals(events, at)
  BY <1>0 DEF ContributingSignals, FoldLeft, MapThenFoldSet, SignalsFold
<1> HIDE DEF iter
<1> QED
  BY <1>4, <1>5, CollectingOneByOne

\* The recursion of WithoutClaims' fold.
WithoutClaimsFold(g, events) ==
    [T \in SUBSET DOMAIN events |->
        IF T = {} THEN << >>
        ELSE LET last == Max(T)
             IN IF events[last].bundle = "claim" THEN g[T \ {last}]
                ELSE Append(g[T \ {last}], events[last])]

\* Without claims there are fewer events, of the same kind.
LEMMA WithoutClaimsAreEvents ==
    ASSUME NEW n \in Nat, NEW S, NEW events \in [1..n -> S]
    PROVE  WithoutClaims(events) \in Seq(S)
<1> DEFINE iter == CHOOSE g : g = WithoutClaimsFold(g, events)
           K == { i \in 1..n : events[i].bundle # "claim" }
<1>0. DOMAIN events = 1..n
  OBVIOUS
<1>1. ASSUME NEW g PROVE WithoutClaimsFold(g, events) = CollectingFold(g, K, events, n)
  <2>1. ASSUME NEW T \in SUBSET (1..n), T # {}
        PROVE  Max(T) \notin K <=> events[Max(T)].bundle = "claim"
    <3>1. Max(T) \in 1..n
      BY <2>1, MaxOfNumbers
    <3> QED
      BY <3>1
  <2> HIDE DEF K
  <2> QED
    BY <1>0, <2>1 DEF WithoutClaimsFold, CollectingFold
<1> HIDE DEF K
<1>3. \E g : g = CollectingFold(g, K, events, n)
  BY CollectingIsDefined
<1>4. iter = CollectingFold(iter, K, events, n)
  BY <1>1, <1>3
<1>5. iter[1..n] = WithoutClaims(events)
  BY <1>0 DEF WithoutClaims, FoldLeft, MapThenFoldSet, WithoutClaimsFold
<1> HIDE DEF iter
<1>6. PICK c : Collects(c, K, events, n) /\ c[n] = iter[1..n]
  BY <1>4, CollectingOneByOne
<1>7. Collected(c[n], K, events, n, S)
  BY <1>6, CollectsAll
<1> QED
  BY <1>5, <1>6, <1>7 DEF Collected

-----------------------------------------------------------------------------
(* The strongest first *)

\* The first place of a sequence that is in a set of its places, or none.
LEMMA FirstPlace ==
    ASSUME NEW n \in Nat, NEW I \in SUBSET (1..n), I # {}
    PROVE  Min(I) \in I /\ \A j \in I : Min(I) <= j
<1>1. PICK i \in I : \A j \in I : i <= j
  <2>1. I \subseteq Nat
    OBVIOUS
  <2> QED
    BY <2>1, LeastOfNumbers
<1>2. PICK least \in I : least = Min(I) /\ \A j \in I : least <= j
  BY <1>1 DEF Min
<1> QED
  BY <1>2

\* The step of StrongestFirst's fold.
InsertRanked(sorted, one) ==
    LET worse == SelectInSeq(sorted, LAMBDA other : Magnitude(one.adds) > Magnitude(other.adds))
    IN IF worse = 0 THEN Append(sorted, one) ELSE InsertAt(sorted, worse, one)

\* The place of one more: after all that it does not outweigh.
IsItsPlace(k, s, n, one) ==
    /\ k \in 1..n + 1
    /\ \A j \in 1..n : j < k => ~(Magnitude(one.adds) > Magnitude(s[j].adds))
    /\ k <= n => Magnitude(one.adds) > Magnitude(s[k].adds)

\* What InsertAt does.
LEMMA InsertAtInserts ==
    ASSUME NEW S, NEW s \in Seq(S), NEW one \in S, NEW k \in 1..Len(s), NEW t, t = InsertAt(s, k, one)
    PROVE  t \in Seq(S) /\ Inserted(t, s, Len(s), k, one)
<1>1. PICK n \in Nat : n = Len(s)
  OBVIOUS
<1> DEFINE front == SubSeq(s, 1, k - 1)
           back == SubSeq(s, k, n)
<1>2. front \in Seq(S) /\ Len(front) = k - 1 /\ \A i \in 1..k - 1 : front[i] = s[i]
  BY <1>1, SubSeqProperties
<1>3. back \in Seq(S) /\ Len(back) = n - k + 1 /\ \A i \in 1..n - k + 1 : back[i] = s[k + i - 1]
  BY <1>1, SubSeqProperties
<1>4. t = (front \o << one >>) \o back
  BY <1>1 DEF InsertAt
<1> HIDE DEF front, back
<1>5. PICK half \in Seq(S) : half = front \o << one >>
  <2>1. << one >> \in Seq(S)
    OBVIOUS
  <2> QED
    BY <1>2, <2>1, ConcatProperties
<1>6. Len(half) = k /\ half[k] = one /\ \A i \in 1..k - 1 : half[i] = s[i]
  <2>1. << one >> \in Seq(S) /\ Len(<< one >>) = 1 /\ << one >>[1] = one
    OBVIOUS
  <2>2. PICK single \in Seq(S) : single = << one >> /\ Len(single) = 1 /\ single[1] = one
    BY <2>1
  <2>3. /\ Len(front \o single) = Len(front) + Len(single)
        /\ \A i \in 1..Len(front) + Len(single) :
              (front \o single)[i] = IF i <= Len(front) THEN front[i] ELSE single[i - Len(front)]
    BY <1>2, <2>2, ConcatProperties
  <2>4. \A i \in 1..k : half[i] = IF i <= k - 1 THEN front[i] ELSE single[i - (k - 1)]
    BY <1>2, <1>5, <2>2, <2>3
  <2>5. k - (k - 1) = 1 /\ ~(k <= k - 1) /\ k \in 1..k
    OBVIOUS
  <2>6. half[k] = one
    BY <2>2, <2>4, <2>5
  <2>7. \A i \in 1..k - 1 : half[i] = s[i]
    BY <1>2, <2>4
  <2>8. Len(half) = k
    BY <1>2, <1>5, <2>2, <2>3
  <2> QED
    BY <2>6, <2>7, <2>8
<1>7. /\ half \o back \in Seq(S)
      /\ Len(half \o back) = Len(half) + Len(back)
      /\ \A i \in 1..Len(half) + Len(back) :
            (half \o back)[i] = IF i <= Len(half) THEN half[i] ELSE back[i - Len(half)]
  BY <1>3, ConcatProperties
<1>8. t = half \o back /\ Len(half) + Len(back) = n + 1
  <2>1. t = half \o back
    BY <1>4, <1>5
  <2>2. Len(half) + Len(back) = k + (n - k + 1) /\ k \in Int
    BY <1>3, <1>6
  <2> QED
    BY <2>1, <2>2
<1>9. t \in Seq(S) /\ Len(t) = n + 1 /\ DOMAIN t = 1..n + 1
  BY <1>7, <1>8
<1>10. ASSUME NEW i \in 1..n + 1
       PROVE  t[i] = IF i < k THEN s[i] ELSE IF i = k THEN one ELSE s[i - 1]
  <2>1. t[i] = IF i <= k THEN half[i] ELSE back[i - k]
    BY <1>6, <1>7, <1>8
  <2>2. CASE i < k
    BY <1>6, <2>1, <2>2
  <2>3. CASE i = k
    BY <1>6, <2>1, <2>3
  <2>4. CASE i > k
    <3>1. i - k \in 1..n - k + 1 /\ k + (i - k) - 1 = i - 1
      BY <2>4
    <3> QED
      BY <1>3, <2>1, <2>4, <3>1
  <2> QED
    BY <2>2, <2>3, <2>4
<1> QED
  BY <1>1, <1>9, <1>10 DEF Inserted

\* What the step does.
LEMMA InsertRankedInserts ==
    ASSUME NEW S, NEW s \in Seq(S), NEW one \in S, NEW t, t = InsertRanked(s, one)
    PROVE  /\ t \in Seq(S)
           /\ \E k : IsItsPlace(k, s, Len(s), one) /\ Inserted(t, s, Len(s), k, one)
<1>1. PICK n \in Nat : n = Len(s)
  OBVIOUS
<1> DEFINE I == { i \in 1..n : Magnitude(one.adds) > Magnitude(s[i].adds) }
<1>2. t = IF (IF I # {} THEN Min(I) ELSE 0) = 0 THEN Append(s, one)
          ELSE InsertAt(s, IF I # {} THEN Min(I) ELSE 0, one)
  BY <1>1 DEF InsertRanked, SelectInSeq
<1>3. I \in SUBSET (1..n) /\ \A i \in 1..n : i \in I <=> Magnitude(one.adds) > Magnitude(s[i].adds)
  OBVIOUS
<1> HIDE DEF I
<1>4. CASE I = {}
  <2>1. t = Append(s, one) /\ t \in Seq(S)
    BY <1>2, <1>4
  <2>2. Inserted(t, s, n, n + 1, one)
    BY <1>1, <2>1, AppendedIsInserted
  <2>3. n + 1 \in 1..n + 1 /\ ~(n + 1 <= n)
    OBVIOUS
  <2>4. IsItsPlace(n + 1, s, n, one)
    BY <1>3, <1>4, <2>3 DEF IsItsPlace
  <2> QED
    BY <1>1, <2>1, <2>2, <2>4
<1>5. CASE I # {}
  <2>1. PICK k \in I : k = Min(I) /\ \A j \in I : k <= j
    BY <1>3, <1>5, FirstPlace
  <2>2. k \in 1..n /\ k # 0
    BY <1>3
  <2>3. t = InsertAt(s, k, one)
    BY <1>2, <1>5, <2>1, <2>2
  <2>4. t \in Seq(S) /\ Inserted(t, s, n, k, one)
    BY <1>1, <2>2, <2>3, InsertAtInserts
  <2>5. \A j \in 1..n : j < k => j \notin I
    BY <2>1, <2>2
  <2>6. IsItsPlace(k, s, n, one)
    BY <1>3, <2>1, <2>2, <2>5 DEF IsItsPlace
  <2> QED
    BY <1>1, <2>4, <2>6
<1> QED
  BY <1>4, <1>5

\* The strongest first.
Descending(s, n) ==
    \A i, j \in 1..n : i < j => Magnitude(s[j].adds) <= Magnitude(s[i].adds)

\* It stays so.
LEMMA InsertedDescends ==
    ASSUME NEW n \in Nat, NEW s, Adding(s, n), Descending(s, n), NEW one, one.adds \in Int,
           NEW k, IsItsPlace(k, s, n, one), NEW t, Inserted(t, s, n, k, one)
    PROVE  Descending(t, n + 1)
<1>1. k \in 1..n + 1
  BY DEF IsItsPlace
<1> DEFINE weight == [i \in 1..n |-> Magnitude(s[i].adds)]
<1>2. PICK own \in Nat : own = Magnitude(one.adds)
  BY DEF Magnitude
<1>3. weight \in [1..n -> Nat]
  BY DEF Adding, Magnitude
<1>4. \A i, j \in 1..n : i < j => weight[j] <= weight[i]
  BY DEF Descending
<1>5. (\A j \in 1..n : j < k => ~(own > weight[j])) /\ (k <= n => own > weight[k])
  BY <1>1, <1>2 DEF IsItsPlace
<1>6. \A i \in 1..n : Magnitude(s[i].adds) = weight[i]
  OBVIOUS
<1> HIDE DEF weight
<1>7. ASSUME NEW i \in 1..n + 1
      PROVE  Magnitude(t[i].adds) = IF i < k THEN weight[i] ELSE IF i = k THEN own ELSE weight[i - 1]
  <2>1. t[i] = IF i < k THEN s[i] ELSE IF i = k THEN one ELSE s[i - 1]
    BY DEF Inserted
  <2>2. (i < k => i \in 1..n) /\ (i > k => i - 1 \in 1..n)
    BY <1>1
  <2> QED
    BY <1>1, <1>2, <1>6, <2>1, <2>2
<1>8. ASSUME NEW j \in 1..n, j > k PROVE weight[j] <= own
  <2>1. k \in 1..n /\ weight[j] <= weight[k] /\ own > weight[k]
    BY <1>1, <1>4, <1>5, <1>8
  <2>2. weight[j] \in Nat /\ weight[k] \in Nat
    BY <1>3, <2>1
  <2> QED
    BY <2>1, <2>2
<1>9. ASSUME NEW j \in 1..n, j >= k PROVE weight[j] <= own
  <2>1. j = k => weight[j] <= own
    BY <1>1, <1>3, <1>5
  <2> QED
    BY <1>1, <1>8, <1>9, <2>1
<1>10. ASSUME NEW i \in 1..n, i < k PROVE own <= weight[i]
  BY <1>3, <1>5, <1>10
<1>11. ASSUME NEW i \in 1..n + 1, NEW j \in 1..n + 1, i < j
       PROVE  Magnitude(t[j].adds) <= Magnitude(t[i].adds)
  <2>1. CASE j < k
    <3>1. i \in 1..n /\ j \in 1..n /\ i < k
      BY <1>1, <1>11, <2>1
    <3>2. weight[j] <= weight[i]
      BY <1>4, <1>11, <3>1
    <3> QED
      BY <1>7, <2>1, <3>1, <3>2
  <2>2. CASE j = k
    <3>1. i \in 1..n /\ i < k
      BY <1>1, <1>11, <2>2
    <3>2. own <= weight[i]
      BY <1>10, <3>1
    <3>3. ~(j < k)
      BY <1>1, <2>2
    <3> QED
      BY <1>7, <2>2, <3>1, <3>2, <3>3
  <2>3. CASE j > k
    <3>1. j - 1 \in 1..n /\ j - 1 >= k /\ ~(j < k) /\ j # k
      BY <1>1, <2>3
    <3>2. Magnitude(t[j].adds) = weight[j - 1]
      BY <1>7, <3>1
    <3>3. weight[j - 1] <= own /\ weight[j - 1] \in Nat
      BY <1>3, <1>9, <3>1
    <3>4. CASE i < k
      <4>1. i \in 1..n /\ own <= weight[i] /\ weight[i] \in Nat
        BY <1>1, <1>3, <1>10, <3>4
      <4> QED
        BY <1>7, <3>2, <3>3, <3>4, <4>1
    <3>5. CASE i = k
      <4>1. ~(i < k)
        BY <1>1, <3>5
      <4> QED
        BY <1>7, <3>2, <3>3, <3>5, <4>1
    <3>6. CASE i > k
      <4>1. i - 1 \in 1..n /\ i - 1 < j - 1 /\ ~(i < k) /\ i # k
        BY <1>1, <1>11, <3>6
      <4>2. weight[j - 1] <= weight[i - 1]
        BY <1>4, <3>1, <4>1
      <4> QED
        BY <1>7, <3>2, <4>1, <4>2
    <3> QED
      BY <1>1, <3>4, <3>5, <3>6
  <2> QED
    BY <1>1, <2>1, <2>2, <2>3
<1> QED
  BY <1>11 DEF Descending

\* The recursion of StrongestFirst's fold.
RankFold(g, s) ==
    [T \in SUBSET DOMAIN s |->
        IF T = {} THEN << >> ELSE LET last == Max(T) IN InsertRanked(g[T \ {last}], s[last])]

\* It is defined, and StrongestFirst is what it comes to.
LEMMA RanksOneByOne ==
    ASSUME NEW n \in Nat, NEW S, NEW s \in [1..n -> S]
    PROVE  \E r : /\ r[0] = << >> /\ r[n] = StrongestFirst(s)
                  /\ \A i \in 1..n : r[i] = InsertRanked(r[i - 1], s[i])
<1> DEFINE A == Seq(S)
           step == [i \in 1..n |-> [sorted \in A |-> InsertRanked(sorted, s[i])]]
           iter == CHOOSE g : g = RankFold(g, s)
<1>0. DOMAIN s = 1..n
  OBVIOUS
<1>1. ASSUME NEW sorted \in A, NEW i \in 1..n PROVE InsertRanked(sorted, s[i]) \in A
  <2>1. s[i] \in S
    OBVIOUS
  <2> QED
    BY <2>1, InsertRankedInserts
<1>2. << >> \in A
  OBVIOUS
<1> HIDE DEF A
<1>3. step \in [1..n -> [A -> A]]
  BY <1>1
<1>4. \A i \in 1..n : \A sorted \in A : step[i][sorted] = InsertRanked(sorted, s[i])
  OBVIOUS
<1> HIDE DEF step
<1>5. HasFold(A, n, << >>, step)
  BY <1>2, <1>3, FoldEnds
<1>6. PICK g \in [SUBSET (1..n) -> A] : IsFold(g, n, << >>, step)
  BY <1>5 DEF HasFold
<1>7. ASSUME NEW T \in SUBSET (1..n)
      PROVE  g[T] = IF T = {} THEN << >> ELSE InsertRanked(g[T \ {Max(T)}], s[Max(T)])
  <2>1. CASE T = {}
    BY <1>6, <2>1 DEF IsFold
  <2>2. CASE T # {}
    <3>1. Max(T) \in 1..n /\ g[T \ {Max(T)}] \in A
      BY <2>2, MaxOfNumbers
    <3>2. g[T] = step[Max(T)][g[T \ {Max(T)}]]
      BY <1>6, <2>2 DEF IsFold
    <3> QED
      BY <1>4, <2>2, <3>1, <3>2
  <2> QED
    BY <2>1, <2>2
<1>8. g = RankFold(g, s)
  BY <1>0, <1>6, <1>7 DEF RankFold
<1>9. iter = RankFold(iter, s)
  BY <1>8
<1>10. iter[1..n] = StrongestFirst(s)
  BY <1>0 DEF StrongestFirst, StablySorted, FoldLeft, MapThenFoldSet, InsertRanked, RankFold
<1> HIDE DEF iter
<1>11. \A T \in SUBSET (1..n) :
           iter[T] = IF T = {} THEN << >> ELSE InsertRanked(iter[T \ {Max(T)}], s[Max(T)])
  BY <1>0, <1>9 DEF RankFold
<1> DEFINE r == [k \in 0..n |-> iter[1..k]]
<1>12. r[0] = << >> /\ r[n] = StrongestFirst(s)
  <2>1. 1..0 = {} /\ 1..0 \in SUBSET (1..n)
    OBVIOUS
  <2>2. iter[1..0] = << >>
    BY <1>11, <2>1
  <2>3. 0 \in 0..n /\ n \in 0..n
    OBVIOUS
  <2> QED
    BY <1>10, <2>2, <2>3
<1>13. ASSUME NEW i \in 1..n PROVE r[i] = InsertRanked(r[i - 1], s[i])
  <2>1. /\ 1..i \in SUBSET (1..n) /\ 1..i # {}
        /\ Max(1..i) = i /\ (1..i) \ {i} = 1..i - 1
    BY LastOfInterval
  <2>2. i \in 0..n /\ i - 1 \in 0..n
    OBVIOUS
  <2> QED
    BY <1>11, <2>1, <2>2
<1> HIDE DEF r
<1> QED
  BY <1>12, <1>13

\* r is s, the strongest first.
Ranking(r, s, n, S) ==
    /\ r \in Seq(S) /\ Len(r) = n
    /\ Descending(r, n)
    /\ \A i \in 1..n : \E j \in 1..n : r[j] = s[i]
    /\ \A j \in 1..n : \E i \in 1..n : r[j] = s[i]

\* StrongestFirst sorts, and what it sorts adds up to the same.
LEMMA StrongestFirstRanks ==
    ASSUME NEW n \in Nat, NEW S, \A one \in S : one.adds \in Int, NEW s \in [1..n -> S]
    PROVE  Ranking(StrongestFirst(s), s, n, S) /\ Total(StrongestFirst(s)) = Total(s)
<1>1. PICK r : /\ r[0] = << >> /\ r[n] = StrongestFirst(s)
               /\ \A i \in 1..n : r[i] = InsertRanked(r[i - 1], s[i])
  BY RanksOneByOne
<1>2. Adding(s, n) /\ DOMAIN s = 1..n
  BY DEF Adding
<1>3. PICK p : AddsUp(p, s, n) /\ p[n] = Total(s)
  BY <1>2, TotalAddsUp
<1> DEFINE So == { k \in Nat : k <= n => Ranking(r[k], s, k, S) /\ Total(r[k]) = p[k] }
<1>4. 0 \in So
  <2>1. PICK none : none = << >>
    OBVIOUS
  <2>2. none \in Seq(S) /\ Len(none) = 0 /\ DOMAIN none = 1..0 /\ 1..0 = {}
    BY <2>1
  <2>3. Adding(none, 0)
    BY <2>2 DEF Adding
  <2>4. PICK q : AddsUp(q, none, 0) /\ q[0] = Total(none)
    BY <2>2, <2>3, TotalAddsUp
  <2>5. Total(none) = 0 /\ p[0] = 0
    BY <1>3, <2>4 DEF AddsUp
  <2>6. Ranking(none, s, 0, S)
    BY <2>2 DEF Ranking, Descending
  <2> QED
    BY <1>1, <2>1, <2>5, <2>6
<1>5. ASSUME NEW k \in Nat, k \in So PROVE k + 1 \in So
  <2> SUFFICES ASSUME k + 1 <= n
               PROVE  Ranking(r[k + 1], s, k + 1, S) /\ Total(r[k + 1]) = p[k + 1]
    OBVIOUS
  <2>1. k + 1 \in 1..n /\ (k + 1) - 1 = k
    OBVIOUS
  <2>2. PICK before \in Seq(S) : before = r[k] /\ Ranking(before, s, k, S) /\ Total(before) = p[k]
    <3>1. k <= n
      OBVIOUS
    <3>2. Ranking(r[k], s, k, S) /\ Total(r[k]) = p[k]
      BY <1>5, <3>1
    <3> QED
      BY <3>2 DEF Ranking
  <2>3. PICK one \in S : one = s[k + 1]
    BY <2>1
  <2>4. PICK after : after = InsertRanked(before, one) /\ after = r[k + 1]
    BY <1>1, <2>1, <2>2, <2>3
  <2>5. Len(before) = k /\ DOMAIN before = 1..k
    BY <2>2 DEF Ranking
  <2>6. after \in Seq(S) /\ \E j : IsItsPlace(j, before, k, one) /\ Inserted(after, before, k, j, one)
    BY <2>4, <2>5, InsertRankedInserts
  <2>7. PICK place : IsItsPlace(place, before, k, one) /\ Inserted(after, before, k, place, one)
    BY <2>6
  <2>8. place \in 1..k + 1
    BY <2>7 DEF IsItsPlace
  <2>9. Adding(before, k) /\ one.adds \in Int
    BY <2>5 DEF Adding
  <2>10. Total(after) = Total(before) + one.adds
    BY <2>5, <2>7, <2>8, <2>9, InsertedAdds
  <2>11. Total(after) = p[k + 1]
    BY <1>3, <2>1, <2>2, <2>3, <2>10 DEF AddsUp
  <2>12. Descending(after, k + 1)
    BY <2>2, <2>7, <2>9, InsertedDescends DEF Ranking
  <2>13. Len(after) = k + 1
    BY <2>6, <2>7 DEF Inserted
  <2>14. \A j \in 1..k + 1 :
             after[j] = IF j < place THEN before[j] ELSE IF j = place THEN one ELSE before[j - 1]
    BY <2>7 DEF Inserted
  <2>15. ASSUME NEW i \in 1..k + 1 PROVE \E j \in 1..k + 1 : after[j] = s[i]
    <3>1. CASE i = k + 1
      <4>1. after[place] = one
        BY <2>8, <2>14
      <4> QED
        BY <2>3, <2>8, <3>1, <4>1
    <3>2. CASE i \in 1..k
      <4>1. PICK j \in 1..k : before[j] = s[i]
        BY <2>2, <3>2 DEF Ranking
      <4>2. CASE j < place
        <5>1. j \in 1..k + 1 /\ after[j] = before[j]
          BY <2>14, <4>2
        <5> QED
          BY <4>1, <5>1
      <4>3. CASE ~(j < place)
        <5>1. j + 1 \in 1..k + 1 /\ ~(j + 1 < place) /\ j + 1 # place /\ (j + 1) - 1 = j
          BY <2>8, <4>3
        <5>2. after[j + 1] = before[j]
          BY <2>14, <5>1
        <5> QED
          BY <4>1, <5>1, <5>2
      <4> QED
        BY <4>2, <4>3
    <3> QED
      BY <3>1, <3>2
  <2>16. ASSUME NEW j \in 1..k + 1 PROVE \E i \in 1..k + 1 : after[j] = s[i]
    <3>1. CASE j = place
      <4>1. after[j] = s[k + 1] /\ k + 1 \in 1..k + 1
        BY <2>3, <2>8, <2>14, <3>1
      <4> QED
        BY <4>1
    <3>2. CASE j # place
      <4>1. PICK l \in 1..k : after[j] = before[l]
        <5>1. CASE j < place
          <6>1. j \in 1..k /\ after[j] = before[j]
            BY <2>8, <2>14, <5>1
          <6> QED
            BY <6>1
        <5>2. CASE ~(j < place)
          <6>1. j - 1 \in 1..k /\ after[j] = before[j - 1]
            BY <2>8, <2>14, <3>2, <5>2
          <6> QED
            BY <6>1
        <5> QED
          BY <5>1, <5>2
      <4>2. PICK i \in 1..k : before[l] = s[i]
        BY <2>2 DEF Ranking
      <4>3. i \in 1..k + 1
        OBVIOUS
      <4> QED
        BY <4>1, <4>2, <4>3
    <3> QED
      BY <3>1, <3>2
  <2>17. Ranking(after, s, k + 1, S)
    BY <2>6, <2>12, <2>13, <2>15, <2>16 DEF Ranking
  <2> QED
    BY <2>4, <2>11, <2>17
<1>6. Nat \subseteq So
  <2> HIDE DEF So
  <2> QED
    BY <1>4, <1>5, NumbersByInduction
<1> QED
  BY <1>1, <1>3, <1>6

-----------------------------------------------------------------------------
(* The events of the ledger *)

\* An event that an adapter dates within the time looked at.
LEMMA EventType ==
    ASSUME NEW bundle \in BundleNames, NEW signalName \in SignalNames,
           NEW health \in HealthStatuses, NEW value \in Int, NEW at \in 0..Horizon
    PROVE  Event(bundle, signalName, health, value, at) \in Events
BY DEF Event, Events

\* What the parts of an event are.
LEMMA PartsType ==
    /\ "OK" \in HealthStatuses /\ "NO_SIGNAL_DETECTED" \in HealthStatuses
    /\ "SERVICE_UNAVAILABLE" \in HealthStatuses
    /\ Null \in Int /\ 0 \in Int /\ 1 \in Int
BY DEF HealthStatuses, Null

\* The health of what was observed, or not.
LEMMA HealthType == ASSUME NEW observed PROVE Health(observed) \in HealthStatuses
BY PartsType DEF Health

\* A flag's value.
LEMMA FlagType == ASSUME NEW condition PROVE Flag(condition) \in Int
BY DEF Flag

\* The adapters' own names.
LEMMA NamesType ==
    /\ "claim" \in BundleNames /\ "metadata" \in BundleNames /\ "device" \in BundleNames
    /\ "linguistic" \in BundleNames /\ "elicitation" \in BundleNames
    /\ "display_name_match" \in SignalNames
    /\ "email_domain_match" \in SignalNames
    /\ "calendar_invite_match" \in SignalNames
    /\ "reference_photo_available" \in SignalNames
    /\ "prior_id_verification_available" \in SignalNames
    /\ "account_history_available" \in SignalNames
    /\ "join_method" \in SignalNames
    /\ "ip_geolocation_consistency" \in SignalNames
    /\ "device_fingerprint_continuity" \in SignalNames
    /\ "virtual_capture_device_detected" \in SignalNames
    /\ "screen_share_state" \in SignalNames
    /\ "multi_monitor_detected" \in SignalNames
    /\ "biographical_claim_consistency" \in SignalNames
    /\ "active_elicitation_response" \in SignalNames
BY DEF SignalNames, BundleNames

\* The names of the claim and the device adapter's lists.
LEMMA ListedNamesType ==
    /\ DOMAIN ClaimSignalNames = 1..6 /\ \A i \in 1..6 : ClaimSignalNames[i] \in SignalNames
    /\ DOMAIN DeviceSignalNames = 1..4 /\ \A i \in 1..4 : DeviceSignalNames[i] \in SignalNames
<1>1. DOMAIN ClaimSignalNames = 1..6 /\ DOMAIN DeviceSignalNames = 1..4
  BY DEF ClaimSignalNames, DeviceSignalNames
<1>2. /\ ClaimSignalNames[1] \in SignalNames /\ ClaimSignalNames[2] \in SignalNames
      /\ ClaimSignalNames[3] \in SignalNames /\ ClaimSignalNames[4] \in SignalNames
      /\ ClaimSignalNames[5] \in SignalNames /\ ClaimSignalNames[6] \in SignalNames
  BY DEF ClaimSignalNames, SignalNames
<1>3. /\ DeviceSignalNames[1] \in SignalNames /\ DeviceSignalNames[2] \in SignalNames
      /\ DeviceSignalNames[3] \in SignalNames /\ DeviceSignalNames[4] \in SignalNames
  BY DEF DeviceSignalNames, SignalNames
<1>4. (\A i \in 1..6 : i \in { 1, 2, 3, 4, 5, 6 }) /\ \A i \in 1..4 : i \in { 1, 2, 3, 4 }
  OBVIOUS
<1> QED
  BY <1>1, <1>2, <1>3, <1>4

\* Six of them.
LEMMA SixEvents ==
    ASSUME NEW a \in Events, NEW b \in Events, NEW c \in Events,
           NEW d \in Events, NEW e \in Events, NEW f \in Events
    PROVE  << a, b, c, d, e, f >> \in Seq(Events)
<1> HIDE DEF Events
<1> QED
  OBVIOUS

\* As many as there are places.
LEMMA ManyEvents ==
    ASSUME NEW n \in Nat, NEW events, DOMAIN events = 1..n, events = [i \in 1..n |-> events[i]],
           \A i \in 1..n : events[i] \in Events
    PROVE  events \in Seq(Events)
<1>1. events \in [1..n -> Events]
  OBVIOUS
<1> HIDE DEF Events
<1> QED
  BY <1>1, SeqDef

\* The claim adapter, for any observation.
LEMMA ClaimEventsType ==
    ASSUME NEW claim, NEW at \in 0..Horizon
    PROVE  ClaimEvents(claim, at) \in Seq(Events)
<1>1. CASE claim.candidateId \notin DOMAIN Ats
  <2>1. PICK n \in Nat : n = 6 /\ DOMAIN ClaimSignalNames = 1..n
    BY ListedNamesType
  <2>2. PICK events : events = [i \in 1..n |->
             Event("claim", ClaimSignalNames[i], "SERVICE_UNAVAILABLE", Null, at)]
    OBVIOUS
  <2>3. ClaimEvents(claim, at) = events
    BY <1>1, <2>1, <2>2 DEF ClaimEvents
  <2>4. ASSUME NEW i \in 1..n PROVE events[i] \in Events
    <3>2. ClaimSignalNames[i] \in SignalNames
      BY <2>1, ListedNamesType
    <3>3. Event("claim", ClaimSignalNames[i], "SERVICE_UNAVAILABLE", Null, at) \in Events
      BY <3>2, PartsType, NamesType, EventType
    <3> QED
      BY <2>2, <3>3
  <2>5. DOMAIN events = 1..n /\ events = [i \in 1..n |-> events[i]]
    BY <2>2
  <2>6. events \in Seq(Events)
    BY <2>4, <2>5, ManyEvents
  <2> QED
    BY <2>3, <2>6
<1>2. CASE claim.candidateId \in DOMAIN Ats
  <2>1. ASSUME NEW signalName \in SignalNames, NEW observed, NEW filed
        PROVE  MatchEvent(signalName, observed, filed, at) \in Events
    <3>1. /\ Health(observed # None /\ filed # None) \in HealthStatuses
          /\ Flag(observed # None /\ observed = filed) \in Int
      BY HealthType, FlagType
    <3> QED
      BY <3>1, NamesType, EventType DEF MatchEvent
  <2>2. ASSUME NEW signalName \in SignalNames, NEW available
        PROVE  PresenceEvent(signalName, available, at) \in Events
    <3>1. Flag(available) \in Int
      BY FlagType
    <3> QED
      BY <3>1, PartsType, NamesType, EventType DEF PresenceEvent
  <2> DEFINE record == Ats[claim.candidateId]
  <2>3. ClaimEvents(claim, at) =
         << MatchEvent("display_name_match", claim.displayName, record.applicationName, at),
            MatchEvent("email_domain_match", claim.joinEmail, record.applicationEmail, at),
            MatchEvent("calendar_invite_match", claim.calendarAttendeeEmail,
                       record.calendarInviteAttendeeEmail, at),
            PresenceEvent("reference_photo_available", record.hasReferencePhoto, at),
            PresenceEvent("prior_id_verification_available", record.hasPriorIdVerification, at),
            PresenceEvent("account_history_available", record.hasAccountHistory, at) >>
    BY <1>2 DEF ClaimEvents
  <2> HIDE DEF record
  <2> QED
    BY <2>1, <2>2, <2>3, NamesType, SixEvents
<1> QED
  BY <1>1, <1>2

\* The metadata adapter.
LEMMA MetadataEventsType ==
    ASSUME NEW metadata, NEW at \in 0..Horizon
    PROVE  MetadataEvents(metadata, at) \in Seq(Events)
<1>1. ASSUME NEW signalName \in SignalNames, NEW observed, NEW stated
      PROVE  ConsistencyEvent(signalName, observed, stated, at) \in Events
  <2> DEFINE bothPresent == observed # None /\ stated # None
             value == IF bothPresent THEN Flag(observed = stated) ELSE Null
  <2>1. Health(bothPresent) \in HealthStatuses /\ value \in Int
    BY HealthType, FlagType, PartsType
  <2>2. ConsistencyEvent(signalName, observed, stated, at) =
            Event("metadata", signalName, Health(bothPresent), value, at)
    BY DEF ConsistencyEvent
  <2> HIDE DEF bothPresent, value
  <2> QED
    BY <2>1, <2>2, NamesType, EventType
<1>2. ASSUME NEW signalName \in SignalNames, NEW detected
      PROVE  DetectionEvent(signalName, detected, at) \in Events
  <2> DEFINE value == IF detected = None THEN Null ELSE Flag(detected = "yes")
  <2>1. Health(detected # None) \in HealthStatuses /\ value \in Int
    BY HealthType, FlagType, PartsType
  <2>2. DetectionEvent(signalName, detected, at) =
            Event("metadata", signalName, Health(detected # None), value, at)
    BY DEF DetectionEvent
  <2> HIDE DEF value
  <2> QED
    BY <2>1, <2>2, NamesType, EventType
<1>3. ASSUME NEW method PROVE JoinMethodEvent(method, at) \in Events
  <2> DEFINE value == CASE method = "direct_invite_link" -> 1
                        [] method = "forwarded_link" -> 0
                        [] OTHER -> Null
  <2>1. Health(method # None) \in HealthStatuses /\ value \in Int
    BY HealthType, PartsType
  <2>2. JoinMethodEvent(method, at) = Event("metadata", "join_method", Health(method # None), value, at)
    BY DEF JoinMethodEvent
  <2> HIDE DEF value
  <2> QED
    BY <2>1, <2>2, NamesType, EventType
<1> DEFINE shared == Event("metadata", "screen_share_state",
                           Health(metadata.screenShareState # None), Null, at)
<1>4. shared \in Events
  <2>1. Health(metadata.screenShareState # None) \in HealthStatuses /\ Null \in Int
    BY HealthType, PartsType
  <2> QED
    BY <2>1, NamesType, EventType
<1>5. MetadataEvents(metadata, at) =
      << JoinMethodEvent(metadata.joinMethod, at),
         ConsistencyEvent("ip_geolocation_consistency",
                          metadata.observedIpCountry, metadata.statedCountry, at),
         ConsistencyEvent("device_fingerprint_continuity", metadata.observedDeviceFingerprint,
                          metadata.priorSessionDeviceFingerprint, at),
         DetectionEvent("virtual_capture_device_detected", metadata.virtualCaptureDeviceDetected, at),
         shared,
         DetectionEvent("multi_monitor_detected", metadata.multiMonitorDetected, at) >>
  BY DEF MetadataEvents
<1> HIDE DEF shared
<1> QED
  BY <1>1, <1>2, <1>3, <1>4, <1>5, NamesType, SixEvents

\* The device adapter.
LEMMA DeviceEventsType ==
    ASSUME NEW observed \in DeviceObservations, NEW at \in 0..Horizon
    PROVE  DeviceEvents(observed, at) \in Seq(Events)
<1> DEFINE CountOn(i) == IF observed.consentGranted THEN observed.counts[i] ELSE Null
<1>1. observed.counts \in [1..4 -> Nat \cup {Null}]
  BY ObservationsAssumption
<1>2. DOMAIN DeviceSignalNames = 1..4
  BY ListedNamesType
<1>3. PICK events : /\ events = DeviceEvents(observed, at)
                    /\ events = [i \in 1..4 |->
                          Event("device", DeviceSignalNames[i], Health(CountOn(i) # Null), CountOn(i), at)]
  BY <1>2 DEF DeviceEvents
<1>4. ASSUME NEW i \in 1..4 PROVE events[i] \in Events
  <2>1. CountOn(i) \in Int
    BY <1>1 DEF Null
  <2>3. DeviceSignalNames[i] \in SignalNames
    BY ListedNamesType
  <2>4. Health(CountOn(i) # Null) \in HealthStatuses
    BY HealthType
  <2>5. events[i] = Event("device", DeviceSignalNames[i], Health(CountOn(i) # Null), CountOn(i), at)
    BY <1>3
  <2> HIDE DEF CountOn
  <2> QED
    BY <2>1, <2>3, <2>4, <2>5, NamesType, EventType
<1>5. DOMAIN events = 1..4 /\ events = [i \in 1..4 |-> events[i]]
  BY <1>3
<1>6. events \in Seq(Events)
  BY <1>4, <1>5, ManyEvents
<1> QED
  BY <1>3, <1>6

\* The linguistic adapter.
LEMMA LinguisticEventsType ==
    ASSUME NEW claims \in LinguisticObservations, NEW at \in 0..Horizon
    PROVE  LinguisticEvents(claims, at) \in Seq(Events)
<1> DEFINE BothPresent(i) == claims[i].observedValue # None /\ claims[i].claimedValue # None
           ValueOf(i) == IF BothPresent(i) THEN Flag(claims[i].observedValue = claims[i].claimedValue)
                         ELSE Null
<1>1. PICK n \in Nat : DOMAIN claims = 1..n
  BY ObservationsAssumption
<1>2. PICK events : /\ events = LinguisticEvents(claims, at)
                    /\ events = [i \in 1..n |->
                         Event("linguistic", "biographical_claim_consistency", Health(BothPresent(i)),
                               ValueOf(i), at)]
  BY <1>1 DEF LinguisticEvents
<1>3. ASSUME NEW i \in 1..n PROVE events[i] \in Events
  <2>1. ValueOf(i) \in Int /\ Health(BothPresent(i)) \in HealthStatuses
    BY FlagType, PartsType, HealthType
  <2>2. events[i] = Event("linguistic", "biographical_claim_consistency", Health(BothPresent(i)),
                          ValueOf(i), at)
    BY <1>2
  <2> HIDE DEF BothPresent, ValueOf
  <2> QED
    BY <2>1, <2>2, NamesType, EventType
<1>4. DOMAIN events = 1..n /\ events = [i \in 1..n |-> events[i]]
  BY <1>2
<1>5. events \in Seq(Events)
  BY <1>3, <1>4, ManyEvents
<1> QED
  BY <1>2, <1>5

\* The elicitation adapter.
LEMMA ElicitationEventsType ==
    ASSUME NEW satisfied, NEW at \in 0..Horizon
    PROVE  ElicitationEvents(satisfied, at) \in Seq(Events)
<1> DEFINE value == IF satisfied = None THEN Null ELSE Flag(satisfied = "yes")
           event == Event("elicitation", "active_elicitation_response", Health(satisfied # None),
                          value, at)
<1>1. value \in Int /\ Health(satisfied # None) \in HealthStatuses
  BY FlagType, PartsType, HealthType
<1>2. ElicitationEvents(satisfied, at) = << event >>
  BY DEF ElicitationEvents
<1> HIDE DEF value
<1>3. event \in Events
  BY <1>1, NamesType, EventType
<1> HIDE DEF event, Events
<1>4. << event >> \in Seq(Events)
  BY <1>3
<1> QED
  BY <1>2, <1>4

\* The visual and the audio adapter.
LEMMA BiometricEventsType ==
    ASSUME NEW events \in BiometricEvents, NEW at \in 0..Horizon, NEW reported,
           reported = [i \in DOMAIN events |-> [events[i] EXCEPT !.occurredAt = at]]
    PROVE  reported \in Seq(Events)
<1> DEFINE Reported == [bundle : { "visual", "audio" }, signalName : BiometricSignals,
                        healthStatus : HealthStatuses, value : Int, occurredAt : Nat]
<1>1. PICK n \in Nat : events \in [1..n -> Reported]
  <2>1. events \in Seq(Reported)
    BY ObservationsAssumption
  <2> HIDE DEF Reported
  <2>2. Len(events) \in Nat /\ events \in [1..Len(events) -> Reported]
    BY <2>1, SeqDef
  <2> QED
    BY <2>2
<1>2. ASSUME NEW i \in 1..n PROVE reported[i] \in Events
  <2>1. events[i] \in Reported
    BY <1>1
  <2>2. reported[i] = [events[i] EXCEPT !.occurredAt = at]
    BY <1>1
  <2>4. reported[i] = Event(events[i].bundle, events[i].signalName, events[i].healthStatus,
                            events[i].value, at)
    BY <2>1, <2>2 DEF Event
  <2>5. events[i].signalName \in SignalNames
    BY <2>1 DEF SignalNames
  <2>6. /\ events[i].bundle \in BundleNames
        /\ events[i].healthStatus \in HealthStatuses /\ events[i].value \in Int
    BY <2>1 DEF BundleNames
  <2> QED
    BY <2>4, <2>5, <2>6, EventType
<1>3. DOMAIN reported = 1..n /\ reported = [i \in 1..n |-> reported[i]]
  BY <1>1
<1> QED
  BY <1>2, <1>3, ManyEvents

\* The ledger holds events, and no time is beyond what is looked at.
EvidenceTypeOK ==
    /\ clock \in 1..Horizon
    /\ evaluatedAt \in 0..Horizon
    /\ ledger \in Seq(Events)

\* Every step.
LEMMA StepKeepsType ==
    ASSUME EvidenceTypeOK, [ConfidenceNext]_confidenceVars
    PROVE  EvidenceTypeOK'
<1>0. clock \in 1..Horizon /\ evaluatedAt \in 0..Horizon /\ ledger \in Seq(Events)
  BY DEF EvidenceTypeOK
<1>1. ASSUME NEW at \in { clock - 1, clock }, NEW events,
             at \in 0..Horizon => events \in Seq(Events),
             at >= 0, evaluatedAt' = at, ledger' = ledger \o events, UNCHANGED clock
      PROVE  EvidenceTypeOK'
  <2>1. at \in 0..Horizon
    <3>1. PICK now \in 1..Horizon : now = clock
      BY <1>0
    <3>2. Horizon \in Nat
      BY FusionAssumption
    <3>3. at = now - 1 \/ at = now
      BY <3>1
    <3> QED
      BY <3>2, <3>3
  <2>2. ledger \o events \in Seq(Events)
    <3> HIDE DEF Events
    <3> QED
      BY <1>0, <1>1, <2>1
  <2> QED
    BY <1>0, <1>1, <2>1, <2>2 DEF EvidenceTypeOK
<1>2. ASSUME NEW claim \in ClaimObservations, NEW metadata \in MetadataObservations,
             IngestClaimAndMetadata(claim, metadata)
      PROVE  EvidenceTypeOK'
  <2>1. PICK at \in { clock - 1, clock } :
            /\ at >= 0 /\ evaluatedAt' = at
            /\ ledger' = ledger \o (ClaimEvents(claim, at) \o MetadataEvents(metadata, at))
            /\ UNCHANGED clock
    BY <1>2 DEF IngestClaimAndMetadata, Ingest
  <2>2. PICK events : events = ClaimEvents(claim, at) \o MetadataEvents(metadata, at)
    OBVIOUS
  <2>3. at \in 0..Horizon => events \in Seq(Events)
    <3> HIDE DEF Events
    <3> QED
      BY <2>2, ClaimEventsType, MetadataEventsType
  <2> QED
    BY <1>1, <2>1, <2>2, <2>3
<1>3. ASSUME NEW observed \in DeviceObservations, IngestDevice(observed)
      PROVE  EvidenceTypeOK'
  <2>1. PICK at \in { clock - 1, clock } :
            /\ at >= 0 /\ evaluatedAt' = at
            /\ ledger' = ledger \o DeviceEvents(observed, at)
            /\ UNCHANGED clock
    BY <1>3 DEF IngestDevice, Ingest
  <2>2. at \in 0..Horizon => DeviceEvents(observed, at) \in Seq(Events)
    BY DeviceEventsType
  <2> QED
    BY <1>1, <2>1, <2>2
<1>4. ASSUME NEW claims \in LinguisticObservations, IngestLinguistic(claims)
      PROVE  EvidenceTypeOK'
  <2>1. PICK at \in { clock - 1, clock } :
            /\ at >= 0 /\ evaluatedAt' = at
            /\ ledger' = ledger \o LinguisticEvents(claims, at)
            /\ UNCHANGED clock
    BY <1>4 DEF IngestLinguistic, Ingest
  <2>2. at \in 0..Horizon => LinguisticEvents(claims, at) \in Seq(Events)
    BY LinguisticEventsType
  <2> QED
    BY <1>1, <2>1, <2>2
<1>5. ASSUME NEW satisfied \in ElicitationObservations, IngestElicitation(satisfied)
      PROVE  EvidenceTypeOK'
  <2>1. PICK at \in { clock - 1, clock } :
            /\ at >= 0 /\ evaluatedAt' = at
            /\ ledger' = ledger \o ElicitationEvents(satisfied, at)
            /\ UNCHANGED clock
    BY <1>5 DEF IngestElicitation, Ingest
  <2>2. at \in 0..Horizon => ElicitationEvents(satisfied, at) \in Seq(Events)
    BY ElicitationEventsType
  <2> QED
    BY <1>1, <2>1, <2>2
<1>6. ASSUME NEW events \in BiometricEvents, IngestVisualAudio(events)
      PROVE  EvidenceTypeOK'
  <2>1. PICK at \in { clock - 1, clock } :
            /\ at >= 0 /\ evaluatedAt' = at
            /\ ledger' = ledger \o [i \in DOMAIN events |-> [events[i] EXCEPT !.occurredAt = at]]
            /\ UNCHANGED clock
    BY <1>6 DEF IngestVisualAudio, Ingest
  <2>2. PICK reported : reported = [i \in DOMAIN events |-> [events[i] EXCEPT !.occurredAt = at]]
    OBVIOUS
  <2>3. at \in 0..Horizon => reported \in Seq(Events)
    BY <2>2, BiometricEventsType
  <2> QED
    BY <1>1, <2>1, <2>2, <2>3
<1>7. CASE Wait
  <2>1. Horizon \in Nat
    BY FusionAssumption
  <2> QED
    BY <1>0, <1>7, <2>1 DEF EvidenceTypeOK, Wait
<1>8. ASSUME UNCHANGED << ledger, clock, evaluatedAt >>
      PROVE  EvidenceTypeOK'
  BY <1>0, <1>8 DEF EvidenceTypeOK
<1> QED
  BY <1>2, <1>3, <1>4, <1>5, <1>6, <1>7, <1>8
     DEF ConfidenceNext, confidenceVars, IngestClaimFails, Restart

\* The type is an invariant.
THEOREM EvidenceTypeCorrect == ConfidenceSpec => []EvidenceTypeOK
<1>1. ConfidenceInit => EvidenceTypeOK
  <2>1. Horizon \in Nat \ {0} /\ << >> \in Seq(Events)
    BY FusionAssumption
  <2> QED
    BY <2>1 DEF ConfidenceInit, EvidenceTypeOK
<1>2. EvidenceTypeOK /\ [ConfidenceNext]_confidenceVars => EvidenceTypeOK'
  BY StepKeepsType
<1> QED
  BY <1>1, <1>2, PTL DEF ConfidenceSpec

-----------------------------------------------------------------------------
(* What is told about a score *)

\* What is collected (m on K) says what each event adds, and leaves out only what
\* adds nothing.
Says(m, K, events, at, n) ==
    \A i \in 1..n : /\ m[i].adds = Contribution(events[i], at)
                    /\ i \in K \/ Contribution(events[i], at) = 0

\* Its sums are the sums of the log odds.
LEMMA SumsRun ==
    ASSUME NEW n \in Nat, NEW events, NEW at, NEW K, NEW m, Says(m, K, events, at, n),
           NEW p, SumsUp(p, events, at, n)
    PROVE  Running(p, K, m, n)
<1>1. p \in [0..n -> Int] /\ p[0] = 0
  BY DEF SumsUp
<1>2. ASSUME NEW i \in 1..n PROVE p[i] = IF i \in K THEN p[i - 1] + m[i].adds ELSE p[i - 1]
  <2>1. p[i] = p[i - 1] + Contribution(events[i], at)
    BY DEF SumsUp
  <2>2. m[i].adds = Contribution(events[i], at) /\ (i \in K \/ Contribution(events[i], at) = 0)
    BY DEF Says
  <2>3. PICK before \in Int : before = p[i - 1]
    BY <1>1
  <2> QED
    BY <2>1, <2>2, <2>3
<1> QED
  BY <1>1, <1>2 DEF Running

\* An event that adds something is among the contributors.
Listed(found, events, at, n) ==
    \A i \in 1..n : Eligible(events[i]) /\ Contribution(events[i], at) # 0 =>
        \E j \in 1..Len(found) :
            found[j] = [event |-> events[i], adds |-> Contribution(events[i], at)]

Contributor == [event : Events, adds : Int]

\* The contributors add up to the log odds, and they are the events that add
\* something.
LEMMA ContributorsExplainAll ==
    ASSUME NEW n \in Nat, NEW events \in [1..n -> Events], NEW at \in 0..Horizon, NEW found,
           found = Contributors(events, at)
    PROVE  /\ Total(found) = LogOdds(events, at)
           /\ found \in Seq(Contributor)
           /\ Listed(found, events, at, n)
<1>1. PICK K : K = Contributing(events, at, n)
  OBVIOUS
<1>2. PICK m : m = AsContributor(events, at, n)
  OBVIOUS
<1>3. PICK c : Collects(c, K, m, n) /\ c[n] = found
  BY <1>1, <1>2, ContributorsCollect
<1>4. ASSUME NEW i \in 1..n
      PROVE  /\ Contribution(events[i], at) \in Int
             /\ i \in K <=> Eligible(events[i]) /\ Contribution(events[i], at) # 0
             /\ m[i] = [event |-> events[i], adds |-> Contribution(events[i], at)]
             /\ m[i] \in Contributor
             /\ m[i].adds = Contribution(events[i], at)
             /\ i \notin K => Contribution(events[i], at) = 0
  <2>1. events[i] \in Events
    OBVIOUS
  <2>2. Contribution(events[i], at) \in Int
    BY <2>1, EventAdds
  <2>3. i \in K <=> Eligible(events[i]) /\ Contribution(events[i], at) # 0
    BY <1>1 DEF Contributing
  <2>4. m[i] = [event |-> events[i], adds |-> Contribution(events[i], at)]
    BY <1>2 DEF AsContributor
  <2>5. ~Eligible(events[i]) => Contribution(events[i], at) = 0
    BY <2>1, NeutralAddsNothing DEF Eligible
  <2>6. m[i] \in Contributor
    BY <2>1, <2>2, <2>4 DEF Contributor
  <2> QED
    BY <2>2, <2>3, <2>4, <2>5, <2>6
<1>5. m \in [1..n -> Contributor]
  <2>1. DOMAIN m = 1..n /\ m = [i \in 1..n |-> m[i]]
    BY <1>2 DEF AsContributor
  <2> QED
    BY <1>4, <2>1
<1>6. Summable(m, n, Contributor)
  BY <1>5 DEF Summable, Contributor
<1>7. Collected(found, K, m, n, Contributor)
  BY <1>3, <1>5, CollectsAll
<1>8. PICK p : SumsUp(p, events, at, n) /\ p[n] = LogOdds(events, at)
  BY LogOddsSumsUp
<1>9. Running(p, K, m, n)
  <2>1. Says(m, K, events, at, n)
    BY <1>4 DEF Says
  <2> QED
    BY <1>8, <2>1, SumsRun
<1>10. Total(found) = LogOdds(events, at)
  <2>1. PICK sum : sum = LogOdds(events, at)
    OBVIOUS
  <2>2. Sums(found, sum, K, m, n)
    BY <1>3, <1>8, <1>9, <2>1 DEF Sums
  <2>3. Total(found) = sum
    BY <1>6, <2>2, CollectedTotal
  <2> QED
    BY <2>1, <2>3
<1>11. ASSUME NEW i \in 1..n, Eligible(events[i]), Contribution(events[i], at) # 0
       PROVE  \E j \in 1..Len(found) :
                 found[j] = [event |-> events[i], adds |-> Contribution(events[i], at)]
  <2>1. i \in K /\ m[i] = [event |-> events[i], adds |-> Contribution(events[i], at)]
    BY <1>4, <1>11
  <2>2. PICK j \in 1..Len(found) : found[j] = m[i]
    BY <1>7, <2>1 DEF Collected
  <2> QED
    BY <2>1, <2>2
<1>12. found \in Seq(Contributor)
  BY <1>7 DEF Collected
<1> QED
  BY <1>10, <1>11, <1>12 DEF Listed

\* The contributors that are listed explain the score.
LEMMA ContributorsExplained ==
    ASSUME evaluatedAt \in 0..Horizon, NEW events \in Seq(Events)
    PROVE  ContributorsExplain(TopEvidenceContributors(events, evaluatedAt), events)
<1>1. PICK n \in Nat : DOMAIN events = 1..n /\ events \in [1..n -> Events]
  <2> HIDE DEF Events
  <2> QED
    BY SeqDef
<1>2. PICK at \in 0..Horizon : at = evaluatedAt
  OBVIOUS
<1>3. PICK found : found = Contributors(events, at)
  OBVIOUS
<1>4. /\ Total(found) = LogOdds(events, at)
      /\ found \in Seq(Contributor)
      /\ Listed(found, events, at, n)
  BY <1>1, <1>3, ContributorsExplainAll
<1>5. \A one \in Contributor : one.adds \in Int
  BY DEF Contributor
<1>6. PICK l \in Nat : l = Len(found) /\ found \in [1..l -> Contributor]
  BY <1>4, SeqDef
<1>7. PICK ranked : ranked = StrongestFirst(found)
  OBVIOUS
<1>8. Ranking(ranked, found, l, Contributor) /\ Total(ranked) = Total(found)
  BY <1>5, <1>6, <1>7, StrongestFirstRanks
<1>9. ranked \in Seq(Contributor) /\ Len(ranked) = l /\ Descending(ranked, l)
  BY <1>8 DEF Ranking
<1>10. MaxContributors \in Nat \ {0}
  BY FusionAssumption
<1>11. PICK q \in 0..l : q = IF l < MaxContributors THEN l ELSE MaxContributors
  BY <1>10
<1>12. PICK top : top = FirstOf(ranked)
  OBVIOUS
<1>13. top = SubSeq(ranked, 1, q)
  BY <1>9, <1>11, <1>12 DEF FirstOf
<1>14. top \in Seq(Contributor) /\ Len(top) = q /\ \A i \in 1..q : top[i] = ranked[i]
  BY <1>9, <1>13, SubSeqProperties
<1>15. TopEvidenceContributors(events, evaluatedAt) = top
  BY <1>2, <1>3, <1>7, <1>12 DEF TopEvidenceContributors
<1>16. CASE q < MaxContributors
  <2>1. q = l
    BY <1>10, <1>11, <1>16
  <2>2. top = ranked
    <3>1. /\ top = [i \in 1..Len(top) |-> top[i]]
          /\ ranked = [i \in 1..Len(ranked) |-> ranked[i]]
      BY <1>9, <1>14
    <3> QED
      BY <1>9, <1>14, <2>1, <3>1
  <2>3. Len(top) < MaxContributors
    BY <1>14, <1>16
  <2>4. Total(top) = LogOdds(events, evaluatedAt)
    BY <1>2, <1>4, <1>8, <2>2
  <2> QED
    BY <1>15, <2>3, <2>4 DEF ContributorsExplain
<1>17. CASE ~(q < MaxContributors)
  <2>1. q \in 1..l /\ ~(Len(top) < MaxContributors)
    BY <1>10, <1>11, <1>14, <1>17
  <2>2. DOMAIN top = 1..q /\ Last(top) = ranked[q]
    BY <1>14, <2>1 DEF Last
  <2>3. ASSUME NEW event \in Range(events) \ { top[i].event : i \in DOMAIN top }, Eligible(event)
        PROVE  Magnitude(Contribution(event, evaluatedAt)) <= Magnitude(Last(top).adds)
    <3>1. PICK i \in 1..n : event = events[i]
      BY <1>1 DEF Range
    <3>2. CASE Contribution(event, at) = 0
      <4>1. ranked[q] \in Contributor
        BY <1>9, <2>1
      <4>2. PICK x \in Int : x = Last(top).adds
        BY <1>5, <2>2, <4>1
      <4>3. 0 <= Magnitude(x) /\ Magnitude(0) = 0
        BY DEF Magnitude
      <4> QED
        BY <1>2, <3>2, <4>2, <4>3
    <3>3. CASE Contribution(event, at) # 0
      <4>1. PICK j \in 1..l : found[j] = [event |-> event, adds |-> Contribution(event, at)]
        BY <1>4, <1>6, <2>3, <3>1, <3>3 DEF Listed
      <4>2. PICK k \in 1..l : ranked[k] = found[j]
        BY <1>8 DEF Ranking
      <4>3. ranked[k].event = event /\ ranked[k].adds = Contribution(event, at)
        BY <4>1, <4>2
      <4>4. k \notin 1..q
        <5>1. k \in 1..q => top[k].event = event
          BY <1>14, <4>3
        <5> QED
          BY <2>2, <2>3, <5>1
      <4>5. q < k /\ q \in 1..l
        BY <2>1, <4>4
      <4>6. Magnitude(ranked[k].adds) <= Magnitude(ranked[q].adds)
        BY <1>9, <4>5 DEF Descending
      <4> QED
        BY <1>2, <2>2, <4>3, <4>6
    <3> QED
      BY <3>2, <3>3
  <2> QED
    BY <1>15, <2>1, <2>3 DEF ContributorsExplain
<1> QED
  BY <1>16, <1>17

\* A signal tells of an event that adds something, and contradicts only by taking
\* away.
Telling(found, events, at, n) ==
    \A j \in 1..Len(found) : \E i \in 1..n :
        /\ Contribution(events[i], at) # 0
        /\ found[j].signalName = events[i].signalName
        /\ found[j].outcome = "CONTRADICTS" => Contribution(events[i], at) < 0

\* All that take away are told of.
Told(found, events, at, n) ==
    \A i \in 1..n : Contribution(events[i], at) < 0 =>
        \E j \in 1..Len(found) : /\ found[j].signalName = events[i].signalName
                                 /\ found[j].outcome = "CONTRADICTS"

Signal == [signalName : SignalNames, adds : Int,
           outcome : { "SUPPORTS", "CONTRADICTS", "NEUTRAL" }]

\* The signals of the report add up to the log odds, and they are those that add
\* something, each told by its sign.
LEMMA SignalsExplainAll ==
    ASSUME NEW n \in Nat, NEW events \in [1..n -> Events], NEW at \in 0..Horizon, NEW found,
           found = ContributingSignals(events, at)
    PROVE  /\ Total(found) = LogOdds(events, at)
           /\ found \in Seq(Signal)
           /\ Telling(found, events, at, n)
           /\ Told(found, events, at, n)
<1>1. PICK K : K = Signalling(events, at, n)
  OBVIOUS
<1>2. PICK m : m = AsSignal(events, at, n)
  OBVIOUS
<1>3. PICK c : Collects(c, K, m, n) /\ c[n] = found
  BY <1>1, <1>2, SignalsCollect
<1>4. ASSUME NEW i \in 1..n
      PROVE  /\ Contribution(events[i], at) \in Int
             /\ i \in K <=> Contribution(events[i], at) # 0
             /\ m[i].adds = Contribution(events[i], at)
             /\ m[i].signalName = events[i].signalName
             /\ Contribution(events[i], at) < 0 <=> m[i].outcome = "CONTRADICTS"
             /\ m[i] \in Signal
  <2>1. events[i] \in Events
    OBVIOUS
  <2>2. /\ Contribution(events[i], at) \in Int
        /\ DecayedLogLikelihoodRatio(events[i], at) = Contribution(events[i], at)
        /\ Contribution(events[i], at) < 0 <=> ResolveSignalOutcome(events[i]) = "CONTRADICTS"
    BY <2>1, EventAdds
  <2>3. events[i].healthStatus # "OK" => Contribution(events[i], at) = 0
    BY <2>1, NeutralAddsNothing
  <2>4. Missing(events[i]) => events[i].healthStatus # "OK"
    BY DEF Missing
  <2>5. i \in K <=> ~Missing(events[i]) /\ Contribution(events[i], at) # 0
    BY <1>1, <2>2 DEF Signalling
  <2>6. m[i] = [signalName |-> events[i].signalName, adds |-> Contribution(events[i], at),
                outcome |-> Classification(events[i])]
    BY <1>2, <2>2 DEF AsSignal
  <2>7. Classification(events[i]) = "CONTRADICTS" <=> ResolveSignalOutcome(events[i]) = "CONTRADICTS"
    BY DEF Classification, ResolveSignalOutcome
  <2>8. events[i].signalName \in SignalNames
    BY <2>1 DEF Events
  <2>9. m[i] \in Signal
    <3>1. Classification(events[i]) \in { "SUPPORTS", "CONTRADICTS", "NEUTRAL" }
      BY DEF Classification, ResolveSignalOutcome, ExtractOutcome
    <3> QED
      BY <2>2, <2>6, <2>8, <3>1 DEF Signal
  <2>10. m[i].outcome = Classification(events[i]) /\ m[i].adds = Contribution(events[i], at)
         /\ m[i].signalName = events[i].signalName
    BY <2>6
  <2> QED
    BY <2>2, <2>3, <2>4, <2>5, <2>7, <2>9, <2>10
<1>5. m \in [1..n -> Signal]
  <2>1. DOMAIN m = 1..n /\ m = [i \in 1..n |-> m[i]]
    BY <1>2 DEF AsSignal
  <2> QED
    BY <1>4, <2>1
<1>6. Summable(m, n, Signal)
  BY <1>5 DEF Summable, Signal
<1>7. Collected(found, K, m, n, Signal)
  BY <1>3, <1>5, CollectsAll
<1>8. PICK p : SumsUp(p, events, at, n) /\ p[n] = LogOdds(events, at)
  BY LogOddsSumsUp
<1>9. Running(p, K, m, n)
  <2>1. Says(m, K, events, at, n)
    BY <1>4 DEF Says
  <2> QED
    BY <1>8, <2>1, SumsRun
<1>10. Total(found) = LogOdds(events, at)
  <2>1. PICK sum : sum = LogOdds(events, at)
    OBVIOUS
  <2>2. Sums(found, sum, K, m, n)
    BY <1>3, <1>8, <1>9, <2>1 DEF Sums
  <2>3. Total(found) = sum
    BY <1>6, <2>2, CollectedTotal
  <2> QED
    BY <2>1, <2>3
<1>11. ASSUME NEW j \in 1..Len(found)
       PROVE  \E i \in 1..n :
                 /\ Contribution(events[i], at) # 0
                 /\ found[j].signalName = events[i].signalName
                 /\ found[j].outcome = "CONTRADICTS" => Contribution(events[i], at) < 0
  <2>1. PICK i \in 1..n : i \in K /\ found[j] = m[i]
    BY <1>7 DEF Collected
  <2>2. /\ Contribution(events[i], at) # 0
        /\ found[j].signalName = events[i].signalName
        /\ found[j].outcome = "CONTRADICTS" => Contribution(events[i], at) < 0
    BY <1>4, <2>1
  <2> QED
    BY <2>2
<1>12. ASSUME NEW i \in 1..n, Contribution(events[i], at) < 0
       PROVE  \E j \in 1..Len(found) : /\ found[j].signalName = events[i].signalName
                                       /\ found[j].outcome = "CONTRADICTS"
  <2>1. Contribution(events[i], at) # 0
    BY <1>4, <1>12
  <2>2. PICK j \in 1..Len(found) : found[j] = m[i]
    BY <1>4, <1>7, <2>1 DEF Collected
  <2> QED
    BY <1>4, <1>12, <2>2
<1>13. found \in Seq(Signal)
  BY <1>7 DEF Collected
<1> QED
  BY <1>10, <1>11, <1>12, <1>13 DEF Telling, Told

\* What a report lists, of any sequence of events.
ReportExplains(report, events, at, n) ==
    /\ Total(report.contributing) = LogOdds(events, at)
    /\ \A signal \in Range(report.topContributingSignals) : \E i \in 1..n :
          Contribution(events[i], at) # 0 /\ signal.signalName = events[i].signalName
    /\ \A signal \in report.contradictoryEvidence : \E i \in 1..n :
          Contribution(events[i], at) < 0 /\ signal.signalName = events[i].signalName
    /\ \A i \in 1..n : Contribution(events[i], at) < 0 =>
          \E signal \in report.contradictoryEvidence : signal.signalName = events[i].signalName
    /\ \A event \in report.missingEvidence : \E i \in 1..n :
          event = events[i] /\ event.healthStatus # "OK"

\* A report explains the events it is made of.
LEMMA ReportsExplain ==
    ASSUME NEW n \in Nat, NEW events \in [1..n -> Events], NEW at \in 0..Horizon, NEW report,
           report = BuildReport(events, at)
    PROVE  ReportExplains(report, events, at, n)
<1>1. PICK found : found = ContributingSignals(events, at)
  OBVIOUS
<1>3. /\ Total(found) = LogOdds(events, at)
      /\ found \in Seq(Signal)
      /\ Telling(found, events, at, n)
      /\ Told(found, events, at, n)
  BY <1>1, SignalsExplainAll
<1>4. \A one \in Signal : one.adds \in Int
  BY DEF Signal
<1>5. PICK l \in Nat : l = Len(found) /\ found \in [1..l -> Signal]
  BY <1>3, SeqDef
<1>6. PICK ranked : ranked = StrongestFirst(found)
  OBVIOUS
<1>7. Ranking(ranked, found, l, Signal)
  BY <1>4, <1>5, <1>6, StrongestFirstRanks
<1>8. ranked \in Seq(Signal) /\ Len(ranked) = l /\ DOMAIN ranked = 1..l
  BY <1>7 DEF Ranking
<1>9. PICK q \in 0..l : q = IF Len(ranked) < MaxTopSignals THEN Len(ranked) ELSE MaxTopSignals
  BY <1>8, ExplanationAssumption
<1>10. PICK top : top = SubSeq(ranked, 1, q)
  OBVIOUS
<1>11. DOMAIN top = 1..q /\ \A i \in 1..q : top[i] = ranked[i]
  <2>1. top \in Seq(Signal) /\ Len(top) = q /\ \A i \in 1..q : top[i] = ranked[i]
    BY <1>8, <1>10, SubSeqProperties
  <2> QED
    BY <2>1
<1>12. /\ report.contributing = found
       /\ report.topContributingSignals = top
       /\ report.contradictoryEvidence = { signal \in Range(ranked) : signal.outcome = "CONTRADICTS" }
       /\ report.missingEvidence = { event \in Range(events) : Missing(event) }
  BY <1>1, <1>6, <1>9, <1>10 DEF BuildReport
<1>13. ASSUME NEW k \in 1..l
       PROVE  \E i \in 1..n : /\ Contribution(events[i], at) # 0
                              /\ ranked[k].signalName = events[i].signalName
                              /\ ranked[k].outcome = "CONTRADICTS" => Contribution(events[i], at) < 0
  <2>1. PICK j \in 1..l : ranked[k] = found[j]
    BY <1>7 DEF Ranking
  <2> QED
    BY <1>3, <1>5, <2>1 DEF Telling
<1>14. ASSUME NEW signal \in Range(top)
       PROVE  \E i \in 1..n :
                 Contribution(events[i], at) # 0 /\ signal.signalName = events[i].signalName
  <2>1. PICK k \in 1..q : signal = ranked[k]
    BY <1>11 DEF Range
  <2>2. k \in 1..l
    OBVIOUS
  <2> QED
    BY <1>13, <2>1, <2>2
<1>15. ASSUME NEW signal \in Range(ranked), signal.outcome = "CONTRADICTS"
       PROVE  \E i \in 1..n :
                 Contribution(events[i], at) < 0 /\ signal.signalName = events[i].signalName
  <2>1. PICK k \in 1..l : signal = ranked[k]
    BY <1>8 DEF Range
  <2> QED
    BY <1>13, <1>15, <2>1
<1>16. ASSUME NEW i \in 1..n, Contribution(events[i], at) < 0
       PROVE  \E signal \in Range(ranked) :
                 signal.outcome = "CONTRADICTS" /\ signal.signalName = events[i].signalName
  <2>1. PICK j \in 1..l : found[j].signalName = events[i].signalName /\ found[j].outcome = "CONTRADICTS"
    BY <1>3, <1>5, <1>16 DEF Told
  <2>2. PICK k \in 1..l : ranked[k] = found[j]
    BY <1>7 DEF Ranking
  <2>3. ranked[k] \in Range(ranked)
    BY <1>8 DEF Range
  <2> QED
    BY <2>1, <2>2, <2>3
<1>17. ASSUME NEW event \in Range(events), Missing(event)
       PROVE  \E i \in 1..n : event = events[i] /\ event.healthStatus # "OK"
  <2>1. PICK i \in 1..n : event = events[i]
    BY DEF Range
  <2>2. event.healthStatus # "OK"
    BY <1>17 DEF Missing
  <2> QED
    BY <2>1, <2>2
<1>18. \A signal \in Range(report.topContributingSignals) : \E i \in 1..n :
           Contribution(events[i], at) # 0 /\ signal.signalName = events[i].signalName
  BY <1>12, <1>14
<1>19. \A signal \in report.contradictoryEvidence : \E i \in 1..n :
           Contribution(events[i], at) < 0 /\ signal.signalName = events[i].signalName
  BY <1>12, <1>15
<1>20. \A i \in 1..n : Contribution(events[i], at) < 0 =>
           \E signal \in report.contradictoryEvidence : signal.signalName = events[i].signalName
  BY <1>12, <1>16
<1>21. \A event \in report.missingEvidence : \E i \in 1..n :
           event = events[i] /\ event.healthStatus # "OK"
  BY <1>12, <1>17
<1> QED
  BY <1>3, <1>12, <1>18, <1>19, <1>20, <1>21 DEF ReportExplains

\* A narrative that is shown names what the report allows.
LEMMA ShownIsAllowed ==
    ASSUME NEW report, NEW first, NEW second, NEW shown,
           shown = GenerateNarrative(report, << first, second >>), shown # NoNarrative
    PROVE  shown \subseteq Allowed(report)
<1>1. PICK answers : answers = << first, second >> /\ Len(answers) = 2
  OBVIOUS
<1> DEFINE I == { i \in 1..2 : answers[i] \subseteq Allowed(report) \/ answers[i] = NoNarrative }
<1>2. shown = IF (IF I # {} THEN Min(I) ELSE 0) = 0 THEN NoNarrative
              ELSE answers[IF I # {} THEN Min(I) ELSE 0]
  BY <1>1 DEF GenerateNarrative, SelectInSeq
<1>3. I \in SUBSET (1..2)
  OBVIOUS
<1>4. I # {}
  BY <1>2
<1>5. Min(I) \in I
  <2> HIDE DEF I
  <2> QED
    BY <1>3, <1>4, FirstPlace
<1>6. shown = answers[Min(I)]
  BY <1>2, <1>4
<1> QED
  BY <1>5, <1>6

\* What is told about a score is what made it: in every state of the evidence
\* the listed contributors explain the posterior that was decided on, the report
\* adds up to it and shows all that lowered it, and no narrative names what the
\* ledger does not hold.
LEMMA TypedScoresAreExplained ==
    ASSUME EvidenceTypeOK
    PROVE  ScoresAreExplained
<1>1. evaluatedAt \in 0..Horizon /\ ledger \in Seq(Events)
  BY DEF EvidenceTypeOK
<1>2. SelectedEvents \in Seq(Events)
  <2>1. CASE ~ManyHypotheses
    BY <1>1, <2>1 DEF SelectedEvents
  <2>2. CASE ManyHypotheses
    <3>1. PICK id : id = Ranked[1].id
      OBVIOUS
    <3>2. PICK claim : claim = [observedClaim EXCEPT !.candidateId = id]
      OBVIOUS
    <3>3. SelectedEvents = WithoutClaims(ledger) \o ClaimEvents(claim, evaluatedAt)
      BY <2>2, <3>1, <3>2 DEF SelectedEvents, EventsOf, HypothesisEvents
    <3>4. ClaimEvents(claim, evaluatedAt) \in Seq(Events)
      BY <1>1, ClaimEventsType
    <3> HIDE DEF Events
    <3>5. PICK n \in Nat : ledger \in [1..n -> Events]
      BY <1>1, SeqDef
    <3>6. WithoutClaims(ledger) \in Seq(Events)
      BY <3>5, WithoutClaimsAreEvents
    <3> QED
      BY <3>3, <3>4, <3>6
  <2> QED
    BY <2>1, <2>2
<1>3. ContributorsExplainTheScore
  <2>1. PICK events \in Seq(Events) : events = SelectedEvents
    BY <1>2
  <2>2. ContributorsExplain(TopEvidenceContributors(events, evaluatedAt), events)
    BY <1>1, ContributorsExplained
  <2> QED
    BY <2>1, <2>2 DEF ContributorsExplainTheScore
<1>4. PICK n \in Nat : ledger \in [1..n -> Events] /\ DOMAIN ledger = 1..n
  <2> HIDE DEF Events
  <2> QED
    BY <1>1, SeqDef
<1>5. PICK report : report = Report
  OBVIOUS
<1>6. ReportExplains(report, ledger, evaluatedAt, n)
  BY <1>1, <1>4, <1>5, ReportsExplain DEF Report
<1>7. ReportsExplainThePosterior
  <2>1. { ledger[i].signalName : i \in { j \in DOMAIN ledger : Contribution(ledger[j], evaluatedAt) < 0 } }
          = NamesIn(report.contradictoryEvidence)
    <3>1. ASSUME NEW i \in 1..n, Contribution(ledger[i], evaluatedAt) < 0
          PROVE  ledger[i].signalName \in NamesIn(report.contradictoryEvidence)
      <4>1. PICK signal \in report.contradictoryEvidence : signal.signalName = ledger[i].signalName
        BY <1>6, <3>1 DEF ReportExplains
      <4> QED
        BY <4>1 DEF NamesIn
    <3>2. ASSUME NEW name \in NamesIn(report.contradictoryEvidence)
          PROVE  \E i \in 1..n : Contribution(ledger[i], evaluatedAt) < 0 /\ name = ledger[i].signalName
      <4>1. PICK signal \in report.contradictoryEvidence : name = signal.signalName
        BY DEF NamesIn
      <4> QED
        BY <1>6, <4>1 DEF ReportExplains
    <3> QED
      BY <1>4, <3>1, <3>2
  <2>2. Total(report.contributing) = LogOdds(ledger, evaluatedAt)
    BY <1>6 DEF ReportExplains
  <2>3. Explains(report, ledger)
    BY <2>1, <2>2 DEF Explains
  <2>4. ~ManyHypotheses => SelectedEvents = ledger
    BY DEF SelectedEvents
  <2> QED
    BY <1>5, <2>3, <2>4 DEF ReportsExplainThePosterior
<1>8. ASSUME NEW name \in Allowed(report)
      PROVE  \E i \in DOMAIN ledger :
                /\ ledger[i].signalName = name
                /\ Contribution(ledger[i], evaluatedAt) # 0 \/ ledger[i].healthStatus # "OK"
  <2>1. CASE name \in NamesIn(Range(report.topContributingSignals))
    <3>1. PICK signal \in Range(report.topContributingSignals) : name = signal.signalName
      BY <2>1 DEF NamesIn
    <3> QED
      BY <1>4, <1>6, <3>1 DEF ReportExplains
  <2>2. CASE name \in NamesIn(report.contradictoryEvidence)
    <3>1. PICK signal \in report.contradictoryEvidence : name = signal.signalName
      BY <2>2 DEF NamesIn
    <3>2. PICK i \in 1..n : Contribution(ledger[i], evaluatedAt) < 0 /\ name = ledger[i].signalName
      BY <1>6, <3>1 DEF ReportExplains
    <3>3. Contribution(ledger[i], evaluatedAt) # 0
      BY <3>2
    <3> QED
      BY <1>4, <3>2, <3>3
  <2>3. CASE name \in NamesIn(report.missingEvidence)
    <3>1. PICK event \in report.missingEvidence : name = event.signalName
      BY <2>3 DEF NamesIn
    <3> QED
      BY <1>4, <1>6, <3>1 DEF ReportExplains
  <2> QED
    BY <2>1, <2>2, <2>3 DEF Allowed
<1>9. NarrativesNameReportedEvidence
  <2> SUFFICES ASSUME NEW first \in Narratives \union { NoNarrative },
                      NEW second \in Narratives \union { NoNarrative },
                      GenerateNarrative(report, << first, second >>) # NoNarrative,
                      NEW name \in GenerateNarrative(report, << first, second >>)
               PROVE  \E i \in DOMAIN ledger :
                         /\ ledger[i].signalName = name
                         /\ Contribution(ledger[i], evaluatedAt) # 0 \/ ledger[i].healthStatus # "OK"
    BY <1>5 DEF NarrativesNameReportedEvidence
  <2>1. name \in Allowed(report)
    BY ShownIsAllowed
  <2> QED
    BY <1>8, <2>1
<1> QED
  BY <1>3, <1>7, <1>9 DEF ScoresAreExplained

\* In every state of the evidence what is told about the score, by the listed
\* contributors, by the report and by the narrative, is what made it
\* (contributors.ts, explanationEngine.ts, narrativeValidator.ts).
THEOREM ScoresExplained == ConfidenceSpec => []ScoresAreExplained
<1>1. EvidenceTypeOK => ScoresAreExplained
  BY TypedScoresAreExplained
<1> QED
  BY <1>1, EvidenceTypeCorrect, PTL
=============================================================================
