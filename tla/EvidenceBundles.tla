--------------------------- MODULE EvidenceBundles ---------------------------
(* The bundle adapters that turn what was observed into evidence events:
   bundles/claim, bundles/metadata, bundles/device, bundles/linguistic and
   bundles/elicitation. (The visual and audio adapters keep state and are in
   VisualAudioIngestion.) None is a value nobody observed, filed or counted.
   Names and addresses are compared by equality here: how alike they must be is
   IdentityMatching's subject. *)
EXTENDS Fusion

CONSTANTS
    Candidates,    \* candidate ids a claim may name
    None,
    Ats            \* the record on file of some of the candidates

ASSUME AtsAssumption ==
    /\ DOMAIN Ats \subseteq Candidates
    /\ \A id \in DOMAIN Ats :
          { Ats[id].hasReferencePhoto, Ats[id].hasPriorIdVerification,
            Ats[id].hasAccountHistory } \subseteq BOOLEAN

HealthStatuses == { "OK", "NO_SIGNAL_DETECTED", "SERVICE_UNAVAILABLE" }

\* What the visual and the audio adapter report on.
BiometricSignals ==
    { "face_embedding_self_consistency", "visual_liveness", "face_embedding_change_point",
      "voice_embedding_self_consistency", "voice_embedding_change_point" }

Event(bundle, signalName, healthStatus, value, occurredAt) ==
    [bundle |-> bundle, signalName |-> signalName, healthStatus |-> healthStatus,
     value |-> value, occurredAt |-> occurredAt]

Flag(condition) == IF condition THEN 1 ELSE 0

Health(observed) == IF observed THEN "OK" ELSE "NO_SIGNAL_DETECTED"

\* buildMatchEvent over buildSemanticClaimMatchValue: with nothing to compare,
\* the placeholder value still says "not matched".
MatchEvent(signalName, observed, filed, at) ==
    Event("claim", signalName, Health(observed # None /\ filed # None),
          Flag(observed # None /\ observed = filed), at)

PresenceEvent(signalName, available, at) ==
    Event("claim", signalName, "OK", Flag(available), at)

ClaimSignalNames ==
    << "display_name_match", "email_domain_match", "calendar_invite_match",
       "reference_photo_available", "prior_id_verification_available",
       "account_history_available" >>

\* ClaimBundleAdapter: a candidate without a record leaves every signal unavailable.
ClaimEvents(observed, at) ==
    IF observed.candidateId \notin DOMAIN Ats
    THEN [i \in DOMAIN ClaimSignalNames |->
             Event("claim", ClaimSignalNames[i], "SERVICE_UNAVAILABLE", Null, at)]
    ELSE LET record == Ats[observed.candidateId] IN
         << MatchEvent("display_name_match", observed.displayName, record.applicationName, at),
            MatchEvent("email_domain_match", observed.joinEmail, record.applicationEmail, at),
            MatchEvent("calendar_invite_match", observed.calendarAttendeeEmail,
                       record.calendarInviteAttendeeEmail, at),
            PresenceEvent("reference_photo_available", record.hasReferencePhoto, at),
            PresenceEvent("prior_id_verification_available", record.hasPriorIdVerification, at),
            PresenceEvent("account_history_available", record.hasAccountHistory, at) >>

ConsistencyEvent(signalName, observed, stated, at) ==
    LET bothPresent == observed # None /\ stated # None
    IN Event("metadata", signalName, Health(bothPresent),
             IF bothPresent THEN Flag(observed = stated) ELSE Null, at)

DetectionEvent(signalName, detected, at) ==
    Event("metadata", signalName, Health(detected # None),
          IF detected = None THEN Null ELSE Flag(detected = "yes"), at)

\* 'unknown' is a method like the others, and also the placeholder for none.
JoinMethodEvent(method, at) ==
    Event("metadata", "join_method", Health(method # None),
          CASE method = "direct_invite_link" -> 1
            [] method = "forwarded_link" -> 0
            [] OTHER -> Null, at)

\* MetadataBundleAdapter; screen_share_state is stored but not registered.
MetadataEvents(observed, at) ==
    << JoinMethodEvent(observed.joinMethod, at),
       ConsistencyEvent("ip_geolocation_consistency",
                        observed.observedIpCountry, observed.statedCountry, at),
       ConsistencyEvent("device_fingerprint_continuity", observed.observedDeviceFingerprint,
                        observed.priorSessionDeviceFingerprint, at),
       DetectionEvent("virtual_capture_device_detected",
                      observed.virtualCaptureDeviceDetected, at),
       Event("metadata", "screen_share_state", Health(observed.screenShareState # None), Null, at),
       DetectionEvent("multi_monitor_detected", observed.multiMonitorDetected, at) >>

DeviceSignalNames ==
    << "tab_focus_change", "application_switch", "clipboard_paste", "keyboard_rhythm_anomaly" >>

\* DeviceBundleAdapter: without consent no count is looked at; null and 0 differ.
DeviceEvents(observed, at) ==
    [i \in DOMAIN DeviceSignalNames |->
        LET count == IF observed.consentGranted THEN observed.counts[i] ELSE Null
        IN Event("device", DeviceSignalNames[i], Health(count # Null), count, at)]

\* LinguisticBundleAdapter: one event for each claim of the transcript.
LinguisticEvents(claims, at) ==
    [i \in DOMAIN claims |->
        LET bothPresent == claims[i].observedValue # None /\ claims[i].claimedValue # None
        IN Event("linguistic", "biographical_claim_consistency", Health(bothPresent),
                 IF bothPresent THEN Flag(claims[i].observedValue = claims[i].claimedValue)
                 ELSE Null, at)]

\* ElicitationBundleAdapter: no answer is not a failed challenge.
ElicitationEvents(satisfied, at) ==
    << Event("elicitation", "active_elicitation_response", Health(satisfied # None),
             IF satisfied = None THEN Null ELSE Flag(satisfied = "yes"), at) >>
=============================================================================
