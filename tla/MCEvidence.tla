----------------------------- MODULE MCEvidence -----------------------------
(* TLC instance of what turns observations into a confidence: the evidence and
   the candidates it speaks for, with the report about it, the comparison of
   names and addresses, and the calibration. The three share no state, so one
   run explores their disjoint union: part names the one that moves. *)
EXTENDS Explanation, IdentityMatching, IsotonicCalibration

VARIABLE part

vars == << part, confidenceVars, matchingVars, calibrationVars >>

MCAts ==
    [alice |-> [applicationName |-> "alice", applicationEmail |-> "a@x",
                calendarInviteAttendeeEmail |-> "a@x", hasReferencePhoto |-> FALSE,
                hasPriorIdVerification |-> FALSE, hasAccountHistory |-> FALSE],
     bob |-> [applicationName |-> "bob", applicationEmail |-> "b@x",
              calendarInviteAttendeeEmail |-> None, hasReferencePhoto |-> TRUE,
              hasPriorIdVerification |-> TRUE, hasAccountHistory |-> FALSE]]

Claim(candidateId, displayName, joinEmail, calendar) ==
    [candidateId |-> candidateId, displayName |-> displayName, joinEmail |-> joinEmail,
     calendarAttendeeEmail |-> calendar]

MCClaims ==
    { Claim("alice", "alice", "a@x", "a@x"), Claim("alice", "bob", None, "b@x"),
      Claim("bob", None, None, "b@x"), Claim("nobody", "alice", "a@x", None) }

Metadata(joinMethod, country, fingerprint, detected) ==
    [joinMethod |-> joinMethod, observedIpCountry |-> country, statedCountry |-> "here",
     observedDeviceFingerprint |-> "f", priorSessionDeviceFingerprint |-> fingerprint,
     virtualCaptureDeviceDetected |-> detected, screenShareState |-> "active",
     multiMonitorDetected |-> detected]

MCMetadata == { Metadata(None, None, None, None), Metadata("direct_invite_link", "here", "f", "no"),
                Metadata("forwarded_link", "there", None, "yes") }

MCDevice == [consentGranted : BOOLEAN, counts : { << 5, 0, 1, Null >> }]

LinguisticClaim(observed, claimed) == [observedValue |-> observed, claimedValue |-> claimed]

MCLinguistic == { << LinguisticClaim("x", "x"), LinguisticClaim(None, "y") >>,
                  << LinguisticClaim("x", "y") >> }

MCElicitation == { "yes", "no", None }

Face(health, similarity) == Event("visual", "face_embedding_self_consistency", health, similarity, 0)
Voice(health, similarity) == Event("audio", "voice_embedding_self_consistency", health, similarity, 0)

MCBiometric ==
    { << Face("OK", 9), Voice("OK", 9) >>, << Face("OK", 9), Voice("OK", 2) >>,
      << Face("NO_SIGNAL_DETECTED", Null), Event("visual", "face_embedding_change_point", "OK", 1, 0) >>,
      << Voice("SERVICE_UNAVAILABLE", Null) >> }

MCKnown == { << >>, << "alice", "bob" >> }

\* An increasing function from log odds to parts of a million.
MCProbability(x) == 500000 + 5 * ((100000 * x) \div (Magnitude(x) + 1200 * 2 ^ Horizon))

MCNarratives ==
    { {}, { "display_name_match" }, { "tab_focus_change", "screen_share_state" } }

\* Letters are 1 and 2, and 0 is the dot: a name, its initial, a longer form with
\* a nickname of its own, and two that a typo tells apart.
MCTokens == { << 1 >>, << 1, 2 >>, << 1, 2, 2 >>, << 2, 1 >>, << 2, 2, 1 >> }

MCNames == MCTokens \X MCTokens \union { << token >> : token \in MCTokens }

MCAliases == { {}, { << << 2, 1 >> >> } }

MCNicknameGroups == { { << 1, 2, 2 >>, << 2, 1 >> } }

\* Absent, short, tagged, and two long ones that a letter tells apart.
MCParts == { << >>, << 1 >>, << 1, 1 >>, << 1, 1, 0, 2 >>,
             << 1, 1, 1, 1, 1, 1 >>, << 1, 1, 1, 1, 1, 2 >> }

MCAddresses == [local : MCParts, domain : MCParts]

Unasked == [kind |-> "display_name", observed |-> << << 1 >> >>, claimed |-> << << 1 >> >>,
            aliases |-> {}]

Init ==
    /\ part \in { "confidence", "matching", "calibration" }
    \* The parts that do not move start in one way only.
    /\ part = "confidence" \/ (part # "confidence" /\ knownCandidateIds = << >>)
    /\ part = "matching" \/ (part # "matching" /\ comparison = Unasked)
    /\ part = "calibration" \/ (part # "calibration" /\ samples = << >>)
    /\ ConfidenceInit /\ MatchingInit /\ CalibrationInit

Next ==
    \/ part = "confidence" /\ ConfidenceNext /\ UNCHANGED << part, matchingVars, calibrationVars >>
    \/ part = "matching" /\ MatchingNext /\ UNCHANGED << part, confidenceVars, calibrationVars >>
    \/ part = "calibration" /\ CalibrationNext /\ UNCHANGED << part, confidenceVars, matchingVars >>

Spec == Init /\ [][Next]_vars
=============================================================================
