----------------------------- MODULE DecisionEngine -----------------------------
(***************************************************************************)
(* The decision taken on one evaluation: recommendation, abstention, alert *)
(* and elicitation challenge (orchestrator/src/decision/decisionEngine.ts, *)
(* with the engine's default options).                                     *)
(*                                                                         *)
(* A score is what the decision reads of a posterior: its probability and  *)
(* whether its credible interval is tight (at most 0.3 wide).              *)
(***************************************************************************)
EXTENDS Lifecycle

AbstentionProbabilityThreshold == 55

\* |probability - 0.5| <= 0.05 on whole percents, as IEEE doubles have it:
\* 0.45 - 0.5 rounds to just inside the band and 0.55 - 0.5 to just outside.
\* The same band with both ends in it:
NearMidpointInclusive(probability) == probability \in 45..55

NearMidpoint(probability) == probability \in 45..54

IsConfidentlyAmbiguous(probability, tight) == NearMidpoint(probability) /\ tight

\* The kinds of an alert: what it is about fixes its severity.
Alerts == { "none", "disqualified", "lost", "ambiguous", "recovered" }

Severity(alert) ==
    CASE alert = "none"         -> "none"
      [] alert = "disqualified" -> "URGENT"
      [] OTHER                  -> "INFO"

\* The alert of every tick in the state, not only of the tick that entered it.
AlertEveryTick(state, transitioned, probability, tight, wasAmbiguous) ==
    IF state = "DISQUALIFIED" THEN "disqualified"
    ELSE IF state = "LOST_CONFIDENCE" THEN "lost"
    ELSE IF state = "UNKNOWN" /\ probability < AbstentionProbabilityThreshold THEN "none"
    ELSE IF IsConfidentlyAmbiguous(probability, tight) THEN "ambiguous"
    ELSE IF state = "RECOVERED" THEN "recovered" ELSE "none"

\* No memory of the tick before: an ambiguous spell alerts on every tick.
AlertForgetful(state, transitioned, probability, tight, wasAmbiguous) ==
    IF state = "DISQUALIFIED" THEN IF transitioned THEN "disqualified" ELSE "none"
    ELSE IF state = "LOST_CONFIDENCE" THEN IF transitioned THEN "lost" ELSE "none"
    ELSE IF state = "UNKNOWN" /\ probability < AbstentionProbabilityThreshold THEN "none"
    ELSE IF IsConfidentlyAmbiguous(probability, tight) THEN "ambiguous"
    ELSE IF state = "RECOVERED" /\ transitioned THEN "recovered" ELSE "none"

\* The ambiguous branch before the two branches of suspicion.
AlertAmbiguousFirst(state, transitioned, probability, tight, wasAmbiguous) ==
    IF IsConfidentlyAmbiguous(probability, tight) THEN IF wasAmbiguous THEN "none" ELSE "ambiguous"
    ELSE IF state = "DISQUALIFIED" THEN IF transitioned THEN "disqualified" ELSE "none"
    ELSE IF state = "LOST_CONFIDENCE" THEN IF transitioned THEN "lost" ELSE "none"
    ELSE IF state = "UNKNOWN" /\ probability < AbstentionProbabilityThreshold THEN "none"
    ELSE IF state = "RECOVERED" /\ transitioned THEN "recovered" ELSE "none"

\* The branches in the order of the code; the first that applies decides.
AlertFor(state, transitioned, probability, tight, wasAmbiguous) ==
    IF state = "DISQUALIFIED" THEN IF transitioned THEN "disqualified" ELSE "none"
    ELSE IF state = "LOST_CONFIDENCE" THEN IF transitioned THEN "lost" ELSE "none"
    ELSE IF state = "UNKNOWN" /\ probability < AbstentionProbabilityThreshold THEN "none"
    ELSE IF IsConfidentlyAmbiguous(probability, tight) THEN IF wasAmbiguous THEN "none" ELSE "ambiguous"
    ELSE IF state = "RECOVERED" /\ transitioned THEN "recovered" ELSE "none"

Recommendation(state, probability, tight) ==
    CASE state = "DISQUALIFIED"    -> "MANDATORY_REVIEW"
      [] state = "LOST_CONFIDENCE" -> "MONITOR"
      [] state = "UNKNOWN" /\ probability < AbstentionProbabilityThreshold
                                   -> "DEFER_TO_ORDINARY_JUDGMENT"
      [] state \notin { "DISQUALIFIED", "LOST_CONFIDENCE" }
         /\ ~(state = "UNKNOWN" /\ probability < AbstentionProbabilityThreshold)
                                   -> IF IsConfidentlyAmbiguous(probability, tight)
                                      THEN "ADJUDICATE" ELSE "NONE"

Challenge(alert) ==
    CASE alert = "disqualified" -> "unscripted_statement"
      [] alert = "ambiguous"    -> "repeat_phrase"
      [] OTHER                  -> "none"

\* A decision on the outcome of one evaluation.
Decide(record, transitioned, probability, tight, wasAmbiguous) ==
    LET alert          == AlertFor(record.state, transitioned, probability, tight, wasAmbiguous)
        recommendation == Recommendation(record.state, probability, tight)
    IN  [state          |-> record.state,
         alert          |-> alert,
         recommendation |-> recommendation,
         challenge      |-> Challenge(alert),
         abstained      |-> recommendation = "DEFER_TO_ORDINARY_JUDGMENT",
         ambiguous      |-> recommendation = "ADJUDICATE"]
=============================================================================
