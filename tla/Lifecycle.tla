------------------------------ MODULE Lifecycle ------------------------------
(***************************************************************************)
(* The eight-state confidence lifecycle of one interview session: the pure *)
(* part of orchestrator/src/statemachine/lifecycle.ts.                     *)
(*                                                                         *)
(* Probabilities are percentages (the thresholds of the code are whole     *)
(* percents) and time is counted in minutes (every dwell time of the code  *)
(* is a multiple of 60_000 ms).  Of a FusionPosterior only what the        *)
(* lifecycle reads is kept: the probability, the number of contributing    *)
(* bundles and the number of eligible events.                              *)
(***************************************************************************)
EXTENDS Integers, Sequences

LifecycleStates == { "UNKNOWN", "POSSIBLE_CANDIDATE", "LIKELY_CANDIDATE",
                     "HIGHLY_CONFIDENT", "CONFIRMED", "LOST_CONFIDENCE",
                     "DISQUALIFIED", "RECOVERED" }

Posterior == [probability : 0..100, bundles : Nat, events : Nat]

\* What the caller knows of a contradiction: the wording is left out.
ContradictionSignal == { "none", "uncorroborated", "corroborated" }

RecoveryAnnotation == [recoveredAt : Int, regressedFromState : LifecycleStates]

DisqualificationAnnotation == [disqualifiedAt : Int, previousState : LifecycleStates]

LifecycleSessionRecord ==
    [state : LifecycleStates,
     stateEnteredAt : Int,
     recoveryAnnotations : Seq(RecoveryAnnotation),
     disqualificationAnnotations : Seq(DisqualificationAnnotation)]

InitialLifecycleRecord(now) ==
    [state |-> "UNKNOWN",
     stateEnteredAt |-> now,
     recoveryAnnotations |-> <<>>,
     disqualificationAnnotations |-> <<>>]

-----------------------------------------------------------------------------
(* The climb ladder. *)

Tiers == 1..4

\* The same table with the bar to stay in LIKELY_CANDIDATE above the bar to
\* enter it: a hysteresis band the wrong way round.
ClimbTiersBandInverted ==
    << [state |-> "POSSIBLE_CANDIDATE", enter |-> 55, sustain |-> 50, bundles |-> 1, events |-> 1, dwell |-> 0],
       [state |-> "LIKELY_CANDIDATE",   enter |-> 70, sustain |-> 75, bundles |-> 2, events |-> 3, dwell |-> 1],
       [state |-> "HIGHLY_CONFIDENT",   enter |-> 85, sustain |-> 75, bundles |-> 2, events |-> 5, dwell |-> 2],
       [state |-> "CONFIRMED",          enter |-> 95, sustain |-> 88, bundles |-> 2, events |-> 8, dwell |-> 5] >>

ClimbTiers ==
    << [state |-> "POSSIBLE_CANDIDATE", enter |-> 55, sustain |-> 50, bundles |-> 1, events |-> 1, dwell |-> 0],
       [state |-> "LIKELY_CANDIDATE",   enter |-> 70, sustain |-> 60, bundles |-> 2, events |-> 3, dwell |-> 1],
       [state |-> "HIGHLY_CONFIDENT",   enter |-> 85, sustain |-> 75, bundles |-> 2, events |-> 5, dwell |-> 2],
       [state |-> "CONFIRMED",          enter |-> 95, sustain |-> 88, bundles |-> 2, events |-> 8, dwell |-> 5] >>

\* The rank a state has for further climbing: RECOVERED counts as
\* POSSIBLE_CANDIDATE, UNKNOWN is below every tier, and the two states of
\* suspicion are not on the ladder.
Rank(state) ==
    CASE state = "UNKNOWN"            -> 0
      [] state = "POSSIBLE_CANDIDATE" -> 1
      [] state = "RECOVERED"          -> 1
      [] state = "LIKELY_CANDIDATE"   -> 2
      [] state = "HIGHLY_CONFIDENT"   -> 3
      [] state = "CONFIRMED"          -> 4
      [] OTHER                        -> -1

OnLadder(state) == Rank(state) \in Tiers

MeetsTier(tier, posterior) ==
    /\ posterior.probability >= ClimbTiers[tier].enter
    /\ posterior.bundles >= ClimbTiers[tier].bundles
    /\ posterior.events >= ClimbTiers[tier].events

QualifyingTiers(fromRank, posterior) ==
    { tier \in Tiers : tier > fromRank /\ MeetsTier(tier, posterior) }

HighestQualifyingTier(fromRank, posterior) ==
    CHOOSE best \in QualifyingTiers(fromRank, posterior) :
        \A tier \in QualifyingTiers(fromRank, posterior) : tier <= best

DwellElapsed(record, tier, now) ==
    now - record.stateEnteredAt >= ClimbTiers[tier].dwell

-----------------------------------------------------------------------------
(* Transitions.  A result is the next record and whether a transition took
   place; holding a state is a result like any other. *)

EnterWithoutAnnotation(state, now, previous) ==
    [record |-> [previous EXCEPT !.state = state, !.stateEnteredAt = now],
     transitioned |-> TRUE]

\* The record is dated with the end of the new state's shortest stay.
EnterDatedAhead(state, now, previous) ==
    [record |-> [previous EXCEPT !.state = state, !.stateEnteredAt = now + 1],
     transitioned |-> TRUE]

Enter(state, now, previous) ==
    [record |->
        [previous EXCEPT
            !.state = state,
            !.stateEnteredAt = now,
            !.disqualificationAnnotations =
                IF state = "DISQUALIFIED"
                THEN Append(@, [disqualifiedAt |-> now, previousState |-> previous.state])
                ELSE @],
     transitioned |-> TRUE]

Hold(previous) == [record |-> previous, transitioned |-> FALSE]

Recover(now, previous) ==
    [record |->
        [previous EXCEPT
            !.state = "RECOVERED",
            !.stateEnteredAt = now,
            !.recoveryAnnotations =
                Append(@, [recoveredAt |-> now, regressedFromState |-> "LOST_CONFIDENCE"])],
     transitioned |-> TRUE]

\* The ladder with its dwell test left out: every evaluation may climb.
EvaluateLadderNoDwell(current, posterior, now) ==
    LET rank == Rank(current.state)
    IN  IF rank \in Tiers /\ posterior.probability < ClimbTiers[rank].sustain
        THEN Enter("LOST_CONFIDENCE", now, current)
        ELSE IF QualifyingTiers(rank, posterior) = {}
        THEN Hold(current)
        ELSE Enter(ClimbTiers[HighestQualifyingTier(rank, posterior)].state, now, current)

\* A session the FSM does not hold suspicious: weaken, wait out the dwell, or
\* climb, in the order of the code.
EvaluateLadder(current, posterior, now) ==
    LET rank == Rank(current.state)
    IN  IF rank \in Tiers /\ posterior.probability < ClimbTiers[rank].sustain
        THEN Enter("LOST_CONFIDENCE", now, current)
        ELSE IF rank \in Tiers /\ ~DwellElapsed(current, rank, now)
        THEN Hold(current)
        ELSE IF QualifyingTiers(rank, posterior) = {}
        THEN Hold(current)
        ELSE Enter(ClimbTiers[HighestQualifyingTier(rank, posterior)].state, now, current)

\* The contradiction branch tried before the DISQUALIFIED guard.
EvaluateContradictionFirst(current, posterior, now, contradiction) ==
    IF contradiction = "corroborated"
    THEN Enter("DISQUALIFIED", now, current)
    ELSE IF contradiction = "uncorroborated"
    THEN Enter("LOST_CONFIDENCE", now, current)
    ELSE IF current.state = "DISQUALIFIED"
    THEN Hold(current)
    ELSE IF current.state = "LOST_CONFIDENCE"
    THEN IF MeetsTier(1, posterior) THEN Recover(now, current) ELSE Hold(current)
    ELSE EvaluateLadder(current, posterior, now)

EvaluateLifecycleTransition(current, posterior, now, contradiction) ==
    IF current.state = "DISQUALIFIED"
    THEN Hold(current)
    ELSE IF contradiction = "corroborated"
    THEN Enter("DISQUALIFIED", now, current)
    ELSE IF contradiction = "uncorroborated"
    THEN Enter("LOST_CONFIDENCE", now, current)
    ELSE IF current.state = "LOST_CONFIDENCE"
    THEN IF MeetsTier(1, posterior) THEN Recover(now, current) ELSE Hold(current)
    ELSE EvaluateLadder(current, posterior, now)
=============================================================================
