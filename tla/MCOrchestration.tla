---------------------------- MODULE MCOrchestration ----------------------------
(* TLC instance of SessionOrchestration: one session, batches of change-point
   signals of the two bundles that have them, and scores on the two sides of
   the first tier and inside the ambiguous band. *)
EXTENDS SessionOrchestration

P(probability) == [probability |-> probability, bundles |-> 1, events |-> 1]

Event(bundle, flagged) == [bundle |-> bundle, flagged |-> flagged]

MCNows == {0}

\* A quiet frame, a change of face, a change of voice, both at once.
MCBatches ==
    { << Event("visual", FALSE) >>, << Event("visual", TRUE) >>, << Event("audio", TRUE) >>,
      << Event("visual", TRUE), Event("audio", TRUE) >> }

\* Weak, confidently ambiguous, and enough for the first tier.
MCScores ==
    { [posterior |-> P(49), tight |-> FALSE], [posterior |-> P(50), tight |-> TRUE],
      [posterior |-> P(55), tight |-> TRUE] }

\* For the runs about failures and liveness: nothing, one bundle, both at once.
MCFewBatches ==
    { << Event("visual", FALSE) >>, << Event("visual", TRUE) >>,
      << Event("visual", TRUE), Event("audio", TRUE) >> }

MCFewScores == { [posterior |-> P(55), tight |-> TRUE] }

MCTwoScores == { [posterior |-> P(50), tight |-> TRUE], [posterior |-> P(55), tight |-> TRUE] }

MCEvaluations ==
    { [kind |-> "evaluate", posterior |-> score.posterior,
       contradiction |-> contradiction, now |-> 0] :
          score \in MCScores, contradiction \in ContradictionSignal }

MCOverrides ==
    { [kind |-> "override", nextState |-> nextState, now |-> 0] :
          nextState \in { "LOST_CONFIDENCE", "DISQUALIFIED", "POSSIBLE_CANDIDATE" } }

MCFewOverrides == { [kind |-> "override", nextState |-> "POSSIBLE_CANDIDATE", now |-> 0] }
=============================================================================
