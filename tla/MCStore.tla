-------------------------------- MODULE MCStore --------------------------------
(* TLC instance of SessionLifecycleStore: one session (sessions share neither
   a row nor an entry of a map) and the calls that drive it through every
   kind of transition: climb, weaken, recover, escalate, override. *)
EXTENDS SessionLifecycleStore

P(probability, bundles, events) ==
    [probability |-> probability, bundles |-> bundles, events |-> events]

Evaluation(probability, contradiction) ==
    [kind |-> "evaluate", posterior |-> P(probability, 1, 1),
     contradiction |-> contradiction, now |-> 0]

Override(nextState) == [kind |-> "override", nextState |-> nextState, now |-> 0]

MCNows == {0}

\* A climb or a recovery, a weakening, and the two kinds of contradiction.
MCEvaluations ==
    { Evaluation(55, "none"), Evaluation(49, "none"),
      Evaluation(55, "uncorroborated"), Evaluation(55, "corroborated") }

\* A confirmed disqualification and a release.
MCOverrides == { Override("DISQUALIFIED"), Override("POSSIBLE_CANDIDATE") }
=============================================================================
