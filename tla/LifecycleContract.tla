--------------------------- MODULE LifecycleContract ---------------------------
(***************************************************************************)
(* What the lifecycle promises to the rest of the system, without tiers,   *)
(* posteriors or clocks: which moves the state machine may make on its     *)
(* own, that a human may make any, and that every entry into DISQUALIFIED  *)
(* and every automatic recovery leaves one permanent annotation.           *)
(***************************************************************************)
EXTENDS Lifecycle

CONSTANT Sessions

VARIABLES
    state,        \* the lifecycle state of each session
    mover,        \* who made the session's last move: "fsm" or "human"
    recoveries,   \* recovery annotations on file
    escalations   \* disqualification annotations on file

contractVars == << state, mover, recoveries, escalations >>

TierStates == { ClimbTiers[tier].state : tier \in Tiers }

\* The moves the state machine makes by itself.  None leaves DISQUALIFIED,
\* and LOST_CONFIDENCE leads back to the ladder only through RECOVERED.
AutomaticMoves ==
    { move \in LifecycleStates \X LifecycleStates :
        LET from == move[1]
            to   == move[2]
        IN  /\ from # "DISQUALIFIED"
            /\ \/ to \in { "DISQUALIFIED", "LOST_CONFIDENCE" }
               \/ from = "LOST_CONFIDENCE" /\ to = "RECOVERED"
               \/ /\ from # "LOST_CONFIDENCE"
                  /\ to \in TierStates
                  /\ Rank(to) > Rank(from) }

ContractInit ==
    /\ state = [s \in Sessions |-> "UNKNOWN"]
    /\ mover = [s \in Sessions |-> "fsm"]
    /\ recoveries = [s \in Sessions |-> 0]
    /\ escalations = [s \in Sessions |-> 0]

Annotate(s, to, recovered) ==
    /\ escalations' = IF to = "DISQUALIFIED"
                      THEN [escalations EXCEPT ![s] = @ + 1]
                      ELSE escalations
    /\ recoveries' = IF recovered
                     THEN [recoveries EXCEPT ![s] = @ + 1]
                     ELSE recoveries

AutomaticMove(s, to) ==
    /\ << state[s], to >> \in AutomaticMoves
    /\ state' = [state EXCEPT ![s] = to]
    /\ mover' = [mover EXCEPT ![s] = "fsm"]
    /\ Annotate(s, to, to = "RECOVERED")

HumanMove(s, to) ==
    /\ state' = [state EXCEPT ![s] = to]
    /\ mover' = [mover EXCEPT ![s] = "human"]
    /\ Annotate(s, to, FALSE)

ContractNext ==
    \E s \in Sessions, to \in LifecycleStates : AutomaticMove(s, to) \/ HumanMove(s, to)

ContractSpec == ContractInit /\ [][ContractNext]_contractVars
=============================================================================
