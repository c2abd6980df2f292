------------------------- MODULE LifecycleStateManager -------------------------
(***************************************************************************)
(* The in-memory holder of every session's lifecycle record                *)
(* (LifecycleStateManager of orchestrator/src/statemachine/lifecycle.ts):  *)
(* evaluations and human overrides in any order.                           *)
(*                                                                         *)
(* A caller reads the clock before it awaits its adapters and its turn, so *)
(* the "now" an operation is given may be older than the clock by up to    *)
(* MaxLag minutes, and two operations may be given their times out of      *)
(* order.                                                                  *)
(***************************************************************************)
EXTENDS Lifecycle

CONSTANTS
    Sessions,
    Posteriors,       \* the posteriors an evaluation may be given
    NoRecord,         \* a session the manager has not evaluated yet
    MaxLag,           \* bound on the age of the "now" of an operation
    MaxClock,         \* bound on the clock
    MaxAnnotations    \* bound on a session's annotations

ASSUME PosteriorsAssumption == Posteriors \subseteq Posterior
ASSUME NoRecordAssumption == NoRecord \notin LifecycleSessionRecord
ASSUME BoundsAssumption == MaxLag \in Nat /\ MaxClock \in Nat /\ MaxAnnotations \in Nat

VARIABLES
    records,        \* the manager's map: a record, or NoRecord, per session
    clock,          \* real time
    mover,          \* history: who changed the session's state last
    enteredClock,   \* history: the clock when the session entered its state
    evidence        \* history: the posterior of the last evaluation, as a set
                    \* of at most one; empty since an override

vars == << records, clock, mover, enteredClock, evidence >>

Init ==
    /\ records = [s \in Sessions |-> NoRecord]
    /\ clock = 0
    /\ mover = [s \in Sessions |-> "fsm"]
    /\ enteredClock = [s \in Sessions |-> 0]
    /\ evidence = [s \in Sessions |-> {}]

GetRecord(s, now) == IF records[s] = NoRecord THEN InitialLifecycleRecord(now) ELSE records[s]

GetState(s) == IF records[s] = NoRecord THEN "UNKNOWN" ELSE records[s].state

\* The times an operation may be given.
Nows == { now \in 0..clock : clock - now <= MaxLag }

WithinBounds(record) ==
    Len(record.recoveryAnnotations) + Len(record.disqualificationAnnotations) <= MaxAnnotations

Tick ==
    /\ clock < MaxClock
    /\ clock' = clock + 1
    /\ UNCHANGED << records, mover, enteredClock, evidence >>

Evaluate(s, posterior, now, contradiction) ==
    LET result == EvaluateLifecycleTransition(GetRecord(s, now), posterior, now, contradiction)
    IN  /\ WithinBounds(result.record)
        /\ records' = [records EXCEPT ![s] = result.record]
        /\ IF result.transitioned \/ records[s] = NoRecord
           THEN /\ mover' = [mover EXCEPT ![s] = "fsm"]
                /\ enteredClock' = [enteredClock EXCEPT ![s] = clock]
           ELSE UNCHANGED << mover, enteredClock >>
        /\ evidence' = [evidence EXCEPT ![s] = {posterior}]
        /\ UNCHANGED clock

ApplyHumanOverride(s, nextState, now) ==
    LET result == Enter(nextState, now, GetRecord(s, now))
    IN  /\ WithinBounds(result.record)
        /\ records' = [records EXCEPT ![s] = result.record]
        /\ mover' = [mover EXCEPT ![s] = "human"]
        /\ enteredClock' = [enteredClock EXCEPT ![s] = clock]
        /\ evidence' = [evidence EXCEPT ![s] = {}]
        /\ UNCHANGED clock

Next ==
    \/ Tick
    \/ \E s \in Sessions, posterior \in Posteriors, now \in Nows,
          contradiction \in ContradictionSignal :
            Evaluate(s, posterior, now, contradiction)
    \/ \E s \in Sessions, nextState \in LifecycleStates, now \in Nows :
            ApplyHumanOverride(s, nextState, now)

Spec == Init /\ [][Next]_vars

-----------------------------------------------------------------------------
(* Properties *)

\* Every variable has its type, and no record is dated in the future.
TypeOK ==
    /\ records \in [Sessions -> LifecycleSessionRecord \cup {NoRecord}]
    /\ clock \in Nat
    /\ mover \in [Sessions -> {"fsm", "human"}]
    /\ enteredClock \in [Sessions -> Nat]
    /\ evidence \in [Sessions -> SUBSET Posterior]
    /\ \A s \in Sessions : records[s] # NoRecord => records[s].stateEnteredAt \in 0..clock

LastOf(seq) == seq[Len(seq)]

\* The audit trail explains the state: a session in DISQUALIFIED carries a
\* disqualification annotation made at the very instant the record says the
\* state was entered, whoever put it there, and a session the state machine
\* itself put in RECOVERED carries its recovery annotation ("permanent
\* annotation in the audit trail", lifecycle.ts:61-73).
AuditTrailExplainsState ==
    \A s \in Sessions : records[s] # NoRecord =>
        LET disqualified == records[s].disqualificationAnnotations
            recovered    == records[s].recoveryAnnotations
        IN  /\ records[s].state = "DISQUALIFIED" =>
                /\ disqualified # <<>>
                /\ LastOf(disqualified).disqualifiedAt = records[s].stateEnteredAt
            /\ records[s].state = "RECOVERED" /\ mover[s] = "fsm" =>
                /\ recovered # <<>>
                /\ LastOf(recovered).recoveredAt = records[s].stateEnteredAt

\* No tier outlives its evidence: after an evaluation the session is on a
\* tier (RECOVERED included) only if the posterior of that very evaluation
\* reaches the bar to stay there, however the session got there.  It follows
\* that repeating an evaluation with the same posterior never drops a session
\* that the evaluation had raised (no flapping on steady evidence).
TierSustainedByLatestEvidence ==
    \A s \in Sessions : \A posterior \in evidence[s] :
        /\ records[s] # NoRecord
        /\ OnLadder(records[s].state) =>
               posterior.probability >= ClimbTiers[Rank(records[s].state)].sustain

\* The dwell time is real time up to the age of the callers' clocks: a climb
\* from one tier to a higher one happens no earlier than the lower tier's
\* dwell, less MaxLag, after the session really entered it.
ClimbDwellsInRealTime ==
    [][\A s \in Sessions :
         LET from == GetState(s)
             to   == GetState(s)'
         IN  /\ OnLadder(from) /\ OnLadder(to)
             /\ Rank(to) > Rank(from)
             /\ mover'[s] = "fsm"
             => clock - enteredClock[s] >= ClimbTiers[Rank(from)].dwell - MaxLag]_vars

\* The manager keeps the lifecycle's promise.
Contract == INSTANCE LifecycleContract WITH
    state       <- [s \in Sessions |-> GetState(s)],
    recoveries  <- [s \in Sessions |->
                      IF records[s] = NoRecord THEN 0 ELSE Len(records[s].recoveryAnnotations)],
    escalations <- [s \in Sessions |->
                      IF records[s] = NoRecord THEN 0 ELSE Len(records[s].disqualificationAnnotations)]

KeepsContract == Contract!ContractSpec

-----------------------------------------------------------------------------
(* What the documents say and the code does not do. *)
=============================================================================
