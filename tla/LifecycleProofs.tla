----------------------------- MODULE LifecycleProofs -----------------------------
(***************************************************************************)
(* Proofs about LifecycleStateManager, for every set of sessions and of    *)
(* posteriors and every bound.                                             *)
(***************************************************************************)
EXTENDS LifecycleStateManager, OperatorLemmas, TLAPS

-----------------------------------------------------------------------------
(* The annotations of one transition *)

\* The annotation an entry into DISQUALIFIED adds is the last one on file.
LEMMA EscalationAnnotated ==
    ASSUME NEW previous \in LifecycleSessionRecord, NEW now \in Int,
           NEW result, result = Enter("DISQUALIFIED", now, previous)
    PROVE  LET annotations == result.record.disqualificationAnnotations
           IN  /\ annotations # <<>>
               /\ LastOf(annotations).disqualifiedAt = now
               /\ Len(annotations) = Len(previous.disqualificationAnnotations) + 1
<1> DEFINE old == previous.disqualificationAnnotations
           e   == [disqualifiedAt |-> now, previousState |-> previous.state]
<1>1. result.record.disqualificationAnnotations = Append(old, e)
  BY DEF Enter, LifecycleSessionRecord
<1>2. old \in Seq(DisqualificationAnnotation) /\ e \in DisqualificationAnnotation
  BY DEF LifecycleSessionRecord, DisqualificationAnnotation
<1>3. e.disqualifiedAt = now
  OBVIOUS
<1> HIDE DEF old, e
<1>4. LastOf(Append(old, e)) = e /\ Append(old, e) # <<>> /\ Len(Append(old, e)) = Len(old) + 1
  BY <1>2 DEF LastOf
<1>5. QED
  BY <1>1, <1>3, <1>4 DEF old

\* So is the annotation of a recovery.
LEMMA RecoveryAnnotated ==
    ASSUME NEW previous \in LifecycleSessionRecord, NEW now \in Int,
           NEW result, result = Recover(now, previous)
    PROVE  LET annotations == result.record.recoveryAnnotations
           IN  /\ annotations # <<>>
               /\ LastOf(annotations).recoveredAt = now
               /\ Len(annotations) = Len(previous.recoveryAnnotations) + 1
<1> DEFINE old == previous.recoveryAnnotations
           e   == [recoveredAt |-> now, regressedFromState |-> "LOST_CONFIDENCE"]
<1>1. result.record.recoveryAnnotations = Append(old, e)
  BY DEF Recover, LifecycleSessionRecord
<1>2. old \in Seq(RecoveryAnnotation) /\ e \in RecoveryAnnotation
  BY DEF LifecycleSessionRecord, RecoveryAnnotation, LifecycleStates
<1>3. e.recoveredAt = now
  OBVIOUS
<1> HIDE DEF old, e
<1>4. LastOf(Append(old, e)) = e /\ Append(old, e) # <<>> /\ Len(Append(old, e)) = Len(old) + 1
  BY <1>2 DEF LastOf
<1>5. QED
  BY <1>1, <1>3, <1>4 DEF old

-----------------------------------------------------------------------------
(* The inductive invariant *)

\* A record is dated with its caller's clock, so at most MaxLag before the
\* moment the state was really entered and never after it; a session without
\* a record has not been moved by a human.
DatedByCaller ==
    \A s \in Sessions :
        /\ enteredClock[s] <= clock
        /\ records[s] = NoRecord => mover[s] = "fsm"
        /\ records[s] # NoRecord =>
              /\ records[s].stateEnteredAt <= enteredClock[s]
              /\ enteredClock[s] - records[s].stateEnteredAt <= MaxLag

IInv == TypeOK /\ AuditTrailExplainsState /\ TierSustainedByLatestEvidence /\ DatedByCaller

\* What an operation on one session leaves behind, whichever it is.
SessionInv(record, by, entered, posteriors, time) ==
    /\ record \in LifecycleSessionRecord
    /\ record.stateEnteredAt \in 0..time
    /\ by \in {"fsm", "human"}
    /\ entered \in Nat
    /\ posteriors \in SUBSET Posterior
    /\ record.state = "DISQUALIFIED" =>
          /\ record.disqualificationAnnotations # <<>>
          /\ LastOf(record.disqualificationAnnotations).disqualifiedAt = record.stateEnteredAt
    /\ record.state = "RECOVERED" /\ by = "fsm" =>
          /\ record.recoveryAnnotations # <<>>
          /\ LastOf(record.recoveryAnnotations).recoveredAt = record.stateEnteredAt
    /\ \A posterior \in posteriors : OnLadder(record.state) =>
          posterior.probability >= ClimbTiers[Rank(record.state)].sustain
    /\ entered <= time
    /\ record.stateEnteredAt <= entered
    /\ entered - record.stateEnteredAt <= MaxLag

\* The record an operation starts from, held or fresh, is well formed.
LEMMA GetRecordInv ==
    ASSUME IInv, NEW s \in Sessions, NEW now \in Nows
    PROVE  /\ GetRecord(s, now) \in LifecycleSessionRecord
           /\ now \in 0..clock /\ clock - now <= MaxLag
           /\ records[s] = NoRecord => GetRecord(s, now) = InitialLifecycleRecord(now)
           /\ records[s] # NoRecord => GetRecord(s, now) = records[s]
<1>1. now \in 0..clock /\ clock - now <= MaxLag /\ clock \in Nat
  BY DEF Nows, IInv, TypeOK
<1>2. InitialLifecycleRecord(now) \in LifecycleSessionRecord
  BY <1>1 DEF InitialLifecycleRecord, LifecycleSessionRecord, LifecycleStates
<1>3. records[s] \in LifecycleSessionRecord \cup {NoRecord}
  BY DEF IInv, TypeOK
<1>4. QED
  BY <1>1, <1>2, <1>3 DEF GetRecord

\* The session an operation works on ends in a good record.
LEMMA EvaluateSession ==
    ASSUME IInv, NEW s \in Sessions, NEW posterior \in Posteriors, NEW now \in Nows,
           NEW contradiction \in ContradictionSignal, Evaluate(s, posterior, now, contradiction)
    PROVE  SessionInv(records'[s], mover'[s], enteredClock'[s], evidence'[s], clock')
<1> DEFINE current == GetRecord(s, now)
           result  == EvaluateLifecycleTransition(current, posterior, now, contradiction)
           new     == result.record
<1>1. /\ current \in LifecycleSessionRecord
      /\ now \in 0..clock /\ clock - now <= MaxLag
      /\ records[s] = NoRecord => current = InitialLifecycleRecord(now)
      /\ records[s] # NoRecord => current = records[s]
  BY GetRecordInv
<1>2. clock \in Nat /\ MaxLag \in Nat /\ now \in Int /\ posterior \in Posterior
  BY <1>1, BoundsAssumption, PosteriorsAssumption DEF IInv, TypeOK
<1>3. /\ records'[s] = new
      /\ evidence'[s] = {posterior}
      /\ clock' = clock
      /\ result.transitioned \/ records[s] = NoRecord => mover'[s] = "fsm" /\ enteredClock'[s] = clock
      /\ ~result.transitioned /\ records[s] # NoRecord =>
             mover'[s] = mover[s] /\ enteredClock'[s] = enteredClock[s]
  BY DEF Evaluate, IInv, TypeOK
<1>4. CASE /\ result = Hold(current)
           /\ OnLadder(current.state) =>
                  posterior.probability >= ClimbTiers[Rank(current.state)].sustain
  <2>1. new = current /\ result.transitioned = FALSE
    BY <1>4 DEF Hold
  <2>2. CASE records[s] = NoRecord
    <3>1. new.state = "UNKNOWN" /\ new.stateEnteredAt = now
      BY <1>1, <2>1, <2>2 DEF InitialLifecycleRecord
    <3>2. QED
      BY <1>1, <1>2, <1>3, <1>4, <2>1, <2>2, <3>1 DEF SessionInv
  <2>3. CASE records[s] # NoRecord
    <3>1. new = records[s] /\ mover'[s] = mover[s] /\ enteredClock'[s] = enteredClock[s]
      BY <1>1, <1>3, <2>1, <2>3
    <3>2. QED
      BY <1>2, <1>3, <1>4, <2>1, <2>3, <3>1, <1>1
      DEF SessionInv, IInv, TypeOK, AuditTrailExplainsState, DatedByCaller
  <2>4. QED
    BY <2>2, <2>3
<1>5. CASE result = Enter("DISQUALIFIED", now, current)
  <2>1. /\ new \in LifecycleSessionRecord
        /\ new.state = "DISQUALIFIED" /\ new.stateEnteredAt = now
        /\ result.transitioned
    BY <1>1, <1>2, <1>5, EnterType DEF LifecycleStates
  <2>2. /\ new.disqualificationAnnotations # <<>>
        /\ LastOf(new.disqualificationAnnotations).disqualifiedAt = now
    BY <1>1, <1>2, <1>5, EscalationAnnotated
  <2>3. ~OnLadder("DISQUALIFIED")
    BY DEF OnLadder, Rank, Tiers
  <2>4. QED
    BY ONLY <1>1, <1>2, <1>3, <2>1, <2>2, <2>3 DEF SessionInv
<1>6. CASE result = Enter("LOST_CONFIDENCE", now, current)
  <2>1. /\ new \in LifecycleSessionRecord
        /\ new.state = "LOST_CONFIDENCE" /\ new.stateEnteredAt = now
        /\ result.transitioned
    BY <1>1, <1>2, <1>6, EnterType DEF LifecycleStates
  <2>2. ~OnLadder("LOST_CONFIDENCE")
    BY DEF OnLadder, Rank, Tiers
  <2>3. QED
    BY ONLY <1>1, <1>2, <1>3, <2>1, <2>2 DEF SessionInv
<1>7. CASE MeetsTier(1, posterior) /\ result = Recover(now, current)
  <2>1. /\ new \in LifecycleSessionRecord
        /\ new.state = "RECOVERED" /\ new.stateEnteredAt = now
        /\ result.transitioned
    BY <1>1, <1>2, <1>7, RecoverType
  <2>2. /\ new.recoveryAnnotations # <<>>
        /\ LastOf(new.recoveryAnnotations).recoveredAt = now
    BY <1>1, <1>2, <1>7, RecoveryAnnotated
  <2>3. Rank("RECOVERED") = 1
    BY DEF Rank
  <2>4. posterior.probability >= ClimbTiers[1].sustain
    BY <1>2, <1>7, TierTable DEF MeetsTier, Tiers, Posterior
  <2>5. QED
    BY ONLY <1>1, <1>2, <1>3, <2>1, <2>2, <2>3, <2>4 DEF SessionInv
<1>8. CASE \E tier \in Tiers : MeetsTier(tier, posterior)
                               /\ result = Enter(ClimbTiers[tier].state, now, current)
  <2>1. PICK tier \in Tiers : MeetsTier(tier, posterior)
                              /\ result = Enter(ClimbTiers[tier].state, now, current)
    BY <1>8
  <2>2. posterior.probability >= ClimbTiers[tier].sustain
    BY <1>2, <2>1, TierTable DEF MeetsTier, Posterior
  <2>3. /\ new \in LifecycleSessionRecord
        /\ new.state = ClimbTiers[tier].state /\ new.stateEnteredAt = now
        /\ result.transitioned
    BY <1>1, <1>2, <2>1, TierTable, EnterType
  <2>4. new.state \notin {"DISQUALIFIED", "RECOVERED"} /\ Rank(new.state) = tier
    BY <2>3, TierTable
  <2>5. QED
    BY ONLY <1>1, <1>2, <1>3, <2>2, <2>3, <2>4 DEF SessionInv
<1>9. QED
  BY <1>1, <1>2, <1>4, <1>5, <1>6, <1>7, <1>8, EvaluateOutcomes

\* An override keeps its session's invariant.
LEMMA OverrideSession ==
    ASSUME IInv, NEW s \in Sessions, NEW nextState \in LifecycleStates, NEW now \in Nows,
           ApplyHumanOverride(s, nextState, now)
    PROVE  SessionInv(records'[s], mover'[s], enteredClock'[s], evidence'[s], clock')
<1> DEFINE current == GetRecord(s, now)
           result  == Enter(nextState, now, current)
           new     == result.record
<1>1. /\ current \in LifecycleSessionRecord
      /\ now \in 0..clock /\ clock - now <= MaxLag
  BY GetRecordInv
<1>2. clock \in Nat /\ MaxLag \in Nat /\ now \in Int
  BY <1>1, BoundsAssumption DEF IInv, TypeOK
<1>3. /\ records'[s] = new
      /\ evidence'[s] = {}
      /\ clock' = clock
      /\ mover'[s] = "human"
      /\ enteredClock'[s] = clock
  BY DEF ApplyHumanOverride, IInv, TypeOK
<1>4. /\ new \in LifecycleSessionRecord
      /\ new.state = nextState /\ new.stateEnteredAt = now
  BY <1>1, <1>2, EnterType
<1>5. nextState = "DISQUALIFIED" =>
        /\ new.disqualificationAnnotations # <<>>
        /\ LastOf(new.disqualificationAnnotations).disqualifiedAt = now
  BY <1>1, <1>2, EscalationAnnotated
<1>6. QED
  BY ONLY <1>1, <1>2, <1>3, <1>4, <1>5 DEF SessionInv

\* A step that leaves one session in a good record and touches no other
\* keeps the invariant.
LEMMA OneSessionStep ==
    ASSUME IInv, NEW s \in Sessions,
           SessionInv(records'[s], mover'[s], enteredClock'[s], evidence'[s], clock'),
           clock' = clock,
           NEW record, records' = [records EXCEPT ![s] = record],
           NEW by, mover' = [mover EXCEPT ![s] = by],
           NEW entered, enteredClock' = [enteredClock EXCEPT ![s] = entered],
           NEW posteriors, evidence' = [evidence EXCEPT ![s] = posteriors]
    PROVE  IInv'
<1>1. TypeOK
  BY DEF IInv
<1>2. /\ records'[s] \in LifecycleSessionRecord
      /\ records'[s] # NoRecord
      /\ records'[s].stateEnteredAt \in 0..clock
  BY NoRecordAssumption DEF SessionInv
<1>3. \A t \in Sessions \ {s} :
        /\ records'[t] = records[t] /\ mover'[t] = mover[t]
        /\ enteredClock'[t] = enteredClock[t] /\ evidence'[t] = evidence[t]
  BY <1>1 DEF TypeOK
<1>4. TypeOK'
  <2>1. /\ records' \in [Sessions -> LifecycleSessionRecord \cup {NoRecord}]
        /\ clock' \in Nat
        /\ mover' \in [Sessions -> {"fsm", "human"}]
        /\ enteredClock' \in [Sessions -> Nat]
        /\ evidence' \in [Sessions -> SUBSET Posterior]
    BY <1>1, <1>2 DEF TypeOK, SessionInv
  <2>2. \A t \in Sessions : records'[t] # NoRecord => records'[t].stateEnteredAt \in 0..clock
    BY <1>1, <1>2, <1>3 DEF TypeOK
  <2>3. QED
    BY <2>1, <2>2 DEF TypeOK
<1>5. AuditTrailExplainsState'
  <2> SUFFICES ASSUME NEW t \in Sessions, records'[t] # NoRecord
               PROVE  LET disqualified == records'[t].disqualificationAnnotations
                          recovered    == records'[t].recoveryAnnotations
                      IN  /\ records'[t].state = "DISQUALIFIED" =>
                              /\ disqualified # <<>>
                              /\ LastOf(disqualified).disqualifiedAt = records'[t].stateEnteredAt
                          /\ records'[t].state = "RECOVERED" /\ mover'[t] = "fsm" =>
                              /\ recovered # <<>>
                              /\ LastOf(recovered).recoveredAt = records'[t].stateEnteredAt
    BY DEF AuditTrailExplainsState, LastOf
  <2>1. CASE t = s
    BY <2>1 DEF SessionInv
  <2>2. CASE t # s
    BY <1>3, <2>2 DEF IInv, AuditTrailExplainsState
  <2>3. QED
    BY <2>1, <2>2
<1>6. TierSustainedByLatestEvidence'
  <2> SUFFICES ASSUME NEW t \in Sessions, NEW posterior \in evidence'[t]
               PROVE  /\ records'[t] # NoRecord
                      /\ OnLadder(records'[t].state) =>
                           posterior.probability >= ClimbTiers[Rank(records'[t].state)].sustain
    BY DEF TierSustainedByLatestEvidence
  <2>1. CASE t = s
    BY <1>2, <2>1 DEF SessionInv
  <2>2. CASE t # s
    BY <1>3, <2>2 DEF IInv, TierSustainedByLatestEvidence
  <2>3. QED
    BY <2>1, <2>2
<1>7. DatedByCaller'
  BY <1>2, <1>3 DEF SessionInv, IInv, DatedByCaller
<1>8. QED
  BY <1>4, <1>5, <1>6, <1>7 DEF IInv

\* It holds before any session is known.
LEMMA InitIInv == Init => IInv
<1> SUFFICES ASSUME Init PROVE IInv
  OBVIOUS
<1>1. \A s \in Sessions : records[s] = NoRecord /\ evidence[s] = {} /\ enteredClock[s] = 0
  BY DEF Init
<1>2. TypeOK
  BY DEF Init, TypeOK
<1>3. QED
  BY <1>1, <1>2 DEF Init, IInv, AuditTrailExplainsState, TierSustainedByLatestEvidence, DatedByCaller

\* Every step keeps it.
LEMMA NextIInv == IInv /\ [Next]_vars => IInv'
<1> SUFFICES ASSUME IInv, [Next]_vars PROVE IInv'
  OBVIOUS
<1>1. CASE Tick
  <2>1. /\ clock \in Nat /\ clock' = clock + 1
        /\ UNCHANGED << records, mover, enteredClock, evidence >>
    BY <1>1 DEF Tick, IInv, TypeOK
  <2>2. TypeOK'
    BY <2>1 DEF IInv, TypeOK
  <2>3. AuditTrailExplainsState' /\ TierSustainedByLatestEvidence'
    BY <2>1 DEF IInv, AuditTrailExplainsState, TierSustainedByLatestEvidence
  <2>4. DatedByCaller'
    BY <2>1 DEF IInv, TypeOK, DatedByCaller
  <2>5. QED
    BY <2>2, <2>3, <2>4 DEF IInv
<1>2. ASSUME NEW s \in Sessions, NEW posterior \in Posteriors, NEW now \in Nows,
             NEW contradiction \in ContradictionSignal,
             Evaluate(s, posterior, now, contradiction)
      PROVE  IInv'
  <2>1. SessionInv(records'[s], mover'[s], enteredClock'[s], evidence'[s], clock')
    BY <1>2, EvaluateSession
  <2>2. mover \in [Sessions -> {"fsm", "human"}] /\ enteredClock \in [Sessions -> Nat]
    BY DEF IInv, TypeOK
  <2>3. \E record : records' = [records EXCEPT ![s] = record]
    BY <1>2 DEF Evaluate
  <2>4. \E by : mover' = [mover EXCEPT ![s] = by]
    BY <1>2, <2>2 DEF Evaluate
  <2>5. \E entered : enteredClock' = [enteredClock EXCEPT ![s] = entered]
    BY <1>2, <2>2 DEF Evaluate
  <2>6. evidence' = [evidence EXCEPT ![s] = {posterior}] /\ clock' = clock
    BY <1>2 DEF Evaluate
  <2>7. QED
    BY <2>1, <2>3, <2>4, <2>5, <2>6, OneSessionStep
<1>3. ASSUME NEW s \in Sessions, NEW nextState \in LifecycleStates, NEW now \in Nows,
             ApplyHumanOverride(s, nextState, now)
      PROVE  IInv'
  <2>1. SessionInv(records'[s], mover'[s], enteredClock'[s], evidence'[s], clock')
    BY <1>3, OverrideSession
  <2>2. /\ \E record : records' = [records EXCEPT ![s] = record]
        /\ mover' = [mover EXCEPT ![s] = "human"]
        /\ enteredClock' = [enteredClock EXCEPT ![s] = clock]
        /\ evidence' = [evidence EXCEPT ![s] = {}]
        /\ clock' = clock
    BY <1>3 DEF ApplyHumanOverride
  <2>3. QED
    BY <2>1, <2>2, OneSessionStep
<1>4. CASE UNCHANGED vars
  BY <1>4 DEF vars, IInv, TypeOK, AuditTrailExplainsState, TierSustainedByLatestEvidence, DatedByCaller
<1>5. QED
  BY <1>1, <1>2, <1>3, <1>4 DEF Next

-----------------------------------------------------------------------------
(* Theorems *)

\* The invariant holds in every reachable state.
THEOREM Invariance == Spec => []IInv
<1>1. QED
  BY InitIInv, NextIInv, PTL DEF Spec

\* Every variable keeps its type and no record is dated in the future.
THEOREM TypeCorrect == Spec => []TypeOK
<1>1. IInv => TypeOK
  BY DEF IInv
<1>2. QED
  BY <1>1, Invariance, PTL

\* A state of suspicion or recovery is always explained by its annotation.
THEOREM AuditTrail == Spec => []AuditTrailExplainsState
<1>1. IInv => AuditTrailExplainsState
  BY DEF IInv
<1>2. QED
  BY <1>1, Invariance, PTL

\* No tier outlives its evidence.
THEOREM TierSustained == Spec => []TierSustainedByLatestEvidence
<1>1. IInv => TierSustainedByLatestEvidence
  BY DEF IInv
<1>2. QED
  BY <1>1, Invariance, PTL

-----------------------------------------------------------------------------
(* Dwell times *)

\* What one evaluation may do to a session's state, and after how long.
LEMMA EvaluateDwells ==
    ASSUME IInv, NEW s \in Sessions, NEW posterior \in Posteriors, NEW now \in Nows,
           NEW contradiction \in ContradictionSignal, Evaluate(s, posterior, now, contradiction),
           OnLadder(GetState(s)), OnLadder(GetState(s)'), Rank(GetState(s)') > Rank(GetState(s))
    PROVE  clock - enteredClock[s] >= ClimbTiers[Rank(GetState(s))].dwell - MaxLag
<1> DEFINE current == GetRecord(s, now)
           result  == EvaluateLifecycleTransition(current, posterior, now, contradiction)
           rank    == Rank(GetState(s))
<1>1. records[s] # NoRecord /\ GetState(s) = records[s].state
  <2>1. ~OnLadder("UNKNOWN")
    BY DEF OnLadder, Rank, Tiers
  <2>2. QED
    BY <2>1 DEF GetState
<1>2. /\ current \in LifecycleSessionRecord /\ current = records[s]
      /\ now \in 0..clock /\ clock - now <= MaxLag
  BY <1>1, GetRecordInv
<1>3. records'[s] = result.record /\ posterior \in Posterior
  BY PosteriorsAssumption DEF Evaluate, IInv, TypeOK
<1>4. rank \in Tiers /\ ClimbTiers[rank].dwell \in Nat
  BY TierTable DEF OnLadder
<1>5. GetState(s)' = IF result.record = NoRecord THEN "UNKNOWN" ELSE result.record.state
  BY <1>3 DEF GetState
<1>6. /\ clock \in Nat /\ MaxLag \in Nat /\ enteredClock[s] \in Nat /\ enteredClock[s] <= clock
      /\ records[s].stateEnteredAt \in 0..clock
      /\ records[s].stateEnteredAt <= enteredClock[s]
      /\ enteredClock[s] - records[s].stateEnteredAt <= MaxLag
  BY <1>1, BoundsAssumption DEF IInv, TypeOK, DatedByCaller
<1>7. Rank("DISQUALIFIED") = -1 /\ Rank("LOST_CONFIDENCE") = -1 /\ Rank("UNKNOWN") = 0
  BY DEF Rank
<1>8. DwellElapsed(current, rank, now)
  <2>1. CASE result = Hold(current)
    <3>1. GetState(s)' = GetState(s)
      BY <1>1, <1>2, <1>5, <2>1 DEF Hold
    <3>2. QED
      BY <1>4, <3>1 DEF Tiers
  <2>2. CASE \/ result = Enter("DISQUALIFIED", now, current)
             \/ result = Enter("LOST_CONFIDENCE", now, current)
    <3>1. GetState(s)' \in {"UNKNOWN", "DISQUALIFIED", "LOST_CONFIDENCE"}
      BY <1>2, <1>5, <2>2, EnterType DEF LifecycleStates
    <3>2. QED
      BY <1>4, <1>7, <3>1 DEF Tiers
  <2>3. CASE current.state = "LOST_CONFIDENCE"
    BY <1>1, <1>2, <1>4, <1>7, <2>3 DEF Tiers
  <2>4. CASE OnLadder(current.state) => DwellElapsed(current, Rank(current.state), now)
    BY <1>1, <1>2, <2>4
  <2>5. QED
    BY <1>2, <1>3, <2>1, <2>2, <2>3, <2>4, EvaluateOutcomes
<1>9. now - records[s].stateEnteredAt >= ClimbTiers[rank].dwell
  BY <1>2, <1>8 DEF DwellElapsed
<1>10. QED
  BY ONLY <1>2, <1>4, <1>6, <1>9

\* A climb from one tier to another waits for the dwell time in real time.
THEOREM ClimbDwell == Spec => ClimbDwellsInRealTime
<1>1. ASSUME IInv, [Next]_vars
      PROVE  [\A s \in Sessions :
                LET from == GetState(s)
                    to   == GetState(s)'
                IN  /\ OnLadder(from) /\ OnLadder(to)
                    /\ Rank(to) > Rank(from)
                    /\ mover'[s] = "fsm"
                    => clock - enteredClock[s] >= ClimbTiers[Rank(from)].dwell - MaxLag]_vars
  <2> SUFFICES ASSUME Next, NEW s \in Sessions,
                      OnLadder(GetState(s)), OnLadder(GetState(s)'),
                      Rank(GetState(s)') > Rank(GetState(s)), mover'[s] = "fsm"
               PROVE  clock - enteredClock[s] >= ClimbTiers[Rank(GetState(s))].dwell - MaxLag
    BY <1>1
  <2>1. records'[s] # records[s]
    <3> SUFFICES ASSUME records'[s] = records[s] PROVE FALSE
      OBVIOUS
    <3>1. GetState(s)' = GetState(s)
      BY DEF GetState
    <3>2. QED
      BY <3>1, RankType
  <2>2. CASE Tick
    BY <2>1, <2>2 DEF Tick
  <2>3. ASSUME NEW t \in Sessions, NEW posterior \in Posteriors, NEW now \in Nows,
               NEW contradiction \in ContradictionSignal,
               Evaluate(t, posterior, now, contradiction)
        PROVE  clock - enteredClock[s] >= ClimbTiers[Rank(GetState(s))].dwell - MaxLag
    <3>1. t = s
      BY <1>1, <2>1, <2>3 DEF Evaluate, IInv, TypeOK
    <3>2. QED
      BY <1>1, <2>3, <3>1, EvaluateDwells
  <2>4. ASSUME NEW t \in Sessions, NEW nextState \in LifecycleStates, NEW now \in Nows,
               ApplyHumanOverride(t, nextState, now)
        PROVE  FALSE
    <3>1. t = s
      BY <1>1, <2>1, <2>4 DEF ApplyHumanOverride, IInv, TypeOK
    <3>2. mover'[s] = "human"
      BY <1>1, <2>4, <3>1 DEF ApplyHumanOverride, IInv, TypeOK
    <3>3. QED
      BY <3>2
  <2>5. QED
    BY <2>2, <2>3, <2>4 DEF Next
<1>2. QED
  BY <1>1, Invariance, PTL DEF Spec, ClimbDwellsInRealTime

-----------------------------------------------------------------------------
(* The manager implements the contract *)

\* The contract's variables as functions of the manager's.
StateOf       == [s \in Sessions |-> GetState(s)]
RecoveriesOf  == [s \in Sessions |->
                    IF records[s] = NoRecord THEN 0 ELSE Len(records[s].recoveryAnnotations)]
EscalationsOf == [s \in Sessions |->
                    IF records[s] = NoRecord THEN 0 ELSE Len(records[s].disqualificationAnnotations)]

\* Giving one session a new record moves the contract's variables there only.
LEMMA AbstractUpdate ==
    ASSUME IInv, NEW s \in Sessions, NEW record \in LifecycleSessionRecord,
           records' = [records EXCEPT ![s] = record]
    PROVE  /\ StateOf' = [StateOf EXCEPT ![s] = record.state]
           /\ RecoveriesOf' = [RecoveriesOf EXCEPT ![s] = Len(record.recoveryAnnotations)]
           /\ EscalationsOf' = [EscalationsOf EXCEPT ![s] = Len(record.disqualificationAnnotations)]
<1>1. record # NoRecord
  BY NoRecordAssumption
<1>2. records'[s] = record /\ \A t \in Sessions \ {s} : records'[t] = records[t]
  BY DEF IInv, TypeOK
<1>3. StateOf' = [StateOf EXCEPT ![s] = record.state]
  <2>1. \A t \in Sessions : GetState(t)' = IF t = s THEN record.state ELSE GetState(t)
    BY <1>1, <1>2 DEF GetState
  <2>2. StateOf' = [t \in Sessions |-> GetState(t)']
    BY DEF StateOf
  <2>3. QED
    BY <2>1, <2>2 DEF StateOf
<1>4. RecoveriesOf' = [RecoveriesOf EXCEPT ![s] = Len(record.recoveryAnnotations)]
  <2> DEFINE count(r) == IF r = NoRecord THEN 0 ELSE Len(r.recoveryAnnotations)
  <2>1. \A t \in Sessions : count(records'[t]) =
            IF t = s THEN Len(record.recoveryAnnotations) ELSE count(records[t])
    BY <1>1, <1>2
  <2>2. /\ RecoveriesOf = [t \in Sessions |-> count(records[t])]
        /\ RecoveriesOf' = [t \in Sessions |-> count(records'[t])]
    BY DEF RecoveriesOf
  <2> HIDE DEF count
  <2>3. QED
    BY <2>1, <2>2
<1>5. EscalationsOf' = [EscalationsOf EXCEPT ![s] = Len(record.disqualificationAnnotations)]
  <2> DEFINE count(r) == IF r = NoRecord THEN 0 ELSE Len(r.disqualificationAnnotations)
  <2>1. \A t \in Sessions : count(records'[t]) =
            IF t = s THEN Len(record.disqualificationAnnotations) ELSE count(records[t])
    BY <1>1, <1>2
  <2>2. /\ EscalationsOf = [t \in Sessions |-> count(records[t])]
        /\ EscalationsOf' = [t \in Sessions |-> count(records'[t])]
    BY DEF EscalationsOf
  <2> HIDE DEF count
  <2>3. QED
    BY <2>1, <2>2
<1>6. QED
  BY <1>3, <1>4, <1>5

\* The contract speaks of the same states and the same ladder.
LEMMA SameLadder ==
    /\ Contract!LifecycleStates = LifecycleStates
    /\ \A state : Contract!Rank(state) = Rank(state)
    /\ Contract!TierStates = { ClimbTiers[tier].state : tier \in Tiers }
BY DEF Contract!LifecycleStates, LifecycleStates, Contract!Rank, Rank, Contract!TierStates,
       Contract!ClimbTiers, ClimbTiers, Contract!Tiers, Tiers

\* What the contract sees of a session is what the next operation starts from.
LEMMA AbstractCurrent ==
    ASSUME IInv, NEW s \in Sessions, NEW now \in Nows
    PROVE  /\ GetRecord(s, now) \in LifecycleSessionRecord
           /\ StateOf[s] = GetRecord(s, now).state
           /\ RecoveriesOf[s] = Len(GetRecord(s, now).recoveryAnnotations)
           /\ EscalationsOf[s] = Len(GetRecord(s, now).disqualificationAnnotations)
<1>1. /\ InitialLifecycleRecord(now).state = "UNKNOWN"
      /\ InitialLifecycleRecord(now).recoveryAnnotations = << >>
      /\ InitialLifecycleRecord(now).disqualificationAnnotations = << >>
  BY DEF InitialLifecycleRecord
<1>2. QED
  BY <1>1, GetRecordInv DEF StateOf, RecoveriesOf, EscalationsOf, GetState

\* An evaluation is an automatic move of the contract, or nothing.
LEMMA EvaluateMoves ==
    ASSUME IInv, NEW s \in Sessions, NEW posterior \in Posteriors, NEW now \in Nows,
           NEW contradiction \in ContradictionSignal, Evaluate(s, posterior, now, contradiction)
    PROVE  Contract!ContractNext \/ UNCHANGED Contract!contractVars
<1> DEFINE current == GetRecord(s, now)
           result  == EvaluateLifecycleTransition(current, posterior, now, contradiction)
           new     == result.record
<1>1. /\ current \in LifecycleSessionRecord
      /\ StateOf[s] = current.state
      /\ RecoveriesOf[s] = Len(current.recoveryAnnotations)
      /\ EscalationsOf[s] = Len(current.disqualificationAnnotations)
  BY AbstractCurrent
<1>2. posterior \in Posterior /\ now \in Int /\ clock \in Nat
  BY PosteriorsAssumption, GetRecordInv DEF IInv, TypeOK
<1>3. /\ records' = [records EXCEPT ![s] = new]
      /\ result.transitioned \/ records[s] = NoRecord => mover' = [mover EXCEPT ![s] = "fsm"]
      /\ ~result.transitioned /\ records[s] # NoRecord => mover' = mover
      /\ mover \in [Sessions -> {"fsm", "human"}]
      /\ records[s] = NoRecord => mover[s] = "fsm"
  BY DEF Evaluate, IInv, TypeOK, DatedByCaller
<1>4. /\ StateOf \in [Sessions -> LifecycleStates]
      /\ DOMAIN RecoveriesOf = Sessions /\ DOMAIN EscalationsOf = Sessions
      /\ RecoveriesOf = [t \in Sessions |-> RecoveriesOf[t]]
      /\ EscalationsOf = [t \in Sessions |-> EscalationsOf[t]]
  <2>1. \A t \in Sessions : GetState(t) \in LifecycleStates
    BY DEF GetState, IInv, TypeOK, LifecycleSessionRecord, LifecycleStates
  <2>2. QED
    BY <2>1 DEF StateOf, RecoveriesOf, EscalationsOf
<1>5. CASE result = Hold(current)
  <2>1. new = current /\ result.transitioned = FALSE
    BY <1>5 DEF Hold
  <2>2. UNCHANGED << StateOf, RecoveriesOf, EscalationsOf >>
    <3> HIDE DEF new
    <3>1. /\ StateOf' = [StateOf EXCEPT ![s] = new.state]
          /\ RecoveriesOf' = [RecoveriesOf EXCEPT ![s] = Len(new.recoveryAnnotations)]
          /\ EscalationsOf' = [EscalationsOf EXCEPT ![s] = Len(new.disqualificationAnnotations)]
      BY <1>1, <1>3, <2>1, AbstractUpdate
    <3>2. QED
      BY <1>1, <1>4, <2>1, <3>1
  <2>3. mover' = mover
    BY <1>3, <2>1
  <2>4. QED
    BY <2>2, <2>3 DEF Contract!contractVars, StateOf, RecoveriesOf, EscalationsOf
<1>6. ASSUME NEW to \in LifecycleStates, new.state = to, new \in LifecycleSessionRecord,
             result.transitioned, << current.state, to >> \in Contract!AutomaticMoves,
             Len(new.disqualificationAnnotations) =
                IF to = "DISQUALIFIED" THEN Len(current.disqualificationAnnotations) + 1
                ELSE Len(current.disqualificationAnnotations),
             Len(new.recoveryAnnotations) =
                IF to = "RECOVERED" THEN Len(current.recoveryAnnotations) + 1
                ELSE Len(current.recoveryAnnotations)
      PROVE  Contract!ContractNext
  <2>1. /\ StateOf' = [StateOf EXCEPT ![s] = to]
        /\ RecoveriesOf' = [RecoveriesOf EXCEPT ![s] = Len(new.recoveryAnnotations)]
        /\ EscalationsOf' = [EscalationsOf EXCEPT ![s] = Len(new.disqualificationAnnotations)]
    BY <1>3, <1>6, AbstractUpdate
  <2>2. mover' = [mover EXCEPT ![s] = "fsm"]
    BY <1>3, <1>6
  <2>3. EscalationsOf' = IF to = "DISQUALIFIED" THEN [EscalationsOf EXCEPT ![s] = @ + 1]
                         ELSE EscalationsOf
    BY <1>1, <1>4, <1>6, <2>1
  <2>4. RecoveriesOf' = IF to = "RECOVERED" THEN [RecoveriesOf EXCEPT ![s] = @ + 1]
                        ELSE RecoveriesOf
    BY <1>1, <1>4, <1>6, <2>1
  <2>5. << StateOf[s], to >> \in Contract!AutomaticMoves
    BY <1>1, <1>6
  <2>6. Contract!AutomaticMove(s, to)
    BY <2>1, <2>2, <2>3, <2>4, <2>5
    DEF Contract!AutomaticMove, Contract!Annotate, StateOf, RecoveriesOf, EscalationsOf
  <2>7. QED
    BY <1>6, <2>6, SameLadder DEF Contract!ContractNext
<1>7. current.state \in LifecycleStates
  BY <1>1 DEF LifecycleSessionRecord
<1>8. CASE current.state # "DISQUALIFIED" /\ result = Enter("DISQUALIFIED", now, current)
  <2>1. << current.state, "DISQUALIFIED" >> \in Contract!AutomaticMoves
    BY <1>7, <1>8, SameLadder DEF Contract!AutomaticMoves, LifecycleStates
  <2>2. /\ new \in LifecycleSessionRecord /\ new.state = "DISQUALIFIED" /\ result.transitioned
        /\ new.recoveryAnnotations = current.recoveryAnnotations
    BY <1>1, <1>2, <1>8, EnterType DEF LifecycleStates
  <2>3. Len(new.disqualificationAnnotations) = Len(current.disqualificationAnnotations) + 1
    BY <1>1, <1>2, <1>8, EscalationAnnotated
  <2>4. QED
    BY <1>6, <2>1, <2>2, <2>3 DEF LifecycleStates
<1>9. CASE current.state # "DISQUALIFIED" /\ result = Enter("LOST_CONFIDENCE", now, current)
  <2>1. << current.state, "LOST_CONFIDENCE" >> \in Contract!AutomaticMoves
    BY <1>7, <1>9, SameLadder DEF Contract!AutomaticMoves, LifecycleStates
  <2>2. "LOST_CONFIDENCE" \in LifecycleStates
    BY DEF LifecycleStates
  <2>3. new \in LifecycleSessionRecord /\ new.state = "LOST_CONFIDENCE" /\ result.transitioned
    BY <1>1, <1>2, <1>9, <2>2, EnterType
  <2>4. /\ new.recoveryAnnotations = current.recoveryAnnotations
        /\ new.disqualificationAnnotations = current.disqualificationAnnotations
    BY <1>1, <1>2, <1>9, <2>2, EnterType, EnterAnnotatesNothingElse
  <2>5. QED
    BY <1>6, <2>1, <2>2, <2>3, <2>4
<1>10. CASE current.state = "LOST_CONFIDENCE" /\ result = Recover(now, current)
  <2>1. << current.state, "RECOVERED" >> \in Contract!AutomaticMoves
    BY <1>7, <1>10, SameLadder DEF Contract!AutomaticMoves, LifecycleStates
  <2>2. /\ new \in LifecycleSessionRecord /\ new.state = "RECOVERED" /\ result.transitioned
        /\ new.disqualificationAnnotations = current.disqualificationAnnotations
    BY <1>1, <1>2, <1>10, RecoverType
  <2>3. Len(new.recoveryAnnotations) = Len(current.recoveryAnnotations) + 1
    BY <1>1, <1>2, <1>10, RecoveryAnnotated
  <2>4. QED
    BY <1>6, <2>1, <2>2, <2>3 DEF LifecycleStates
<1>11. ASSUME current.state \notin {"DISQUALIFIED", "LOST_CONFIDENCE"},
              NEW tier \in Tiers, tier > Rank(current.state),
              result = Enter(ClimbTiers[tier].state, now, current)
       PROVE  Contract!ContractNext
  <2> DEFINE to == ClimbTiers[tier].state
  <2>1. to \in LifecycleStates /\ to \notin {"DISQUALIFIED", "RECOVERED"} /\ Rank(to) = tier
    BY TierTable
  <2>2. to \in Contract!TierStates
    BY SameLadder
  <2>3. << current.state, to >> \in Contract!AutomaticMoves
    <3> HIDE DEF to
    <3>1. QED
      BY <1>7, <1>11, <2>1, <2>2, SameLadder DEF Contract!AutomaticMoves
  <2>4. new \in LifecycleSessionRecord /\ new.state = to /\ result.transitioned
    BY <1>1, <1>2, <1>11, <2>1, EnterType
  <2>5. /\ new.recoveryAnnotations = current.recoveryAnnotations
        /\ new.disqualificationAnnotations = current.disqualificationAnnotations
    BY <1>1, <1>2, <1>11, <2>1, EnterType, EnterAnnotatesNothingElse
  <2>6. QED
    BY <1>6, <2>1, <2>3, <2>4, <2>5
<1>12. QED
  BY <1>1, <1>2, <1>5, <1>8, <1>9, <1>10, <1>11, EvaluateOutcomes

\* An override is a human move of the contract.
LEMMA OverrideMoves ==
    ASSUME IInv, NEW s \in Sessions, NEW nextState \in LifecycleStates, NEW now \in Nows,
           ApplyHumanOverride(s, nextState, now)
    PROVE  Contract!ContractNext
<1> DEFINE current == GetRecord(s, now)
           result  == Enter(nextState, now, current)
           new     == result.record
<1>1. /\ current \in LifecycleSessionRecord
      /\ RecoveriesOf[s] = Len(current.recoveryAnnotations)
      /\ EscalationsOf[s] = Len(current.disqualificationAnnotations)
  BY AbstractCurrent
<1>2. now \in Int
  BY GetRecordInv
<1>3. records' = [records EXCEPT ![s] = new] /\ mover' = [mover EXCEPT ![s] = "human"]
  BY DEF ApplyHumanOverride
<1>4. /\ new \in LifecycleSessionRecord /\ new.state = nextState
      /\ new.recoveryAnnotations = current.recoveryAnnotations
  BY <1>1, <1>2, EnterType
<1>5. Len(new.disqualificationAnnotations) =
        IF nextState = "DISQUALIFIED" THEN Len(current.disqualificationAnnotations) + 1
        ELSE Len(current.disqualificationAnnotations)
  BY <1>1, <1>2, EscalationAnnotated, EnterAnnotatesNothingElse
<1>6. /\ StateOf' = [StateOf EXCEPT ![s] = nextState]
      /\ RecoveriesOf' = [RecoveriesOf EXCEPT ![s] = Len(new.recoveryAnnotations)]
      /\ EscalationsOf' = [EscalationsOf EXCEPT ![s] = Len(new.disqualificationAnnotations)]
  <2> HIDE DEF new
  <2>1. QED
    BY <1>3, <1>4, AbstractUpdate
<1>7. /\ RecoveriesOf = [t \in Sessions |-> RecoveriesOf[t]]
      /\ EscalationsOf = [t \in Sessions |-> EscalationsOf[t]]
  BY DEF RecoveriesOf, EscalationsOf
<1>8. EscalationsOf' = IF nextState = "DISQUALIFIED" THEN [EscalationsOf EXCEPT ![s] = @ + 1]
                       ELSE EscalationsOf
  BY <1>1, <1>5, <1>6, <1>7
<1>9. RecoveriesOf' = RecoveriesOf
  BY <1>1, <1>4, <1>6, <1>7
<1>10. Contract!HumanMove(s, nextState)
  BY <1>3, <1>6, <1>8, <1>9
  DEF Contract!HumanMove, Contract!Annotate, StateOf, RecoveriesOf, EscalationsOf
<1>11. QED
  BY <1>10, SameLadder DEF Contract!ContractNext

\* The manager implements the abstract lifecycle: no automatic move leaves
\* DISQUALIFIED, LOST_CONFIDENCE is left for the ladder only by a recovery, and
\* each escalation and recovery leaves exactly one annotation.
THEOREM ImplementsContract == Spec => KeepsContract
<1>1. Init => Contract!ContractInit
  BY DEF Init, Contract!ContractInit, GetState
<1>2. IInv /\ [Next]_vars => [Contract!ContractNext]_(Contract!contractVars)
  <2> SUFFICES ASSUME IInv, [Next]_vars
               PROVE  Contract!ContractNext \/ UNCHANGED Contract!contractVars
    OBVIOUS
  <2>1. CASE records' = records /\ mover' = mover
    BY <2>1 DEF Contract!contractVars, GetState
  <2>2. CASE Tick \/ UNCHANGED vars
    BY <2>1, <2>2 DEF Tick, vars
  <2>3. QED
    BY <2>2, EvaluateMoves, OverrideMoves DEF Next
<1>3. QED
  BY <1>1, <1>2, Invariance, PTL DEF Spec, KeepsContract, Contract!ContractSpec
=============================================================================
