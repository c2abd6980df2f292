------------------------------ MODULE StoreProofs ------------------------------
(***************************************************************************)
(* Proofs about SessionLifecycleStore, for any sessions, calls, posteriors *)
(* and times, and for any failures, lost replies, crashes and orphans.     *)
(* The type and the numbers of the rows hold however calls overlap; the    *)
(* audit trail needs that no two calls recover a session at once, which    *)
(* Overlap = "any" (the run store_cold_race) shows to be necessary.        *)
(***************************************************************************)
EXTENDS SessionLifecycleStore, OperatorLemmas, SequenceTheorems, FiniteSetTheorems

MaybeRecord == LifecycleSessionRecord \cup {NoRecord}

\* The rows of a session are numbered 0 to n; n is -1 when it has none.
Gapless(rows, n) ==
    /\ n \in Nat \cup {-1}
    /\ DOMAIN rows = 0..n
    /\ rows = [sequence \in 0..n |-> rows[sequence]]
    /\ \A sequence \in 0..n : rows[sequence] \in Row

\* The number a call works with: of a row it has read or written, or the next
\* one at most.
Numbered(call, latest) ==
    /\ call.pc = "restoring" => call.sequence <= latest
    /\ call.pc \in { "saving", "orphaned" } =>
           /\ call.sequence \in Nat /\ call.sequence <= latest + 1
           /\ call.result \in LifecycleSessionRecord
    /\ call.pc = "saved" =>
           /\ call.sequence \in Nat /\ call.sequence <= latest
           /\ call.result \in LifecycleSessionRecord

Types ==
    /\ memory \in [Sessions -> MaybeRecord]
    /\ recovered \subseteq Sessions
    /\ nextSequence \in [Sessions -> Nat]
    /\ calls \in [Calls -> CallRecord \cup {NoCall}]
    /\ acknowledged \in [Sessions -> MaybeRecord]
    /\ snapshots = [s \in Sessions |-> snapshots[s]]

NInv ==
    /\ Types
    /\ \A s \in Sessions : Gapless(snapshots[s], LatestSequence(s))
    /\ \A s \in Sessions : nextSequence[s] <= LatestSequence(s) + 1
    /\ \A c \in Calls, s \in Sessions :
           calls[c] # NoCall /\ calls[c].session = s => Numbered(calls[c], LatestSequence(s))

\* What a call carries continues the trail in the table if its number is the
\* next one, and the trail in memory continues what the call carries. latest
\* and record are the session's last row, held its record in memory.
Faithful(call, latest, record, held) ==
    /\ call.pc = "restoring" /\ call.sequence = latest => call.loaded = record
    /\ call.pc \in { "saving", "orphaned" } /\ call.sequence = latest + 1 =>
           Continues(call.result, record)
    /\ call.pc = "saving" /\ call.sequence = latest + 1 => Continues(held, call.result)
    /\ call.pc = "saved" => Continues(record, call.result)
    /\ call.pc = "saved" /\ call.sequence = latest => Continues(held, record)

\* A call that recovers its session is alone with it; all others work on a
\* session that has been recovered.
Recovering(c) ==
    /\ calls[c].pc \in { "loading", "restoring" } => calls[c].session \notin recovered
    /\ calls[c].pc \in { "acting", "saving", "saved" } => calls[c].session \in recovered

Alone(c, d) ==
    /\ calls[c].pc \in { "loading", "restoring" }
    /\ calls[d].pc \notin { "idle", "orphaned" }
    /\ calls[d].session = calls[c].session
    => d = c

\* When the cursor stands behind the last row, memory continues that row; and
\* that row continues what was acknowledged.
Current(s) ==
    /\ s \in recovered /\ nextSequence[s] = LatestSequence(s) + 1 =>
           Continues(memory[s], LatestRecord(s))
    /\ Continues(LatestRecord(s), acknowledged[s])

TInv ==
    /\ \A c \in Calls : Recovering(c)
    /\ \A c, d \in Calls : Alone(c, d)
    /\ \A c \in Calls, s \in Sessions : calls[c] # NoCall /\ calls[c].session = s =>
           Faithful(calls[c], LatestSequence(s), LatestRecord(s), memory[s])
    /\ \A s \in Sessions : Current(s)

-----------------------------------------------------------------------------
(* Trails *)

\* What being a prefix means place by place.
LEMMA PrefixByPlace ==
    ASSUME NEW S, NEW one \in Seq(S), NEW other \in Seq(S)
    PROVE  IsPrefix(one, other) <=>
               /\ Len(one) <= Len(other)
               /\ \A i \in 1..Len(one) : one[i] = other[i]
<1> DEFINE n == Len(one)
<1>1. n \in Nat /\ Len(other) \in Nat
  OBVIOUS
<1>2. CASE n <= Len(other)
  <2>1. \A i \in 1..n : one[i] \in S /\ other[i] \in S
    BY <1>1, <1>2
  <2>2. /\ SubSeq(one, 1, n) \in Seq(S) /\ SubSeq(other, 1, n) \in Seq(S)
        /\ Len(SubSeq(one, 1, n)) = n /\ Len(SubSeq(other, 1, n)) = n
        /\ \A i \in 1..n : SubSeq(one, 1, n)[i] = one[i] /\ SubSeq(other, 1, n)[i] = other[i]
    <3>1. /\ SubSeq(one, 1, n) \in Seq(S)
          /\ Len(SubSeq(one, 1, n)) = IF 1 <= n THEN n - 1 + 1 ELSE 0
          /\ \A i \in 1 .. n - 1 + 1 : SubSeq(one, 1, n)[i] = one[1 + i - 1]
      BY <1>1, <2>1, SubSeqProperties
    <3>2. /\ SubSeq(other, 1, n) \in Seq(S)
          /\ Len(SubSeq(other, 1, n)) = IF 1 <= n THEN n - 1 + 1 ELSE 0
          /\ \A i \in 1 .. n - 1 + 1 : SubSeq(other, 1, n)[i] = other[1 + i - 1]
      BY <1>1, <2>1, SubSeqProperties
    <3> QED
      BY <1>1, <3>1, <3>2
  <2>3. SubSeq(one, 1, n) = SubSeq(other, 1, n) <=> \A i \in 1..n : one[i] = other[i]
    <3>1. ASSUME \A i \in 1..n : one[i] = other[i]
          PROVE  SubSeq(one, 1, n) = SubSeq(other, 1, n)
      BY <2>2, <3>1, SeqEqual
    <3>2. ASSUME SubSeq(one, 1, n) = SubSeq(other, 1, n), NEW i \in 1..n
          PROVE  one[i] = other[i]
      BY <2>2, <3>2
    <3> QED
      BY <3>1, <3>2
  <2> QED
    BY <1>2, <2>3 DEF IsPrefix
<1>3. CASE ~(n <= Len(other))
  BY <1>3 DEF IsPrefix
<1> QED
  BY <1>2, <1>3

\* A trail is a prefix of itself with an annotation more.
LEMMA PrefixOfAppended ==
    ASSUME NEW S, NEW one \in Seq(S), NEW e \in S
    PROVE  IsPrefix(one, one) /\ IsPrefix(one, Append(one, e))
<1>1. Append(one, e) \in Seq(S) /\ Len(one) <= Len(Append(one, e))
  OBVIOUS
<1>2. \A i \in 1..Len(one) : one[i] = Append(one, e)[i]
  OBVIOUS
<1>3. IsPrefix(one, Append(one, e))
  <2> DEFINE longer == Append(one, e)
  <2>1. longer \in Seq(S) /\ Len(one) <= Len(longer) /\ \A i \in 1..Len(one) : one[i] = longer[i]
    BY <1>1, <1>2
  <2> HIDE DEF longer
  <2>2. IsPrefix(one, longer) <=> /\ Len(one) <= Len(longer)
                                  /\ \A i \in 1..Len(one) : one[i] = longer[i]
    BY <2>1, PrefixByPlace
  <2>3. IsPrefix(one, longer)
    BY <2>1, <2>2
  <2> QED
    BY <2>3 DEF longer
<1>4. IsPrefix(one, one)
  BY PrefixByPlace
<1> QED
  BY <1>3, <1>4

\* A record continues itself, and continues no record at all.
LEMMA ContinuesReflexive ==
    ASSUME NEW record \in MaybeRecord
    PROVE  Continues(record, record) /\ Continues(record, NoRecord)
<1>1. CASE record = NoRecord
  BY <1>1 DEF Continues
<1>2. CASE record \in LifecycleSessionRecord
  <2>1. /\ record.recoveryAnnotations \in Seq(RecoveryAnnotation)
        /\ record.disqualificationAnnotations \in Seq(DisqualificationAnnotation)
    BY <1>2 DEF LifecycleSessionRecord
  <2>2. /\ IsPrefix(record.recoveryAnnotations, record.recoveryAnnotations)
        /\ IsPrefix(record.disqualificationAnnotations, record.disqualificationAnnotations)
    BY <2>1, PrefixByPlace
  <2> QED
    BY <2>2 DEF Continues
<1> QED
  BY <1>1, <1>2 DEF MaybeRecord

\* What continues a continuation continues the first.
LEMMA ContinuesTransitive ==
    ASSUME NEW last \in MaybeRecord, NEW middle \in MaybeRecord, NEW first \in MaybeRecord,
           Continues(last, middle), Continues(middle, first)
    PROVE  Continues(last, first)
<1>1. CASE first = NoRecord
  BY <1>1 DEF Continues
<1>2. CASE first # NoRecord
  <2>1. middle # NoRecord /\ last # NoRecord
    BY <1>2 DEF Continues
  <2>2. /\ first \in LifecycleSessionRecord /\ middle \in LifecycleSessionRecord
        /\ last \in LifecycleSessionRecord
    BY <1>2, <2>1 DEF MaybeRecord
  <2>3. ASSUME NEW S, NEW a \in Seq(S), NEW b \in Seq(S), NEW c \in Seq(S),
               IsPrefix(a, b), IsPrefix(b, c)
        PROVE  IsPrefix(a, c)
    <3>1. /\ Len(a) <= Len(b) /\ \A i \in 1..Len(a) : a[i] = b[i]
          /\ Len(b) <= Len(c) /\ \A i \in 1..Len(b) : b[i] = c[i]
      BY <2>3, PrefixByPlace
    <3>2. Len(a) <= Len(c) /\ \A i \in 1..Len(a) : a[i] = c[i]
      BY <3>1
    <3> QED
      BY <3>2, PrefixByPlace
  <2>4. IsPrefix(first.recoveryAnnotations, last.recoveryAnnotations)
    <3>1. /\ IsPrefix(first.recoveryAnnotations, middle.recoveryAnnotations)
          /\ IsPrefix(middle.recoveryAnnotations, last.recoveryAnnotations)
      BY <1>2, <2>1 DEF Continues
    <3>2. /\ first.recoveryAnnotations \in Seq(RecoveryAnnotation)
          /\ middle.recoveryAnnotations \in Seq(RecoveryAnnotation)
          /\ last.recoveryAnnotations \in Seq(RecoveryAnnotation)
      BY <2>2 DEF LifecycleSessionRecord
    <3> QED
      BY <2>3, <3>1, <3>2
  <2>5. IsPrefix(first.disqualificationAnnotations, last.disqualificationAnnotations)
    <3>1. /\ IsPrefix(first.disqualificationAnnotations, middle.disqualificationAnnotations)
          /\ IsPrefix(middle.disqualificationAnnotations, last.disqualificationAnnotations)
      BY <1>2, <2>1 DEF Continues
    <3>2. /\ first.disqualificationAnnotations \in Seq(DisqualificationAnnotation)
          /\ middle.disqualificationAnnotations \in Seq(DisqualificationAnnotation)
          /\ last.disqualificationAnnotations \in Seq(DisqualificationAnnotation)
      BY <2>2 DEF LifecycleSessionRecord
    <3> QED
      BY <2>3, <3>1, <3>2
  <2> QED
    BY <2>1, <2>4, <2>5 DEF Continues
<1> QED
  BY <1>1, <1>2

\* Neither an entry nor a recovery drops an annotation.
LEMMA EnterContinues ==
    ASSUME NEW previous \in LifecycleSessionRecord, NEW state \in LifecycleStates, NEW now \in Int
    PROVE  /\ Enter(state, now, previous).record \in LifecycleSessionRecord
           /\ Continues(Enter(state, now, previous).record, previous)
<1> DEFINE old  == previous.disqualificationAnnotations
           e    == [disqualifiedAt |-> now, previousState |-> previous.state]
           next == Enter(state, now, previous).record
<1>1. /\ next \in LifecycleSessionRecord
      /\ next.recoveryAnnotations = previous.recoveryAnnotations
  BY EnterType
<1>2. /\ old \in Seq(DisqualificationAnnotation) /\ e \in DisqualificationAnnotation
      /\ previous.recoveryAnnotations \in Seq(RecoveryAnnotation)
  BY DEF LifecycleSessionRecord, DisqualificationAnnotation
<1>3. next.disqualificationAnnotations = old \/ next.disqualificationAnnotations = Append(old, e)
  BY DEF Enter, LifecycleSessionRecord
<1>4. IsPrefix(old, next.disqualificationAnnotations)
  <2> HIDE DEF old, e, next
  <2>1. IsPrefix(old, old) /\ IsPrefix(old, Append(old, e))
    BY <1>2, PrefixOfAppended
  <2> QED
    BY <1>3, <2>1
<1>5. IsPrefix(previous.recoveryAnnotations, next.recoveryAnnotations)
  BY <1>1, <1>2, PrefixByPlace
<1>6. next # NoRecord
  BY <1>1, NoRecordIsNoRecord
<1> QED
  BY <1>1, <1>4, <1>5, <1>6 DEF Continues

\* A recovery too keeps every annotation there was.
LEMMA RecoverContinues ==
    ASSUME NEW previous \in LifecycleSessionRecord, NEW now \in Int
    PROVE  /\ Recover(now, previous).record \in LifecycleSessionRecord
           /\ Continues(Recover(now, previous).record, previous)
<1> DEFINE old  == previous.recoveryAnnotations
           e    == [recoveredAt |-> now, regressedFromState |-> "LOST_CONFIDENCE"]
           next == Recover(now, previous).record
<1>1. /\ next \in LifecycleSessionRecord
      /\ next.disqualificationAnnotations = previous.disqualificationAnnotations
  BY RecoverType
<1>2. /\ old \in Seq(RecoveryAnnotation) /\ e \in RecoveryAnnotation
      /\ previous.disqualificationAnnotations \in Seq(DisqualificationAnnotation)
  BY DEF LifecycleSessionRecord, RecoveryAnnotation, LifecycleStates
<1>3. next.recoveryAnnotations = Append(old, e)
  BY DEF Recover, LifecycleSessionRecord
<1>4. IsPrefix(old, next.recoveryAnnotations)
  <2> HIDE DEF old, e, next
  <2> QED
    BY <1>2, <1>3, PrefixOfAppended
<1>5. IsPrefix(previous.disqualificationAnnotations, next.disqualificationAnnotations)
  BY <1>1, <1>2, PrefixByPlace
<1>6. next # NoRecord
  BY <1>1, NoRecordIsNoRecord
<1> QED
  BY <1>1, <1>4, <1>5, <1>6 DEF Continues

\* A call is given a time in whole milliseconds.
LEMMA CallsHaveTimes ==
    ASSUME NEW op \in Evaluations \cup Overrides
    PROVE  op.now \in Int
<1>1. CASE op \in Evaluations
  <2>1. op \in [kind : {"evaluate"}, posterior : Posterior,
                contradiction : ContradictionSignal, now : Nows]
    BY <1>1, EvaluationsAssumption
  <2>2. op.now \in Nows
    BY <2>1
  <2>3. op.now \in Nat
    BY <2>2, NowsAssumption
  <2> QED
    BY <2>3
<1>2. CASE op \in Overrides
  <2>1. op \in [kind : {"override"}, nextState : LifecycleStates, now : Nows]
    BY <1>2, OverridesAssumption
  <2>2. op.now \in Nows
    BY <2>1
  <2>3. op.now \in Nat
    BY <2>2, NowsAssumption
  <2> QED
    BY <2>3
<1> QED
  BY <1>1, <1>2

\* Whatever a call does to a session, the record it leaves is well formed and
\* continues the one it found in memory.
LEMMA OutcomeContinues ==
    ASSUME Types, NEW s \in Sessions, NEW op \in Evaluations \cup Overrides
    PROVE  /\ Outcome(s, op).record \in LifecycleSessionRecord
           /\ Continues(Outcome(s, op).record, memory[s])
<1> DEFINE current == CurrentRecord(s, op.now)
           next    == Outcome(s, op).record
<1>1. op.now \in Int
  BY CallsHaveTimes
<1>2. memory[s] \in MaybeRecord
  BY DEF Types
<1>3. current \in LifecycleSessionRecord /\ Continues(current, memory[s])
  <2>1. CASE memory[s] = NoRecord
    BY <1>1, <2>1 DEF CurrentRecord, InitialLifecycleRecord, LifecycleSessionRecord,
                      LifecycleStates, Continues
  <2>2. CASE memory[s] # NoRecord
    BY <1>2, <2>2, ContinuesReflexive DEF CurrentRecord, MaybeRecord
  <2> QED
    BY <2>1, <2>2
<1>4. next \in LifecycleSessionRecord /\ Continues(next, current)
  <2>1. CASE op \in Evaluations
    <3>1. /\ op.kind = "evaluate" /\ op.posterior \in Posterior
          /\ op.contradiction \in ContradictionSignal
      BY <2>1, EvaluationsAssumption
    <3>2. Outcome(s, op) =
              EvaluateLifecycleTransition(current, op.posterior, op.now, op.contradiction)
      BY <3>1 DEF Outcome
    <3>3. \/ Outcome(s, op) = Hold(current)
          \/ \E state \in LifecycleStates : Outcome(s, op) = Enter(state, op.now, current)
          \/ Outcome(s, op) = Recover(op.now, current)
      BY <1>3, <3>1, <3>2, EvaluateOutcomes, TierTable DEF LifecycleStates
    <3>4. CASE Outcome(s, op) = Hold(current)
      BY <1>3, <3>4, ContinuesReflexive DEF Hold, MaybeRecord
    <3> QED
      BY <1>1, <1>3, <3>3, <3>4, EnterContinues, RecoverContinues
  <2>2. CASE op \in Overrides
    <3>1. op.kind = "override" /\ op.nextState \in LifecycleStates
      BY <2>2, OverridesAssumption
    <3>2. Outcome(s, op) = Enter(op.nextState, op.now, current)
      BY <3>1 DEF Outcome
    <3> QED
      BY <1>1, <1>3, <3>1, <3>2, EnterContinues
  <2> QED
    BY <2>1, <2>2
<1>5. Continues(next, memory[s])
  BY <1>2, <1>3, <1>4, ContinuesTransitive DEF MaybeRecord
<1> QED
  BY <1>4, <1>5

-----------------------------------------------------------------------------
(* The table *)

\* The highest number in a table without gaps.
LEMMA HighestOfGapless ==
    ASSUME NEW rows, NEW n, Gapless(rows, n)
    PROVE  Max(DOMAIN rows \cup {-1}) = n
<1>1. n \in Nat \cup {-1} /\ DOMAIN rows = 0..n
  BY DEF Gapless
<1>2. /\ n \in (0..n) \cup {-1}
      /\ \A y \in (0..n) \cup {-1} : n >= y
      /\ \A x \in (0..n) \cup {-1} : x >= n => x = n
  BY <1>1
<1> QED
  BY <1>1, <1>2 DEF Max

\* What getLatest answers is a record, or none if the table is empty.
LEMMA LatestIsRecord ==
    ASSUME NEW s \in Sessions, Gapless(snapshots[s], LatestSequence(s))
    PROVE  /\ LatestSequence(s) \in Nat \cup {-1}
           /\ LatestRecord(s) \in MaybeRecord
           /\ LatestSequence(s) = -1 => LatestRecord(s) = NoRecord
<1>1. /\ LatestSequence(s) \in Nat \cup {-1}
      /\ DOMAIN snapshots[s] = 0..LatestSequence(s)
      /\ LatestSequence(s) # -1 => snapshots[s][LatestSequence(s)] \in Row
  BY DEF Gapless
<1>2. LatestRecord(s) = IF LatestSequence(s) = -1 THEN NoRecord
                        ELSE snapshots[s][LatestSequence(s)].record
  BY <1>1 DEF LatestRecord
<1> QED
  BY <1>1, <1>2 DEF MaybeRecord, Row

\* A row that the unique constraint admits is numbered next, becomes the last
\* one and leaves the others as they are.
LEMMA InsertedRow ==
    ASSUME Types, NEW s \in Sessions, Gapless(snapshots[s], LatestSequence(s)),
           NEW sequence \in Nat, sequence <= LatestSequence(s) + 1,
           NEW row \in Row, Insert(s, sequence, row)
    PROVE  /\ sequence = LatestSequence(s) + 1
           /\ LatestSequence(s)' = sequence
           /\ LatestRecord(s)' = row.record
           /\ Gapless(snapshots'[s], sequence)
           /\ snapshots' = [t \in Sessions |-> snapshots'[t]]
           /\ \A t \in Sessions \ {s} : snapshots'[t] = snapshots[t]
           /\ \A q \in DOMAIN snapshots[s] :
                  q \in DOMAIN snapshots'[s] /\ snapshots'[s][q] = snapshots[s][q]
<1> DEFINE n == LatestSequence(s)
           old == snapshots[s]
           new == snapshots'[s]
<1>1. /\ n \in Nat \cup {-1} /\ DOMAIN old = 0..n
      /\ \A q \in 0..n : old[q] \in Row
  BY DEF Gapless
<1>2. sequence \notin 0..n
  BY <1>1 DEF Insert
<1>3. sequence = n + 1
  <2> HIDE DEF n, old
  <2> QED
    BY <1>1, <1>2 DEF n
<1>4. /\ new = WithRow(old, sequence, row)
      /\ snapshots' = [t \in Sessions |-> snapshots'[t]]
      /\ \A t \in Sessions \ {s} : snapshots'[t] = snapshots[t]
  BY DEF Insert, Types
<1>5. /\ DOMAIN new = {sequence} \cup 0..n
      /\ new[sequence] = row
      /\ \A q \in 0..n : new[q] = old[q]
      /\ new = [q \in {sequence} \cup 0..n |-> new[q]]
  <2>1. new = [q \in {sequence} \cup 0..n |-> IF q = sequence THEN row ELSE old[q]]
    BY <1>1, <1>4 DEF WithRow
  <2> HIDE DEF n, old, new
  <2> QED
    BY <1>2, <2>1
<1>6. {sequence} \cup 0..n = 0..sequence
  <2> HIDE DEF n
  <2> QED
    BY <1>1, <1>3
<1>7. Gapless(new, sequence)
  <2> HIDE DEF n, old, new
  <2> QED
    BY <1>1, <1>5, <1>6 DEF Gapless
<1>8. LatestSequence(s)' = sequence
  BY <1>7, HighestOfGapless DEF LatestSequence
<1>9. LatestRecord(s)' = row.record
  BY <1>5, <1>8 DEF LatestRecord
<1> QED
  BY <1>1, <1>3, <1>4, <1>5, <1>7, <1>8, <1>9

\* A session whose rows stay has the same last row.
LEMMA SameRows ==
    ASSUME NEW s, snapshots'[s] = snapshots[s]
    PROVE  LatestSequence(s)' = LatestSequence(s) /\ LatestRecord(s)' = LatestRecord(s)
BY DEF LatestSequence, LatestRecord

-----------------------------------------------------------------------------
(* Types and numbers *)

\* Of a call that has begun every field is there.
LEMMA Begun ==
    ASSUME Types, NEW c \in Calls, calls[c].pc # "idle"
    PROVE  calls[c] \in CallRecord /\ calls[c] # NoCall
BY DEF Types, NoCall

\* A step of one call that leaves the table as it is.
LEMMA CallMoves ==
    ASSUME NInv, UNCHANGED snapshots,
           memory' \in [Sessions -> MaybeRecord], recovered' \subseteq Sessions,
           nextSequence' \in [Sessions -> Nat],
           \A s \in Sessions : nextSequence'[s] <= LatestSequence(s) + 1,
           acknowledged' \in [Sessions -> MaybeRecord],
           NEW c \in Calls, NEW call \in CallRecord \cup {NoCall},
           calls' = [calls EXCEPT ![c] = call],
           \A s \in Sessions :
               call # NoCall /\ call.session = s => Numbered(call, LatestSequence(s))
    PROVE  NInv'
<1>1. \A s : LatestSequence(s)' = LatestSequence(s)
  BY DEF LatestSequence
<1>2. Types'
  BY DEF NInv, Types
<1>3. \A s \in Sessions : Gapless(snapshots[s], LatestSequence(s))'
  BY <1>1 DEF NInv, Gapless
<1>4. \A s \in Sessions : nextSequence'[s] <= LatestSequence(s)' + 1
  BY <1>1
<1>5. ASSUME NEW d \in Calls, NEW s \in Sessions, calls'[d] # NoCall, calls'[d].session = s
      PROVE  Numbered(calls[d], LatestSequence(s))'
  <2>1. Numbered(calls'[d], LatestSequence(s))
    BY <1>5 DEF NInv, Types
  <2> QED
    BY <1>1, <2>1 DEF Numbered
<1> QED
  BY <1>2, <1>3, <1>4, <1>5 DEF NInv

\* What a row added by a call does to the table.
LEMMA CallAddsRow ==
    ASSUME NInv, NEW c \in Calls, calls[c].pc \in { "saving", "orphaned" },
           NEW s \in Sessions, s = calls[c].session,
           Insert(calls[c].session, calls[c].sequence, RowOf(c))
    PROVE  /\ calls[c].sequence = LatestSequence(s) + 1
           /\ LatestSequence(s)' = calls[c].sequence
           /\ LatestRecord(s)' = calls[c].result
           /\ Gapless(snapshots'[s], calls[c].sequence)
           /\ snapshots' = [t \in Sessions |-> snapshots'[t]]
           /\ \A t \in Sessions \ {s} : snapshots'[t] = snapshots[t]
           /\ \A q \in DOMAIN snapshots[s] :
                  q \in DOMAIN snapshots'[s] /\ snapshots'[s][q] = snapshots[s][q]
           /\ calls[c].result \in LifecycleSessionRecord
           /\ LatestSequence(s) \in Nat \cup {-1}
<1> DEFINE sequence == calls[c].sequence
           row == RowOf(c)
<1>1. /\ calls[c] \in CallRecord /\ calls[c] # NoCall
      /\ Types /\ Gapless(snapshots[s], LatestSequence(s))
  BY Begun DEF NInv
<1>2. /\ sequence \in Nat /\ sequence <= LatestSequence(s) + 1
      /\ calls[c].result \in LifecycleSessionRecord
  BY <1>1 DEF NInv, Numbered
<1>3. row \in Row /\ row.record = calls[c].result
  BY <1>2 DEF RowOf, Row
<1>4. Insert(s, sequence, row)
  OBVIOUS
<1>5. LatestSequence(s) \in Nat \cup {-1}
  BY <1>1, LatestIsRecord
<1> HIDE DEF sequence, row
<1>6. /\ sequence = LatestSequence(s) + 1
      /\ LatestSequence(s)' = sequence
      /\ LatestRecord(s)' = row.record
      /\ Gapless(snapshots'[s], sequence)
      /\ snapshots' = [t \in Sessions |-> snapshots'[t]]
      /\ \A t \in Sessions \ {s} : snapshots'[t] = snapshots[t]
      /\ \A q \in DOMAIN snapshots[s] :
             q \in DOMAIN snapshots'[s] /\ snapshots'[s][q] = snapshots[s][q]
  BY <1>1, <1>2, <1>3, <1>4, InsertedRow
<1> QED
  BY <1>2, <1>3, <1>5, <1>6 DEF sequence

\* A step of one call in which its row is added.
LEMMA RowAdded ==
    ASSUME NInv, UNCHANGED << memory, recovered, nextSequence, acknowledged >>,
           NEW c \in Calls, calls[c].pc \in { "saving", "orphaned" },
           Insert(calls[c].session, calls[c].sequence, RowOf(c)),
           NEW call \in CallRecord \cup {NoCall},
           calls' = [calls EXCEPT ![c] = call],
           call.pc = "saved" \/ call.pc = "failed" \/ call = NoCall,
           call # NoCall => call.session = calls[c].session /\ call.sequence = calls[c].sequence
                            /\ call.result = calls[c].result
    PROVE  NInv'
<1>0. calls[c] \in CallRecord
  BY Begun DEF NInv
<1>1. PICK s \in Sessions : s = calls[c].session
  BY <1>0 DEF CallRecord
<1>2. /\ calls[c].sequence = LatestSequence(s) + 1
      /\ LatestSequence(s)' = calls[c].sequence
      /\ Gapless(snapshots'[s], calls[c].sequence)
      /\ snapshots' = [t \in Sessions |-> snapshots'[t]]
      /\ \A t \in Sessions \ {s} : snapshots'[t] = snapshots[t]
      /\ calls[c].result \in LifecycleSessionRecord
  BY <1>1, CallAddsRow
<1>3. ASSUME NEW t \in Sessions
      PROVE  /\ LatestSequence(t) \in Nat \cup {-1} /\ LatestSequence(t)' \in Nat \cup {-1}
             /\ LatestSequence(t) <= LatestSequence(t)'
             /\ Gapless(snapshots'[t], LatestSequence(t)')
  <2>1. LatestSequence(t) \in Nat \cup {-1} /\ Gapless(snapshots[t], LatestSequence(t))
    BY LatestIsRecord DEF NInv
  <2>2. CASE t # s
    BY <1>2, <2>1, <2>2, SameRows
  <2>3. CASE t = s
    <3>1. LatestSequence(t)' = LatestSequence(t) + 1 /\ Gapless(snapshots'[t], LatestSequence(t)')
      BY <1>2, <2>3
    <3> QED
      BY <2>1, <3>1
  <2> QED
    BY <2>2, <2>3
<1>4. Types'
  BY <1>2 DEF NInv, Types
<1>5. \A t \in Sessions : nextSequence'[t] <= LatestSequence(t)' + 1
  <2> SUFFICES ASSUME NEW t \in Sessions PROVE nextSequence[t] <= LatestSequence(t)' + 1
    OBVIOUS
  <2>1. nextSequence[t] \in Nat /\ nextSequence[t] <= LatestSequence(t) + 1
    BY DEF NInv, Types
  <2> QED
    BY <1>3, <2>1
<1>6. ASSUME NEW d \in Calls, NEW t \in Sessions, calls'[d] # NoCall, calls'[d].session = t
      PROVE  Numbered(calls[d], LatestSequence(t))'
  <2>1. CASE d = c
    <3>1. /\ calls'[d] = call /\ call # NoCall /\ t = s
      BY <1>1, <1>6, <2>1 DEF NInv, Types
    <3>2. /\ call.pc \notin { "restoring", "saving", "orphaned" }
          /\ call.sequence = LatestSequence(t)' /\ call.result \in LifecycleSessionRecord
      BY <1>2, <3>1 DEF NoCall
    <3>3. call.sequence \in Nat
      BY <1>2, <1>3, <3>1 DEF NInv, Numbered
    <3>4. Numbered(call, LatestSequence(t)')
      BY <3>2, <3>3 DEF Numbered
    <3> QED
      BY <3>1, <3>4 DEF Numbered
  <2>2. CASE d # c
    <3>1. calls'[d] = calls[d] /\ calls[d] \in CallRecord
      BY <1>6, <2>2 DEF NInv, Types
    <3>2. Numbered(calls[d], LatestSequence(t)) /\ calls[d].sequence \in Nat \cup {-1}
      BY <1>6, <3>1 DEF NInv, CallRecord
    <3>3. Numbered(calls[d], LatestSequence(t)')
      BY <1>3, <3>2 DEF Numbered
    <3> QED
      BY <3>1, <3>3 DEF Numbered
  <2> QED
    BY <2>1, <2>2
<1> QED
  BY <1>3, <1>4, <1>5, <1>6 DEF NInv, Gapless

\* The table is left alone and the maps of the replica too.
LEMMA OnlyCallMoves ==
    ASSUME NInv, UNCHANGED << memory, recovered, nextSequence, snapshots, acknowledged >>,
           NEW c \in Calls, NEW call \in CallRecord \cup {NoCall},
           calls' = [calls EXCEPT ![c] = call],
           \A s \in Sessions :
               call # NoCall /\ call.session = s => Numbered(call, LatestSequence(s))
    PROVE  NInv'
<1>1. /\ memory' \in [Sessions -> MaybeRecord] /\ recovered' \subseteq Sessions
      /\ nextSequence' \in [Sessions -> Nat] /\ acknowledged' \in [Sessions -> MaybeRecord]
      /\ \A s \in Sessions : nextSequence'[s] <= LatestSequence(s) + 1
  BY DEF NInv, Types
<1> QED
  BY <1>1, CallMoves

\* An empty table is numbered from 0 to -1.
LEMMA InitialNumbers == StoreInit => NInv
<1> SUFFICES ASSUME StoreInit PROVE NInv
  OBVIOUS
<1>1. ASSUME NEW s \in Sessions
      PROVE  Gapless(snapshots[s], LatestSequence(s)) /\ LatestSequence(s) = -1
  <2>1. DOMAIN snapshots[s] = {} /\ snapshots[s] = << >> /\ 0..(-1) = {}
    BY DEF StoreInit
  <2>2. snapshots[s] = [q \in 0..(-1) |-> snapshots[s][q]]
    BY <2>1
  <2>3. Gapless(snapshots[s], -1)
    BY <2>1, <2>2 DEF Gapless
  <2>4. LatestSequence(s) = -1
    BY <2>3, HighestOfGapless DEF LatestSequence
  <2> QED
    BY <2>3, <2>4
<1>2. Types
  BY DEF StoreInit, Types, MaybeRecord
<1>3. \A s \in Sessions : nextSequence[s] <= LatestSequence(s) + 1
  BY <1>1 DEF StoreInit
<1> QED
  BY <1>1, <1>2, <1>3 DEF NInv, StoreInit

\* A call that begins has no number yet.
LEMMA BeginNumbers ==
    ASSUME NInv, NEW c \in Calls, NEW s \in Sessions, NEW op \in Evaluations \cup Overrides,
           Begin(c, s, op)
    PROVE  NInv'
<1> DEFINE call == [pc       |-> IF s \in recovered THEN "acting" ELSE "loading",
                    session  |-> s,
                    op       |-> op,
                    loaded   |-> NoRecord,
                    result   |-> NoRecord,
                    sequence |-> -1]
<1>1. call \in CallRecord
  BY DEF CallRecord
<1>2. /\ calls' = [calls EXCEPT ![c] = call]
      /\ UNCHANGED << memory, recovered, nextSequence, snapshots, acknowledged >>
  BY DEF Begin
<1>3. \A latest : Numbered(call, latest)
  BY DEF Numbered
<1> HIDE DEF call
<1> QED
  BY <1>1, <1>2, <1>3, OnlyCallMoves

\* The number a load reports is that of the last row.
LEMMA LoadLatestNumbers ==
    ASSUME NInv, NEW c \in Calls, LoadLatest(c) PROVE NInv'
<1>1. calls[c] \in CallRecord /\ Types
  BY Begun DEF LoadLatest, NInv
<1>2. PICK s \in Sessions : s = calls[c].session
  BY <1>1 DEF CallRecord
<1> DEFINE call == [calls[c] EXCEPT !.pc = "restoring", !.loaded = LatestRecord(s),
                                    !.sequence = LatestSequence(s)]
<1>3. /\ calls' = [calls EXCEPT ![c] = call]
      /\ UNCHANGED << memory, recovered, nextSequence, snapshots, acknowledged >>
  BY <1>1, <1>2 DEF LoadLatest, Types
<1>4. LatestSequence(s) \in Nat \cup {-1} /\ LatestRecord(s) \in MaybeRecord
  BY LatestIsRecord DEF NInv
<1>5. /\ call \in CallRecord /\ call.session = s /\ call.pc = "restoring"
      /\ call.sequence = LatestSequence(s)
  BY <1>1, <1>2, <1>4 DEF CallRecord, MaybeRecord
<1> HIDE DEF call
<1>6. Numbered(call, LatestSequence(s))
  BY <1>4, <1>5 DEF Numbered
<1> QED
  BY <1>3, <1>5, <1>6, OnlyCallMoves

\* Recovery sets the cursor behind the row it read, at the end at most.
LEMMA RestoreNumbers ==
    ASSUME NInv, NEW c \in Calls, Restore(c) PROVE NInv'
<1>1. calls[c] \in CallRecord /\ Types /\ calls[c].pc = "restoring" /\ calls[c] # NoCall
  BY Begun DEF Restore, NInv
<1>2. PICK s \in Sessions : s = calls[c].session
  BY <1>1 DEF CallRecord
<1> DEFINE call == [calls[c] EXCEPT !.pc = "acting", !.loaded = NoRecord, !.sequence = -1]
<1>3. calls' = [calls EXCEPT ![c] = call] /\ UNCHANGED << snapshots, acknowledged >>
  BY <1>1, <1>2 DEF Restore, Types
<1>4. call \in CallRecord /\ call.pc = "acting"
  BY <1>1 DEF CallRecord
<1>5. /\ calls[c].sequence \in Nat \cup {-1} /\ calls[c].loaded \in MaybeRecord
      /\ calls[c].sequence <= LatestSequence(s)
      /\ LatestSequence(s) \in Nat \cup {-1}
  BY <1>1, <1>2, LatestIsRecord DEF NInv, Numbered, CallRecord, MaybeRecord
<1>6. memory' \in [Sessions -> MaybeRecord] /\ recovered' \subseteq Sessions
  BY <1>1, <1>2, <1>5 DEF Restore, Types
<1>7. nextSequence' = [nextSequence EXCEPT ![s] = calls[c].sequence + 1]
  BY <1>2 DEF Restore
<1>8. nextSequence' \in [Sessions -> Nat]
  BY <1>1, <1>5, <1>7 DEF Types
<1>9. ASSUME NEW t \in Sessions PROVE nextSequence'[t] <= LatestSequence(t) + 1
  <2>1. CASE t = s
    BY <1>1, <1>5, <1>7, <2>1 DEF Types
  <2>2. CASE t # s
    BY <1>1, <1>7, <2>2 DEF NInv, Types
  <2> QED
    BY <2>1, <2>2
<1> HIDE DEF call
<1>10. \A latest : Numbered(call, latest)
  BY <1>4 DEF Numbered
<1>11. acknowledged' \in [Sessions -> MaybeRecord]
  BY <1>3 DEF NInv, Types
<1> QED
  BY <1>3, <1>4, <1>6, <1>8, <1>9, <1>10, <1>11, CallMoves

\* A change is numbered by the cursor.
LEMMA ActNumbers ==
    ASSUME NInv, NEW c \in Calls, Act(c) PROVE NInv'
<1>1. calls[c] \in CallRecord /\ Types /\ calls[c].pc = "acting"
  BY Begun DEF Act, NInv
<1>2. PICK s \in Sessions : s = calls[c].session
  BY <1>1 DEF CallRecord
<1>3. PICK op \in Evaluations \cup Overrides : op = calls[c].op
  BY <1>1 DEF CallRecord
<1> DEFINE result == Outcome(s, op)
           pc == IF result.transitioned THEN "saving" ELSE "returned"
           sequence == IF result.transitioned THEN nextSequence[s] ELSE -1
           call == [calls[c] EXCEPT !.pc = pc, !.result = result.record, !.sequence = sequence]
<1>4. /\ calls' = [calls EXCEPT ![c] = call]
      /\ memory' = [memory EXCEPT ![s] = result.record]
      /\ UNCHANGED << recovered, nextSequence, snapshots, acknowledged >>
  BY <1>1, <1>2, <1>3 DEF Act, Types
<1>5. /\ nextSequence[s] \in Nat /\ nextSequence[s] <= LatestSequence(s) + 1
      /\ result.record \in LifecycleSessionRecord
  BY <1>1, OutcomeContinues DEF NInv, Types
<1>6. /\ pc \in { "saving", "returned" }
      /\ pc = "saving" => sequence = nextSequence[s]
      /\ pc = "returned" => sequence = -1
  OBVIOUS
<1> HIDE DEF pc, sequence, result
<1>7. /\ call \in CallRecord /\ call.session = s /\ call.pc = pc
      /\ call.sequence = sequence /\ call.result = result.record
  BY <1>1, <1>2, <1>5, <1>6 DEF CallRecord
<1> HIDE DEF call
<1>8. Numbered(call, LatestSequence(s))
  BY <1>5, <1>6, <1>7 DEF Numbered
<1>9. /\ memory' \in [Sessions -> MaybeRecord] /\ recovered' \subseteq Sessions
      /\ nextSequence' \in [Sessions -> Nat] /\ acknowledged' \in [Sessions -> MaybeRecord]
      /\ \A t \in Sessions : nextSequence'[t] <= LatestSequence(t) + 1
  BY <1>4, <1>5 DEF NInv, Types, MaybeRecord
<1> QED
  BY <1>4, <1>7, <1>8, <1>9, CallMoves

\* Rows go in behind the last one, or not at all.
LEMMA SaveNumbers ==
    ASSUME NInv, NEW c \in Calls, Save(c) \/ LoseReply(c) PROVE NInv'
<1>1. /\ calls[c] \in CallRecord /\ Types /\ calls[c].pc = "saving"
      /\ UNCHANGED << memory, recovered, nextSequence, acknowledged >>
  BY Begun DEF Save, LoseReply, NInv
<1>2. PICK pc \in { "saved", "failed", "collided" } :
          /\ calls' = [calls EXCEPT ![c] = [calls[c] EXCEPT !.pc = pc]]
          /\ \/ /\ pc \in { "saved", "failed" }
                /\ Insert(calls[c].session, calls[c].sequence, RowOf(c))
             \/ pc = "collided" /\ UNCHANGED snapshots
  BY DEF Save, LoseReply, Goto
<1> DEFINE call == [calls[c] EXCEPT !.pc = pc]
<1>3. /\ call \in CallRecord /\ call.pc = pc /\ call.session = calls[c].session
      /\ call.sequence = calls[c].sequence /\ call.result = calls[c].result
  BY <1>1 DEF CallRecord
<1>4. calls' = [calls EXCEPT ![c] = call]
  BY <1>2
<1> HIDE DEF call
<1>5. CASE pc = "collided" /\ UNCHANGED snapshots
  <2>1. \A latest : Numbered(call, latest)
    BY <1>3, <1>5 DEF Numbered
  <2> QED
    BY <1>1, <1>3, <1>4, <1>5, <2>1, OnlyCallMoves
<1>6. CASE pc \in { "saved", "failed" } /\ Insert(calls[c].session, calls[c].sequence, RowOf(c))
  BY <1>1, <1>3, <1>4, <1>6, RowAdded
<1> QED
  BY <1>2, <1>5, <1>6

\* The cursor moves behind a row that is in the table.
LEMMA AdvanceNumbers ==
    ASSUME NInv, NEW c \in Calls, Advance(c) PROVE NInv'
<1>1. calls[c] \in CallRecord /\ Types /\ calls[c].pc = "saved" /\ calls[c] # NoCall
  BY Begun DEF Advance, NInv
<1>2. PICK s \in Sessions : s = calls[c].session
  BY <1>1 DEF CallRecord
<1> DEFINE call == [calls[c] EXCEPT !.pc = "returned"]
<1>3. /\ calls' = [calls EXCEPT ![c] = call]
      /\ nextSequence' = [nextSequence EXCEPT ![s] = calls[c].sequence + 1]
      /\ acknowledged' = [acknowledged EXCEPT ![s] = calls[c].result]
      /\ UNCHANGED << memory, recovered, snapshots >>
  BY <1>2 DEF Advance, Goto
<1>4. /\ calls[c].sequence \in Nat /\ calls[c].sequence <= LatestSequence(s)
      /\ calls[c].result \in LifecycleSessionRecord
      /\ LatestSequence(s) \in Nat \cup {-1}
  BY <1>1, <1>2, LatestIsRecord DEF NInv, Numbered
<1>5. call \in CallRecord /\ call.pc = "returned"
  BY <1>1 DEF CallRecord
<1> HIDE DEF call
<1>6. \A latest : Numbered(call, latest)
  BY <1>5 DEF Numbered
<1>7. /\ memory' \in [Sessions -> MaybeRecord] /\ recovered' \subseteq Sessions
      /\ nextSequence' \in [Sessions -> Nat] /\ acknowledged' \in [Sessions -> MaybeRecord]
  BY <1>1, <1>3, <1>4 DEF Types, MaybeRecord
<1>8. ASSUME NEW t \in Sessions PROVE nextSequence'[t] <= LatestSequence(t) + 1
  <2>1. CASE t = s
    BY <1>1, <1>3, <1>4, <2>1 DEF Types
  <2>2. CASE t # s
    BY <1>1, <1>3, <2>2 DEF NInv, Types
  <2> QED
    BY <2>1, <2>2
<1> QED
  BY <1>3, <1>5, <1>6, <1>7, <1>8, CallMoves

\* A refused query, and a settled promise.
LEMMA EndNumbers ==
    ASSUME NInv, NEW c \in Calls, Fail(c) \/ Settle(c) PROVE NInv'
<1>1. /\ calls[c] \in CallRecord
      /\ UNCHANGED << memory, recovered, nextSequence, snapshots, acknowledged >>
  BY Begun DEF Fail, Settle, Settled, NInv
<1>2. CASE Fail(c)
  <2> DEFINE call == [calls[c] EXCEPT !.pc = "failed"]
  <2>1. calls' = [calls EXCEPT ![c] = call]
    BY <1>2 DEF Fail, Goto
  <2>2. call \in CallRecord /\ call.pc = "failed"
    BY <1>1 DEF CallRecord
  <2> HIDE DEF call
  <2>3. \A latest : Numbered(call, latest)
    BY <2>2 DEF Numbered
  <2> QED
    BY <1>1, <2>1, <2>2, <2>3, OnlyCallMoves
<1>3. CASE Settle(c)
  BY <1>1, <1>3, OnlyCallMoves DEF Settle
<1> QED
  BY <1>2, <1>3

\* So do the inserts of a lost process.
LEMMA OrphanSaveNumbers ==
    ASSUME NInv, NEW c \in Calls, OrphanSave(c) PROVE NInv'
<1>1. /\ calls[c].pc = "orphaned" /\ calls' = [calls EXCEPT ![c] = NoCall]
      /\ UNCHANGED << memory, recovered, nextSequence, acknowledged >>
  BY DEF OrphanSave
<1>2. CASE Insert(calls[c].session, calls[c].sequence, RowOf(c))
  BY <1>1, <1>2, RowAdded
<1>3. CASE UNCHANGED snapshots
  BY <1>1, <1>3, OnlyCallMoves
<1> QED
  BY <1>2, <1>3 DEF OrphanSave

\* What the loss of the process leaves: the table, and inserts under way.
LEMMA CrashNumbers ==
    ASSUME NInv, NEW orphans \in SUBSET Calls, Crash(orphans) PROVE NInv'
<1>1. /\ UNCHANGED << snapshots, acknowledged >>
      /\ memory' = [s \in Sessions |-> NoRecord] /\ recovered' = {}
      /\ nextSequence' = [s \in Sessions |-> 0]
  BY DEF Crash
<1>2. ASSUME NEW d \in Calls
      PROVE  /\ calls'[d] \in CallRecord \cup {NoCall}
             /\ calls'[d] # NoCall =>
                    /\ calls[d] \in CallRecord /\ calls[d] # NoCall
                    /\ calls[d].pc \in { "saving", "orphaned" }
                    /\ calls'[d].pc = "orphaned" /\ calls'[d].session = calls[d].session
                    /\ calls'[d].sequence = calls[d].sequence
                    /\ calls'[d].result = calls[d].result
  <2>1. calls'[d] = IF d \in orphans THEN [calls[d] EXCEPT !.pc = "orphaned"]
                    ELSE IF calls[d].pc = "orphaned" THEN calls[d] ELSE NoCall
    BY DEF Crash
  <2>2. CASE d \in orphans
    <3>1. calls[d].pc = "saving" /\ calls[d] \in CallRecord /\ calls[d] # NoCall
      BY <2>2, Begun DEF Crash, NInv
    <3>2. calls'[d] = [calls[d] EXCEPT !.pc = "orphaned"]
      BY <2>1, <2>2
    <3> QED
      BY <3>1, <3>2 DEF CallRecord
  <2>3. CASE d \notin orphans /\ calls[d].pc = "orphaned"
    BY <2>1, <2>3, Begun DEF NInv
  <2>4. CASE d \notin orphans /\ calls[d].pc # "orphaned"
    BY <2>1, <2>4
  <2> QED
    BY <2>2, <2>3, <2>4
<1>3. calls' \in [Calls -> CallRecord \cup {NoCall}]
  <2>1. calls' = [d \in Calls |-> calls'[d]]
    BY DEF Crash
  <2> QED
    BY <1>2, <2>1
<1>4. Types'
  BY <1>1, <1>3 DEF NInv, Types, MaybeRecord
<1>5. ASSUME NEW s \in Sessions
      PROVE  /\ LatestSequence(s)' = LatestSequence(s) /\ LatestSequence(s) \in Nat \cup {-1}
             /\ Gapless(snapshots'[s], LatestSequence(s)')
             /\ nextSequence'[s] <= LatestSequence(s)' + 1
  <2>1. LatestSequence(s)' = LatestSequence(s)
    BY <1>1, SameRows
  <2>2. LatestSequence(s) \in Nat \cup {-1} /\ Gapless(snapshots[s], LatestSequence(s))
    BY LatestIsRecord DEF NInv
  <2> QED
    BY <1>1, <2>1, <2>2
<1>6. ASSUME NEW d \in Calls, NEW s \in Sessions, calls'[d] # NoCall, calls'[d].session = s
      PROVE  Numbered(calls[d], LatestSequence(s))'
  <2>1. Numbered(calls[d], LatestSequence(s))
    BY <1>2, <1>6 DEF NInv
  <2>2. Numbered(calls'[d], LatestSequence(s))
    BY <1>2, <1>6, <2>1 DEF Numbered
  <2> QED
    BY <1>5, <2>2 DEF Numbered
<1> QED
  BY <1>4, <1>5, <1>6 DEF NInv, Gapless

\* Nothing moves but the counters of faults.
LEMMA StutterNumbers ==
    ASSUME NInv, UNCHANGED << memory, recovered, nextSequence, snapshots, calls, acknowledged >>
    PROVE  NInv'
<1>1. \A s : LatestSequence(s)' = LatestSequence(s)
  BY DEF LatestSequence
<1>2. Types'
  BY DEF NInv, Types
<1>3. \A s \in Sessions : Gapless(snapshots[s], LatestSequence(s))'
  BY <1>1 DEF NInv, Gapless
<1>4. \A s \in Sessions : (nextSequence[s] <= LatestSequence(s) + 1)'
  BY <1>1 DEF NInv
<1>5. \A c \in Calls, s \in Sessions :
          (calls[c] # NoCall /\ calls[c].session = s => Numbered(calls[c], LatestSequence(s)))'
  BY <1>1 DEF NInv, Numbered
<1> QED
  BY <1>2, <1>3, <1>4, <1>5 DEF NInv

\* Whatever fails, crashes or overlaps: the types hold, and the rows of every
\* session are numbered without a gap (save of sessionSnapshotRepository.ts
\* with the cursor of sessionLifecycleStore.ts).
THEOREM StoreInvariance == StoreSpec => []NInv
<1>1. NInv /\ [StoreNext]_storeVars => NInv'
  <2> SUFFICES ASSUME NInv, [StoreNext]_storeVars PROVE NInv'
    OBVIOUS
  <2>1. ASSUME NEW c \in Calls, NEW s \in Sessions, NEW op \in Evaluations \cup Overrides,
               NewCall(c, s, op)
        PROVE  NInv'
    BY <2>1, BeginNumbers DEF NewCall
  <2>2. ASSUME NEW c \in Calls, CallStep(c) \/ Settle(c) PROVE NInv'
    BY <2>2, LoadLatestNumbers, RestoreNumbers, ActNumbers, SaveNumbers, AdvanceNumbers,
       EndNumbers, OrphanSaveNumbers DEF CallStep
  <2>3. ASSUME NEW orphans \in SUBSET Calls, Crash(orphans) PROVE NInv'
    BY <2>3, CrashNumbers
  <2>4. CASE UNCHANGED storeVars
    BY <2>4, StutterNumbers DEF storeVars
  <2> QED
    BY <2>1, <2>2, <2>3, <2>4 DEF StoreNext
<1> QED
  BY InitialNumbers, <1>1, PTL DEF StoreSpec

\* Every variable has its type, and the row with the highest number is the
\* last one written, which getLatest relies on.
THEOREM StoreTypeCorrect == StoreSpec => []StoreTypeOK
<1>1. NInv => StoreTypeOK
  BY DEF NInv, Types, Gapless, MaybeRecord, StoreTypeOK
<1> QED
  BY <1>1, StoreInvariance, PTL

-----------------------------------------------------------------------------
(* The audit trail *)

\* Memory may go on: it still continues what the calls carry.
LEMMA MemoryGoesOn ==
    ASSUME NEW call \in CallRecord, NEW latest \in Nat \cup {-1},
           NEW record \in MaybeRecord, NEW held \in MaybeRecord, NEW later \in MaybeRecord,
           Faithful(call, latest, record, held), Continues(later, held)
    PROVE  Faithful(call, latest, record, later)
<1>1. call.result \in MaybeRecord
  BY DEF CallRecord, MaybeRecord
<1>2. call.pc = "saving" /\ call.sequence = latest + 1 => Continues(later, call.result)
  BY <1>1, ContinuesTransitive DEF Faithful
<1>3. call.pc = "saved" /\ call.sequence = latest => Continues(later, record)
  BY ContinuesTransitive DEF Faithful
<1> QED
  BY <1>2, <1>3 DEF Faithful

\* So may the table, by a row that continues the last: a call whose number was
\* the next one has lost it.
LEMMA TableGoesOn ==
    ASSUME NEW call \in CallRecord, NEW latest \in Nat \cup {-1},
           NEW record \in MaybeRecord, NEW held \in MaybeRecord, NEW later \in MaybeRecord,
           Faithful(call, latest, record, held), Numbered(call, latest),
           Continues(later, record)
    PROVE  Faithful(call, latest + 1, later, held)
<1>1. call.result \in MaybeRecord /\ call.sequence \in Nat \cup {-1}
  BY DEF CallRecord, MaybeRecord
<1>2. call.pc = "saved" => Continues(later, call.result)
  BY <1>1, ContinuesTransitive DEF Faithful
<1>3. /\ call.pc \in { "restoring", "saved" } => call.sequence # latest + 1
      /\ call.pc \in { "saving", "orphaned" } => call.sequence # latest + 2
  BY <1>1 DEF Numbered
<1>4. latest + 1 + 1 = latest + 2
  OBVIOUS
<1> QED
  BY <1>2, <1>3, <1>4 DEF Faithful

\* A call that goes on in its session, or ends, leaves who recovers and who is
\* alone as it was.
LEMMA CallGoesOn ==
    ASSUME NInv, TInv, UNCHANGED recovered,
           NEW c \in Calls, NEW call \in CallRecord \cup {NoCall},
           calls' = [calls EXCEPT ![c] = call],
           \/ call = NoCall
           \/ /\ call.session = calls[c].session
              /\ calls[c].pc \notin { "idle", "orphaned" }
              /\ call.pc \in { "loading", "restoring" } =>
                     calls[c].pc \in { "loading", "restoring" }
              /\ call.pc \in { "acting", "saving", "saved" } =>
                     calls[c].pc \in { "acting", "saving", "saved" }
    PROVE  (\A d \in Calls : Recovering(d)) ' /\ (\A d, e \in Calls : Alone(d, e)) '
<1>1. \A d \in Calls : calls'[d] = IF d = c THEN call ELSE calls[d]
  BY DEF NInv, Types
<1>2. ASSUME NEW d \in Calls PROVE Recovering(d)'
  <2>1. CASE d # c
    BY <1>1, <2>1 DEF TInv, Recovering
  <2>2. CASE d = c
    BY <1>1, <2>2 DEF TInv, Recovering, NoCall
  <2> QED
    BY <2>1, <2>2
<1>3. ASSUME NEW d \in Calls, NEW e \in Calls PROVE Alone(d, e)'
  <2>1. Alone(d, e)
    BY DEF TInv
  <2> QED
    BY <1>1, <2>1 DEF Alone, NoCall
<1> QED
  BY <1>2, <1>3

\* A step of one call that leaves the maps and the table alone.
LEMMA OnlyCallGoesOn ==
    ASSUME NInv, TInv, UNCHANGED << memory, recovered, nextSequence, snapshots, acknowledged >>,
           NEW c \in Calls, NEW call \in CallRecord \cup {NoCall},
           calls' = [calls EXCEPT ![c] = call],
           \/ call = NoCall
           \/ /\ call.session = calls[c].session
              /\ calls[c].pc \notin { "idle", "orphaned" }
              /\ call.pc \in { "loading", "restoring" } =>
                     calls[c].pc \in { "loading", "restoring" }
              /\ call.pc \in { "acting", "saving", "saved" } =>
                     calls[c].pc \in { "acting", "saving", "saved" },
           \A s \in Sessions : call # NoCall /\ call.session = s =>
               Faithful(call, LatestSequence(s), LatestRecord(s), memory[s])
    PROVE  TInv'
<1>1. \A s : LatestSequence(s)' = LatestSequence(s) /\ LatestRecord(s)' = LatestRecord(s)
  BY DEF LatestSequence, LatestRecord
<1>2. (\A d \in Calls : Recovering(d)) ' /\ (\A d, e \in Calls : Alone(d, e)) '
  BY CallGoesOn
<1>3. ASSUME NEW d \in Calls, NEW s \in Sessions, calls'[d] # NoCall, calls'[d].session = s
      PROVE  Faithful(calls[d], LatestSequence(s), LatestRecord(s), memory[s])'
  <2>1. Faithful(calls'[d], LatestSequence(s), LatestRecord(s), memory[s])
    BY <1>3 DEF NInv, Types, TInv
  <2> QED
    BY <1>1, <2>1 DEF Faithful, Continues
<1>4. \A s \in Sessions : Current(s)'
  BY <1>1 DEF TInv, Current, Continues
<1> QED
  BY <1>2, <1>3, <1>4 DEF TInv

\* A row added by a call: its number was the next one, so it continues the
\* last row, and memory continues it unless the call is an orphan.
LEMMA AddedRowGoesOn ==
    ASSUME NInv, TInv, UNCHANGED << memory, recovered, nextSequence, acknowledged >>,
           NEW c \in Calls, calls[c].pc \in { "saving", "orphaned" },
           Insert(calls[c].session, calls[c].sequence, RowOf(c)),
           NEW call \in CallRecord \cup {NoCall},
           calls' = [calls EXCEPT ![c] = call],
           \/ call = NoCall
           \/ /\ calls[c].pc = "saving" /\ call.pc \in { "saved", "failed" }
              /\ call.session = calls[c].session /\ call.result = calls[c].result
    PROVE  TInv'
<1>0. calls[c] \in CallRecord /\ calls[c] # NoCall
  BY Begun DEF NInv
<1>1. PICK s \in Sessions : s = calls[c].session
  BY <1>0 DEF CallRecord
<1>2. /\ calls[c].sequence = LatestSequence(s) + 1
      /\ LatestSequence(s)' = calls[c].sequence
      /\ LatestRecord(s)' = calls[c].result
      /\ \A t \in Sessions \ {s} : snapshots'[t] = snapshots[t]
      /\ calls[c].result \in LifecycleSessionRecord
      /\ LatestSequence(s) \in Nat \cup {-1}
  BY <1>1, CallAddsRow
<1>3. /\ LatestRecord(s) \in MaybeRecord /\ calls[c].result \in MaybeRecord
      /\ memory[s] \in MaybeRecord /\ acknowledged[s] \in MaybeRecord
  BY <1>2, LatestIsRecord DEF NInv, Types, MaybeRecord
<1>4. /\ Continues(calls[c].result, LatestRecord(s))
      /\ calls[c].pc = "saving" => Continues(memory[s], calls[c].result)
  <2>1. Faithful(calls[c], LatestSequence(s), LatestRecord(s), memory[s])
    BY <1>0, <1>1 DEF TInv
  <2> QED
    BY <1>2, <2>1 DEF Faithful
<1>5. ASSUME NEW t \in Sessions \ {s}
      PROVE  LatestSequence(t)' = LatestSequence(t) /\ LatestRecord(t)' = LatestRecord(t)
  BY <1>2, SameRows
<1>6. (\A d \in Calls : Recovering(d)) ' /\ (\A d, e \in Calls : Alone(d, e)) '
  BY CallGoesOn
<1>7. ASSUME NEW d \in Calls, NEW t \in Sessions, calls'[d] # NoCall, calls'[d].session = t
      PROVE  Faithful(calls[d], LatestSequence(t), LatestRecord(t), memory[t])'
  <2>1. CASE d = c
    <3>1. calls'[d] = call /\ call # NoCall /\ t = s
      BY <1>1, <1>7, <2>1 DEF NInv, Types
    <3>2. /\ call.pc \in { "saved", "failed" } /\ call.result = calls[c].result
          /\ Continues(memory[s], calls[c].result)
          /\ Continues(calls[c].result, calls[c].result)
      BY <1>3, <1>4, <3>1, ContinuesReflexive
    <3>3. Faithful(call, LatestSequence(s)', LatestRecord(s)', memory[s])
      BY <1>2, <3>2 DEF Faithful
    <3> QED
      BY <3>1, <3>3 DEF Faithful, Continues
  <2>2. CASE d # c
    <3>1. calls'[d] = calls[d] /\ calls[d] \in CallRecord
      BY <1>7, <2>2 DEF NInv, Types
    <3>2. /\ Faithful(calls[d], LatestSequence(t), LatestRecord(t), memory[t])
          /\ Numbered(calls[d], LatestSequence(t))
      BY <1>7, <3>1 DEF TInv, NInv
    <3>3. Faithful(calls[d], LatestSequence(t)', LatestRecord(t)', memory[t])
      <4>1. CASE t # s
        BY <1>5, <3>2, <4>1
      <4>2. CASE t = s
        <5>1. Faithful(calls[d], LatestSequence(s) + 1, calls[c].result, memory[s])
          BY <1>2, <1>3, <1>4, <3>1, <3>2, <4>2, TableGoesOn
        <5> QED
          BY <1>2, <4>2, <5>1
      <4> QED
        BY <4>1, <4>2
    <3> QED
      BY <3>1, <3>3 DEF Faithful, Continues
  <2> QED
    BY <2>1, <2>2
<1>8. ASSUME NEW t \in Sessions PROVE Current(t)'
  <2>1. Current(t)
    BY DEF TInv
  <2>2. CASE t # s
    BY <1>5, <2>1, <2>2 DEF Current, Continues
  <2>3. CASE t = s
    <3>1. nextSequence[s] \in Nat /\ nextSequence[s] # LatestSequence(s)' + 1
      BY <1>2 DEF NInv, Types
    <3>2. Continues(LatestRecord(s)', acknowledged[s])
      BY <1>2, <1>3, <1>4, <2>1, <2>3, ContinuesTransitive DEF Current
    <3> QED
      BY <2>3, <3>1, <3>2 DEF Current, Continues
  <2> QED
    BY <2>2, <2>3
<1> QED
  BY <1>6, <1>7, <1>8 DEF TInv

\* Nothing has been recorded yet.
LEMMA InitialTrail == StoreInit => TInv
<1> SUFFICES ASSUME StoreInit PROVE TInv
  OBVIOUS
<1>1. \A c \in Calls : calls[c] = NoCall /\ calls[c].pc = "idle"
  BY DEF StoreInit, NoCall
<1>2. \A s \in Sessions : Current(s)
  BY DEF StoreInit, Current, Continues
<1> QED
  BY <1>1, <1>2 DEF TInv, Recovering, Alone

\* A call that begins recovers its session only if it is alone with it.
LEMMA BeginTrail ==
    ASSUME Overlap # "any", NInv, TInv,
           NEW c \in Calls, NEW s \in Sessions, NEW op \in Evaluations \cup Overrides,
           MayBegin(s, op), Begin(c, s, op)
    PROVE  TInv'
<1> DEFINE call == [pc       |-> IF s \in recovered THEN "acting" ELSE "loading",
                    session  |-> s,
                    op       |-> op,
                    loaded   |-> NoRecord,
                    result   |-> NoRecord,
                    sequence |-> -1]
<1>1. /\ calls' = [calls EXCEPT ![c] = call]
      /\ UNCHANGED << memory, recovered, nextSequence, snapshots, acknowledged >>
      /\ calls[c] = NoCall
  BY DEF Begin
<1>2. /\ call.session = s /\ call.pc \in { "acting", "loading" }
      /\ call.pc = "acting" <=> s \in recovered
  OBVIOUS
<1>3. s \notin recovered => InFlightFor(s) = {}
  BY OverlapAssumption DEF MayBegin
<1> HIDE DEF call
<1>4. \A d \in Calls : calls'[d] = IF d = c THEN call ELSE calls[d]
  BY <1>1 DEF NInv, Types
<1>5. \A t : LatestSequence(t)' = LatestSequence(t) /\ LatestRecord(t)' = LatestRecord(t)
  BY <1>1 DEF LatestSequence, LatestRecord
<1>6. ASSUME NEW d \in Calls PROVE Recovering(d)'
  BY <1>1, <1>2, <1>4 DEF TInv, Recovering
<1>7. ASSUME NEW d \in Calls, NEW e \in Calls PROVE Alone(d, e)'
  <2>1. CASE d # c /\ e # c
    BY <1>4, <2>1 DEF TInv, Alone
  <2>2. CASE d = c /\ e # c
    <3>1. s \notin recovered => ~(calls[e].pc \notin { "idle", "orphaned" } /\ calls[e].session = s)
      BY <1>3 DEF InFlightFor, InFlight
    <3> QED
      BY <1>2, <1>4, <2>2, <3>1 DEF Alone
  <2>3. CASE d # c /\ e = c
    <3>1. Recovering(d)
      BY DEF TInv
    <3>2. s \notin recovered => ~(calls[d].pc \notin { "idle", "orphaned" } /\ calls[d].session = s)
      BY <1>3 DEF InFlightFor, InFlight
    <3> QED
      BY <1>2, <1>4, <2>3, <3>1, <3>2 DEF Alone, Recovering
  <2> QED
    BY <2>1, <2>2, <2>3 DEF Alone
<1>8. ASSUME NEW d \in Calls, NEW t \in Sessions, calls'[d] # NoCall, calls'[d].session = t
      PROVE  Faithful(calls[d], LatestSequence(t), LatestRecord(t), memory[t])'
  <2>1. Faithful(calls'[d], LatestSequence(t), LatestRecord(t), memory[t])
    BY <1>2, <1>4, <1>8 DEF TInv, Faithful
  <2> QED
    BY <1>1, <1>5, <2>1 DEF Faithful, Continues
<1>9. \A t \in Sessions : Current(t)'
  BY <1>1, <1>5 DEF TInv, Current, Continues
<1> QED
  BY <1>6, <1>7, <1>8, <1>9 DEF TInv

\* A call that has read the table knows the last row.
LEMMA LoadLatestTrail ==
    ASSUME NInv, TInv, NEW c \in Calls, LoadLatest(c) PROVE TInv'
<1>1. calls[c] \in CallRecord /\ Types /\ calls[c].pc = "loading"
  BY Begun DEF LoadLatest, NInv
<1>2. PICK s \in Sessions : s = calls[c].session
  BY <1>1 DEF CallRecord
<1> DEFINE call == [calls[c] EXCEPT !.pc = "restoring", !.loaded = LatestRecord(s),
                                    !.sequence = LatestSequence(s)]
<1>3. /\ calls' = [calls EXCEPT ![c] = call]
      /\ UNCHANGED << memory, recovered, nextSequence, snapshots, acknowledged >>
  BY <1>1, <1>2 DEF LoadLatest, Types
<1>4. LatestSequence(s) \in Nat \cup {-1} /\ LatestRecord(s) \in MaybeRecord
  BY LatestIsRecord DEF NInv
<1>5. /\ call \in CallRecord /\ call.session = s /\ call.pc = "restoring"
      /\ call.loaded = LatestRecord(s)
  BY <1>1, <1>2, <1>4 DEF CallRecord, MaybeRecord
<1> HIDE DEF call
<1>6. Faithful(call, LatestSequence(s), LatestRecord(s), memory[s])
  BY <1>5 DEF Faithful
<1> QED
  BY <1>1, <1>2, <1>3, <1>5, <1>6, OnlyCallGoesOn

\* Recovery, which no other call of the session sees: memory becomes the row
\* that was read, or stays empty behind an empty table.
LEMMA RestoreTrail ==
    ASSUME NInv, TInv, NEW c \in Calls, Restore(c) PROVE TInv'
<1>1. calls[c] \in CallRecord /\ Types /\ calls[c].pc = "restoring" /\ calls[c] # NoCall
  BY Begun DEF Restore, NInv
<1>2. PICK s \in Sessions : s = calls[c].session
  BY <1>1 DEF CallRecord
<1> DEFINE call == [calls[c] EXCEPT !.pc = "acting", !.loaded = NoRecord, !.sequence = -1]
<1>3. /\ calls' = [calls EXCEPT ![c] = call]
      /\ UNCHANGED << snapshots, acknowledged >>
      /\ recovered' = recovered \cup {s}
      /\ nextSequence' = [nextSequence EXCEPT ![s] = calls[c].sequence + 1]
      /\ memory' = IF calls[c].loaded = NoRecord THEN memory
                   ELSE [memory EXCEPT ![s] = calls[c].loaded]
  BY <1>1, <1>2 DEF Restore, Types
<1>4. call \in CallRecord /\ call.pc = "acting" /\ call.session = s
  BY <1>1, <1>2 DEF CallRecord
<1> HIDE DEF call
<1>5. \A d \in Calls : calls'[d] = IF d = c THEN call ELSE calls[d]
  BY <1>1, <1>3 DEF Types
<1>6. \A t : LatestSequence(t)' = LatestSequence(t) /\ LatestRecord(t)' = LatestRecord(t)
  BY <1>3 DEF LatestSequence, LatestRecord
<1>7. ASSUME NEW d \in Calls, d # c, calls[d].session = s
      PROVE  calls[d].pc \in { "idle", "orphaned" }
  BY <1>1, <1>2, <1>7 DEF TInv, Alone
<1>8. ASSUME NEW d \in Calls PROVE Recovering(d)'
  <2>1. CASE d = c
    BY <1>3, <1>4, <1>5, <2>1 DEF Recovering
  <2>2. CASE d # c
    BY <1>3, <1>5, <1>7, <2>2 DEF TInv, Recovering
  <2> QED
    BY <2>1, <2>2
<1>9. ASSUME NEW d \in Calls, NEW e \in Calls PROVE Alone(d, e)'
  <2>1. CASE d = c
    BY <1>4, <1>5, <2>1 DEF Alone
  <2>2. CASE d # c /\ e = c
    BY <1>4, <1>5, <1>7, <2>2 DEF Alone
  <2>3. CASE d # c /\ e # c
    BY <1>5, <2>3 DEF TInv, Alone
  <2> QED
    BY <2>1, <2>2, <2>3
<1>10. ASSUME NEW d \in Calls, NEW t \in Sessions, calls'[d] # NoCall, calls'[d].session = t
       PROVE  Faithful(calls[d], LatestSequence(t), LatestRecord(t), memory[t])'
  <2>1. CASE d = c
    BY <1>4, <1>5, <2>1 DEF Faithful
  <2>2. CASE d # c
    <3>1. /\ calls'[d] = calls[d]
          /\ Faithful(calls[d], LatestSequence(t), LatestRecord(t), memory[t])
      BY <1>5, <1>10, <2>2 DEF TInv
    <3>2. Faithful(calls[d], LatestSequence(t), LatestRecord(t), memory'[t])
      <4>1. CASE t = s
        BY <1>7, <1>10, <2>2, <3>1, <4>1 DEF Faithful
      <4>2. CASE t # s
        <5>1. memory'[t] = memory[t]
          BY <1>1, <1>3, <4>2 DEF Types
        <5> QED
          BY <3>1, <5>1
      <4> QED
        BY <4>1, <4>2
    <3> QED
      BY <1>6, <3>1, <3>2 DEF Faithful, Continues
  <2> QED
    BY <2>1, <2>2
<1>11. ASSUME NEW t \in Sessions PROVE Current(t)'
  <2>1. Continues(LatestRecord(t)', acknowledged'[t])
    BY <1>3, <1>6 DEF TInv, Current
  <2>2. ASSUME t \in recovered', nextSequence'[t] = LatestSequence(t) + 1
        PROVE  Continues(memory'[t], LatestRecord(t))
    <3>1. CASE t # s
      <4>1. t \in recovered /\ nextSequence[t] = LatestSequence(t) + 1 /\ memory'[t] = memory[t]
        BY <1>1, <1>3, <2>2, <3>1 DEF Types
      <4> QED
        BY <4>1 DEF TInv, Current
    <3>2. CASE t = s
      <4>1. /\ LatestSequence(s) \in Nat \cup {-1} /\ LatestRecord(s) \in MaybeRecord
            /\ calls[c].sequence \in Nat \cup {-1}
        BY <1>1, LatestIsRecord DEF NInv, CallRecord
      <4>2. calls[c].sequence = LatestSequence(s)
        BY <1>1, <1>3, <2>2, <3>2, <4>1 DEF Types
      <4>3. calls[c].loaded = LatestRecord(s)
        BY <1>1, <1>2, <4>2 DEF TInv, Faithful
      <4>4. CASE calls[c].loaded = NoRecord
        BY <3>2, <4>3, <4>4 DEF Continues
      <4>5. CASE calls[c].loaded # NoRecord
        <5>1. memory'[s] = LatestRecord(s)
          BY <1>1, <1>3, <4>3, <4>5 DEF Types
        <5> QED
          BY <3>2, <4>1, <5>1, ContinuesReflexive
      <4> QED
        BY <4>4, <4>5
    <3> QED
      BY <3>1, <3>2
  <2> QED
    BY <1>6, <2>1, <2>2 DEF Current, Continues
<1> QED
  BY <1>8, <1>9, <1>10, <1>11 DEF TInv

\* A call that acts takes memory on from where it was; the number it saves
\* under is the cursor's, and if that is the next one, its record continues
\* the last row.
LEMMA ActTrail ==
    ASSUME NInv, TInv, NEW c \in Calls, Act(c) PROVE TInv'
<1>1. calls[c] \in CallRecord /\ Types /\ calls[c].pc = "acting"
  BY Begun DEF Act, NInv
<1>2. PICK s \in Sessions : s = calls[c].session
  BY <1>1 DEF CallRecord
<1>3. PICK op \in Evaluations \cup Overrides : op = calls[c].op
  BY <1>1 DEF CallRecord
<1> DEFINE result == Outcome(s, op)
           pc == IF result.transitioned THEN "saving" ELSE "returned"
           sequence == IF result.transitioned THEN nextSequence[s] ELSE -1
           call == [calls[c] EXCEPT !.pc = pc, !.result = result.record, !.sequence = sequence]
<1>4. /\ calls' = [calls EXCEPT ![c] = call]
      /\ memory' = [memory EXCEPT ![s] = result.record]
      /\ UNCHANGED << recovered, nextSequence, snapshots, acknowledged >>
  BY <1>1, <1>2, <1>3 DEF Act, Types
<1>5. /\ nextSequence[s] \in Nat /\ memory[s] \in MaybeRecord
      /\ result.record \in LifecycleSessionRecord /\ result.record \in MaybeRecord
      /\ Continues(result.record, memory[s])
  BY <1>1, OutcomeContinues DEF NInv, Types, MaybeRecord
<1>6. /\ pc \in { "saving", "returned" }
      /\ pc = "saving" => sequence = nextSequence[s]
      /\ pc = "returned" => sequence = -1
  OBVIOUS
<1> HIDE DEF pc, sequence, result
<1>7. /\ call \in CallRecord /\ call.session = s /\ call.pc = pc
      /\ call.sequence = sequence /\ call.result = result.record
  BY <1>1, <1>2, <1>5, <1>6 DEF CallRecord
<1> HIDE DEF call
<1>8. (\A d \in Calls : Recovering(d)) ' /\ (\A d, e \in Calls : Alone(d, e)) '
  BY <1>1, <1>2, <1>4, <1>6, <1>7, CallGoesOn
<1>9. ASSUME NEW t \in Sessions
      PROVE  /\ LatestSequence(t)' = LatestSequence(t) /\ LatestRecord(t)' = LatestRecord(t)
             /\ LatestSequence(t) \in Nat \cup {-1} /\ LatestRecord(t) \in MaybeRecord
  BY <1>4, SameRows, LatestIsRecord DEF NInv
<1>10. nextSequence[s] = LatestSequence(s) + 1 => Continues(result.record, LatestRecord(s))
  <2>1. s \in recovered
    BY <1>1, <1>2 DEF TInv, Recovering
  <2>2. nextSequence[s] = LatestSequence(s) + 1 => Continues(memory[s], LatestRecord(s))
    BY <2>1 DEF TInv, Current
  <2> QED
    BY <1>5, <1>9, <2>2, ContinuesTransitive
<1>11. ASSUME NEW d \in Calls, NEW t \in Sessions, calls'[d] # NoCall, calls'[d].session = t
       PROVE  Faithful(calls[d], LatestSequence(t), LatestRecord(t), memory[t])'
  <2>1. CASE d = c
    <3>1. calls'[d] = call /\ t = s /\ memory'[t] = result.record
      BY <1>1, <1>4, <1>7, <1>11, <2>1 DEF Types
    <3>2. Continues(result.record, result.record)
      BY <1>5, ContinuesReflexive
    <3>3. Faithful(call, LatestSequence(s), LatestRecord(s), result.record)
      BY <1>6, <1>7, <1>10, <3>2 DEF Faithful
    <3> QED
      BY <1>9, <3>1, <3>3 DEF Faithful, Continues
  <2>2. CASE d # c
    <3>1. calls'[d] = calls[d] /\ calls[d] \in CallRecord
      BY <1>1, <1>4, <1>11, <2>2 DEF Types
    <3>2. Faithful(calls[d], LatestSequence(t), LatestRecord(t), memory[t])
      BY <1>11, <3>1 DEF TInv
    <3>3. Faithful(calls[d], LatestSequence(t), LatestRecord(t), memory'[t])
      <4>1. CASE t = s
        <5>1. memory'[t] = result.record /\ memory[t] = memory[s]
          BY <1>1, <1>4, <4>1 DEF Types
        <5> QED
          BY <1>5, <1>9, <3>1, <3>2, <4>1, <5>1, MemoryGoesOn
      <4>2. CASE t # s
        <5>1. memory'[t] = memory[t]
          BY <1>1, <1>4, <4>2 DEF Types
        <5> QED
          BY <3>2, <5>1
      <4> QED
        BY <4>1, <4>2
    <3> QED
      BY <1>9, <3>1, <3>3 DEF Faithful, Continues
  <2> QED
    BY <2>1, <2>2
<1>12. ASSUME NEW t \in Sessions PROVE Current(t)'
  <2>1. CASE t = s
    <3>1. memory'[t] = result.record
      BY <1>1, <1>4, <2>1 DEF Types
    <3> QED
      BY <1>4, <1>9, <1>10, <2>1, <3>1 DEF TInv, Current, Continues
  <2>2. CASE t # s
    <3>1. memory'[t] = memory[t]
      BY <1>1, <1>4, <2>2 DEF Types
    <3> QED
      BY <1>4, <1>9, <3>1 DEF TInv, Current, Continues
  <2> QED
    BY <2>1, <2>2
<1> QED
  BY <1>8, <1>11, <1>12 DEF TInv

\* An insert, whether or not its caller hears of it, and one that meets the
\* unique constraint.
LEMMA SaveTrail ==
    ASSUME NInv, TInv, NEW c \in Calls, Save(c) \/ LoseReply(c) PROVE TInv'
<1>1. /\ calls[c] \in CallRecord /\ Types /\ calls[c].pc = "saving"
      /\ UNCHANGED << memory, recovered, nextSequence, acknowledged >>
  BY Begun DEF Save, LoseReply, NInv
<1>2. PICK pc \in { "saved", "failed", "collided" } :
          /\ calls' = [calls EXCEPT ![c] = [calls[c] EXCEPT !.pc = pc]]
          /\ \/ /\ pc \in { "saved", "failed" }
                /\ Insert(calls[c].session, calls[c].sequence, RowOf(c))
             \/ pc = "collided" /\ UNCHANGED snapshots
  BY DEF Save, LoseReply, Goto
<1> DEFINE call == [calls[c] EXCEPT !.pc = pc]
<1>3. /\ call \in CallRecord /\ call.pc = pc /\ call.session = calls[c].session
      /\ call.sequence = calls[c].sequence /\ call.result = calls[c].result
  BY <1>1 DEF CallRecord
<1>4. calls' = [calls EXCEPT ![c] = call]
  BY <1>2
<1> HIDE DEF call
<1>5. CASE pc = "collided" /\ UNCHANGED snapshots
  <2>1. \A latest, record, held : Faithful(call, latest, record, held)
    BY <1>3, <1>5 DEF Faithful
  <2> QED
    BY <1>1, <1>3, <1>4, <1>5, <2>1, OnlyCallGoesOn
<1>6. CASE pc \in { "saved", "failed" } /\ Insert(calls[c].session, calls[c].sequence, RowOf(c))
  BY <1>1, <1>3, <1>4, <1>6, AddedRowGoesOn
<1> QED
  BY <1>2, <1>5, <1>6

\* The reply of an insert moves the cursor behind its row, which memory
\* continues if the row is still the last one; what it acknowledges is in the
\* table by then.
LEMMA AdvanceTrail ==
    ASSUME NInv, TInv, NEW c \in Calls, Advance(c) PROVE TInv'
<1>1. calls[c] \in CallRecord /\ Types /\ calls[c].pc = "saved" /\ calls[c] # NoCall
  BY Begun DEF Advance, NInv
<1>2. PICK s \in Sessions : s = calls[c].session
  BY <1>1 DEF CallRecord
<1> DEFINE call == [calls[c] EXCEPT !.pc = "returned"]
<1>3. /\ calls' = [calls EXCEPT ![c] = call]
      /\ nextSequence' = [nextSequence EXCEPT ![s] = calls[c].sequence + 1]
      /\ acknowledged' = [acknowledged EXCEPT ![s] = calls[c].result]
      /\ UNCHANGED << memory, recovered, snapshots >>
  BY <1>2 DEF Advance, Goto
<1>4. call \in CallRecord /\ call.pc = "returned" /\ call.session = calls[c].session
  BY <1>1 DEF CallRecord
<1> HIDE DEF call
<1>5. (\A d \in Calls : Recovering(d)) ' /\ (\A d, e \in Calls : Alone(d, e)) '
  BY <1>1, <1>3, <1>4, CallGoesOn
<1>6. ASSUME NEW t \in Sessions
      PROVE  LatestSequence(t)' = LatestSequence(t) /\ LatestRecord(t)' = LatestRecord(t)
  BY <1>3, SameRows
<1>7. /\ Continues(LatestRecord(s), calls[c].result)
      /\ calls[c].sequence = LatestSequence(s) => Continues(memory[s], LatestRecord(s))
  BY <1>1, <1>2 DEF TInv, Faithful
<1>8. ASSUME NEW d \in Calls, NEW t \in Sessions, calls'[d] # NoCall, calls'[d].session = t
      PROVE  Faithful(calls[d], LatestSequence(t), LatestRecord(t), memory[t])'
  <2>1. Faithful(calls'[d], LatestSequence(t), LatestRecord(t), memory[t])
    <3>1. CASE d = c
      BY <1>1, <1>3, <1>4, <3>1 DEF Types, Faithful
    <3>2. CASE d # c
      BY <1>1, <1>3, <1>8, <3>2 DEF Types, TInv
    <3> QED
      BY <3>1, <3>2
  <2> QED
    BY <1>3, <1>6, <2>1 DEF Faithful, Continues
<1>9. ASSUME NEW t \in Sessions PROVE Current(t)'
  <2>1. CASE t = s
    <3>1. /\ calls[c].sequence \in Nat \cup {-1} /\ LatestSequence(s) \in Nat \cup {-1}
          /\ nextSequence'[s] = calls[c].sequence + 1 /\ acknowledged'[s] = calls[c].result
      BY <1>1, <1>3, LatestIsRecord DEF NInv, Types, CallRecord
    <3>2. nextSequence'[s] = LatestSequence(s) + 1 => calls[c].sequence = LatestSequence(s)
      BY <3>1
    <3> QED
      BY <1>3, <1>6, <1>7, <2>1, <3>1, <3>2 DEF Current, Continues
  <2>2. CASE t # s
    <3>1. nextSequence'[t] = nextSequence[t] /\ acknowledged'[t] = acknowledged[t]
      BY <1>1, <1>3, <2>2 DEF Types
    <3> QED
      BY <1>3, <1>6, <3>1 DEF TInv, Current, Continues
  <2> QED
    BY <2>1, <2>2
<1> QED
  BY <1>5, <1>8, <1>9 DEF TInv

\* A refused query, and a settled promise.
LEMMA EndTrail ==
    ASSUME NInv, TInv, NEW c \in Calls, Fail(c) \/ Settle(c) PROVE TInv'
<1>1. /\ calls[c] \in CallRecord
      /\ UNCHANGED << memory, recovered, nextSequence, snapshots, acknowledged >>
  BY Begun DEF Fail, Settle, Settled, NInv
<1>2. CASE Fail(c)
  <2> DEFINE call == [calls[c] EXCEPT !.pc = "failed"]
  <2>1. calls' = [calls EXCEPT ![c] = call]
    BY <1>2 DEF Fail, Goto
  <2>2. /\ call \in CallRecord /\ call.pc = "failed" /\ call.session = calls[c].session
        /\ calls[c].pc \notin { "idle", "orphaned" }
    BY <1>1, <1>2 DEF CallRecord, Fail
  <2> HIDE DEF call
  <2>3. \A latest, record, held : Faithful(call, latest, record, held)
    BY <2>2 DEF Faithful
  <2> QED
    BY <1>1, <2>1, <2>2, <2>3, OnlyCallGoesOn
<1>3. CASE Settle(c)
  BY <1>1, <1>3, OnlyCallGoesOn DEF Settle
<1> QED
  BY <1>2, <1>3

\* The insert of a lost process arrives, in time or too late.
LEMMA OrphanSaveTrail ==
    ASSUME NInv, TInv, NEW c \in Calls, OrphanSave(c) PROVE TInv'
<1>1. /\ calls[c].pc = "orphaned" /\ calls' = [calls EXCEPT ![c] = NoCall]
      /\ UNCHANGED << memory, recovered, nextSequence, acknowledged >>
  BY DEF OrphanSave
<1>2. CASE Insert(calls[c].session, calls[c].sequence, RowOf(c))
  BY <1>1, <1>2, AddedRowGoesOn
<1>3. CASE UNCHANGED snapshots
  BY <1>1, <1>3, OnlyCallGoesOn
<1> QED
  BY <1>2, <1>3 DEF OrphanSave

\* What the loss of the process leaves continues the table as it did before.
LEMMA CrashTrail ==
    ASSUME NInv, TInv, NEW orphans \in SUBSET Calls, Crash(orphans) PROVE TInv'
<1>1. /\ UNCHANGED << snapshots, acknowledged >> /\ recovered' = {}
  BY DEF Crash
<1>2. ASSUME NEW d \in Calls
      PROVE  \/ calls'[d] = NoCall
             \/ /\ calls[d] # NoCall
                /\ calls[d].pc \in { "saving", "orphaned" }
                /\ calls'[d].pc = "orphaned" /\ calls'[d].session = calls[d].session
                /\ calls'[d].sequence = calls[d].sequence
                /\ calls'[d].result = calls[d].result
  <2>1. calls'[d] = IF d \in orphans THEN [calls[d] EXCEPT !.pc = "orphaned"]
                    ELSE IF calls[d].pc = "orphaned" THEN calls[d] ELSE NoCall
    BY DEF Crash
  <2>2. CASE d \in orphans
    <3>1. calls[d].pc = "saving" /\ calls[d] \in CallRecord /\ calls[d] # NoCall
      BY <2>2, Begun DEF Crash, NInv
    <3>2. calls'[d] = [calls[d] EXCEPT !.pc = "orphaned"]
      BY <2>1, <2>2
    <3> QED
      BY <3>1, <3>2 DEF CallRecord
  <2>3. CASE d \notin orphans /\ calls[d].pc = "orphaned"
    BY <2>1, <2>3, Begun DEF NInv
  <2>4. CASE d \notin orphans /\ calls[d].pc # "orphaned"
    BY <2>1, <2>4
  <2> QED
    BY <2>2, <2>3, <2>4
<1>3. ASSUME NEW d \in Calls PROVE calls'[d].pc \in { "idle", "orphaned" }
  BY <1>2 DEF NoCall
<1>4. \A s : LatestSequence(s)' = LatestSequence(s) /\ LatestRecord(s)' = LatestRecord(s)
  BY <1>1 DEF LatestSequence, LatestRecord
<1>5. ASSUME NEW d \in Calls, NEW s \in Sessions, calls'[d] # NoCall, calls'[d].session = s
      PROVE  Faithful(calls[d], LatestSequence(s), LatestRecord(s), memory[s])'
  <2>1. Faithful(calls[d], LatestSequence(s), LatestRecord(s), memory[s])
    BY <1>2, <1>5 DEF TInv
  <2>2. \A held : Faithful(calls'[d], LatestSequence(s), LatestRecord(s), held)
    BY <1>2, <1>5, <2>1 DEF Faithful
  <2>3. Faithful(calls'[d], LatestSequence(s), LatestRecord(s), memory'[s])
    BY <2>2
  <2> QED
    BY <1>4, <2>3 DEF Faithful, Continues
<1>6. \A s \in Sessions : Current(s)'
  BY <1>1, <1>4 DEF TInv, Current, Continues
<1> QED
  BY <1>3, <1>5, <1>6 DEF TInv, Recovering, Alone

\* Nothing moves but the counters of faults.
LEMMA StutterTrail ==
    ASSUME TInv, UNCHANGED << memory, recovered, nextSequence, snapshots, calls, acknowledged >>
    PROVE  TInv'
<1>1. \A s : LatestSequence(s)' = LatestSequence(s) /\ LatestRecord(s)' = LatestRecord(s)
  BY DEF LatestSequence, LatestRecord
<1>2. (\A d \in Calls : Recovering(d)) ' /\ (\A d, e \in Calls : Alone(d, e)) '
  BY DEF TInv, Recovering, Alone
<1>3. \A c \in Calls, s \in Sessions : (calls[c] # NoCall /\ calls[c].session = s =>
          Faithful(calls[c], LatestSequence(s), LatestRecord(s), memory[s]))'
  BY <1>1 DEF TInv, Faithful, Continues
<1>4. \A s \in Sessions : Current(s)'
  BY <1>1 DEF TInv, Current, Continues
<1> QED
  BY <1>2, <1>3, <1>4 DEF TInv

\* As long as no two calls recover a session at once, memory, the calls in
\* progress and the table carry one trail (sessionLifecycleStore.ts).
THEOREM TrailInvariance == ASSUME Overlap # "any" PROVE StoreSpec => []TInv
<1>1. NInv /\ TInv /\ [StoreNext]_storeVars => TInv'
  <2> SUFFICES ASSUME NInv, TInv, [StoreNext]_storeVars PROVE TInv'
    OBVIOUS
  <2>1. ASSUME NEW c \in Calls, NEW s \in Sessions, NEW op \in Evaluations \cup Overrides,
               NewCall(c, s, op)
        PROVE  TInv'
    BY <2>1, BeginTrail DEF NewCall
  <2>2. ASSUME NEW c \in Calls, CallStep(c) \/ Settle(c) PROVE TInv'
    BY <2>2, LoadLatestTrail, RestoreTrail, ActTrail, SaveTrail, AdvanceTrail, EndTrail,
       OrphanSaveTrail DEF CallStep
  <2>3. ASSUME NEW orphans \in SUBSET Calls, Crash(orphans) PROVE TInv'
    BY <2>3, CrashTrail
  <2>4. CASE UNCHANGED storeVars
    BY <2>4, StutterTrail DEF storeVars
  <2> QED
    BY <2>1, <2>2, <2>3, <2>4 DEF StoreNext
<1> QED
  BY StoreInvariance, InitialTrail, <1>1, PTL DEF StoreSpec

\* A change its caller was told of is never lost (saveCheckpoint awaits the
\* insert before it returns, sessionLifecycleStore.ts).
THEOREM AcknowledgedSurvive ==
    ASSUME Overlap # "any" PROVE StoreSpec => []AcknowledgedChangesSurvive
<1>1. TInv => AcknowledgedChangesSurvive
  BY DEF TInv, Current, AcknowledgedChangesSurvive
<1> QED
  BY <1>1, TrailInvariance, PTL

\* One row more: the old ones stay, and the new one continues the last.
LEMMA InsertGrows ==
    ASSUME NInv, TInv, NEW c \in Calls, calls[c].pc \in { "saving", "orphaned" },
           Insert(calls[c].session, calls[c].sequence, RowOf(c)), NEW t \in Sessions
    PROVE  /\ \A q \in DOMAIN snapshots[t] :
                  q \in DOMAIN snapshots'[t] /\ snapshots'[t][q] = snapshots[t][q]
           /\ Continues(LatestRecord(t)', LatestRecord(t))
<1>0. calls[c] \in CallRecord /\ calls[c] # NoCall
  BY Begun DEF NInv
<1>1. PICK s \in Sessions : s = calls[c].session
  BY <1>0 DEF CallRecord
<1>2. /\ calls[c].sequence = LatestSequence(s) + 1
      /\ LatestRecord(s)' = calls[c].result
      /\ \A u \in Sessions \ {s} : snapshots'[u] = snapshots[u]
      /\ \A q \in DOMAIN snapshots[s] :
             q \in DOMAIN snapshots'[s] /\ snapshots'[s][q] = snapshots[s][q]
  BY <1>1, CallAddsRow
<1>3. CASE t = s
  <2>1. Faithful(calls[c], LatestSequence(s), LatestRecord(s), memory[s])
    BY <1>0, <1>1 DEF TInv
  <2>2. Continues(LatestRecord(s)', LatestRecord(s))
    BY <1>2, <2>1 DEF Faithful
  <2> QED
    BY <1>2, <1>3, <2>2
<1>4. CASE t # s
  <2>1. snapshots'[t] = snapshots[t] /\ LatestRecord(t)' = LatestRecord(t)
    BY <1>2, <1>4, SameRows
  <2>2. Continues(LatestRecord(t), LatestRecord(t))
    BY LatestIsRecord, ContinuesReflexive DEF NInv
  <2> QED
    BY <2>1, <2>2
<1> QED
  BY <1>3, <1>4

\* Rows are only added, and each continues the trail of the row before it:
\* whoever missed a change meets the unique constraint
\* (sessionSnapshotRepository.ts).
THEOREM TrailOnlyGrows ==
    ASSUME Overlap # "any" PROVE StoreSpec => DurableTrailOnlyGrows
<1> DEFINE Grows(s) ==
      /\ \A sequence \in DOMAIN snapshots[s] :
             /\ sequence \in DOMAIN snapshots'[s]
             /\ snapshots'[s][sequence] = snapshots[s][sequence]
      /\ Continues(LatestRecord(s)', LatestRecord(s))
<1>1. NInv /\ TInv /\ [StoreNext]_storeVars => [\A s \in Sessions : Grows(s)]_storeVars
  <2> SUFFICES ASSUME NInv, TInv, StoreNext, NEW t \in Sessions PROVE Grows(t)
    OBVIOUS
  <2>1. CASE UNCHANGED snapshots
    <3>1. LatestRecord(t)' = LatestRecord(t)
      BY <2>1, SameRows
    <3>2. Continues(LatestRecord(t), LatestRecord(t))
      BY LatestIsRecord, ContinuesReflexive DEF NInv
    <3> QED
      BY <2>1, <3>1, <3>2
  <2>2. ASSUME NEW c \in Calls, calls[c].pc \in { "saving", "orphaned" },
               Insert(calls[c].session, calls[c].sequence, RowOf(c))
        PROVE  Grows(t)
    BY <2>2, InsertGrows
  <2>3. \/ UNCHANGED snapshots
        \/ \E c \in Calls : /\ calls[c].pc \in { "saving", "orphaned" }
                            /\ Insert(calls[c].session, calls[c].sequence, RowOf(c))
    BY DEF StoreNext, NewCall, Begin, CallStep, LoadLatest, Restore, Act, Save, Advance, Fail,
           LoseReply, OrphanSave, Settle, Crash
  <2> QED
    BY <2>1, <2>2, <2>3
<1> QED
  BY <1>1, StoreInvariance, TrailInvariance, PTL DEF StoreSpec, DurableTrailOnlyGrows

-----------------------------------------------------------------------------
(* Leaving DISQUALIFIED *)

\* Memory holds nothing of a session before its recovery ends.
Unknown == \A s \in Sessions \ recovered : memory[s] = NoRecord

\* What a step does to the store, whoever takes it and whatever it counts.
StoreMoves ==
    \/ UNCHANGED << memory, recovered, nextSequence, snapshots, calls, acknowledged >>
    \/ \E c \in Calls, s \in Sessions, op \in Evaluations \cup Overrides :
           MayBegin(s, op) /\ Begin(c, s, op)
    \/ \E c \in Calls : CallStep(c) \/ Settle(c)
    \/ \E orphans \in SUBSET Calls : Crash(orphans)

\* The steps of the store are such.
LEMMA StoreNextMoves == [StoreNext]_storeVars => StoreMoves
BY DEF StoreNext, StoreMoves, NewCall, storeVars

\* Only a call that acts, or a recovery of an unknown session, or a crash
\* touches memory.
LEMMA NextUnknown ==
    ASSUME NInv, TInv, Unknown, StoreMoves
    PROVE  Unknown'
<1>1. CASE UNCHANGED << memory, recovered >>
  BY <1>1 DEF Unknown
<1>2. ASSUME NEW c \in Calls, Restore(c) PROVE Unknown'
  <2>1. /\ recovered' = recovered \cup {calls[c].session}
        /\ \A s \in Sessions : s # calls[c].session => memory'[s] = memory[s]
    BY <1>2 DEF Restore, NInv, Types
  <2> QED
    BY <2>1 DEF Unknown
<1>3. ASSUME NEW c \in Calls, Act(c) PROVE Unknown'
  <2>1. calls[c].session \in recovered
    BY <1>3 DEF Act, TInv, Recovering
  <2>2. /\ recovered' = recovered
        /\ \A s \in Sessions : s # calls[c].session => memory'[s] = memory[s]
    BY <1>3 DEF Act, NInv, Types
  <2> QED
    BY <2>1, <2>2 DEF Unknown
<1>4. ASSUME NEW orphans \in SUBSET Calls, Crash(orphans) PROVE Unknown'
  BY <1>4 DEF Crash, Unknown
<1>5. \/ UNCHANGED << memory, recovered >>
      \/ \E c \in Calls : Restore(c) \/ Act(c)
      \/ \E orphans \in SUBSET Calls : Crash(orphans)
  BY DEF StoreMoves, Begin, CallStep, LoadLatest, Save, Advance, Fail, LoseReply,
         OrphanSave, Settle
<1> QED
  BY <1>1, <1>2, <1>3, <1>4, <1>5

\* No evaluation takes a session out of DISQUALIFIED.
LEMMA EvaluationsHold ==
    ASSUME NInv, NEW s \in Sessions, NEW op \in Evaluations \cup Overrides,
           op.kind # "override", memory[s] # NoRecord, memory[s].state = "DISQUALIFIED"
    PROVE  Outcome(s, op).record = memory[s]
<1>1. memory[s] \in LifecycleSessionRecord
  BY DEF NInv, Types, MaybeRecord
<1>2. op \in Evaluations /\ op.kind = "evaluate"
  BY EvaluationsAssumption, OverridesAssumption
<1>3. Outcome(s, op) = EvaluateLifecycleTransition(memory[s], op.posterior, op.now, op.contradiction)
  BY <1>2 DEF Outcome, CurrentRecord
<1> QED
  BY <1>1, <1>3 DEF EvaluateLifecycleTransition, Hold

\* Only a human's call takes a session out of DISQUALIFIED in memory: no
\* evaluation, and no recovery that ends while the session is at work
\* (evaluateLifecycleTransition, ensureRecovered).
THEOREM HumansLeaveDisqualified ==
    ASSUME Overlap # "any" PROVE StoreSpec => OnlyOverridesLeaveDisqualified
<1> DEFINE Leaves(s) ==
      /\ memory[s] # NoRecord /\ memory'[s] # NoRecord
      /\ memory[s].state = "DISQUALIFIED" /\ memory'[s].state # "DISQUALIFIED"
      => \E c \in InFlightFor(s) :
             calls[c].pc = "acting" /\ calls[c].op.kind = "override"
<1>1. StoreInit => Unknown
  BY DEF StoreInit, Unknown
<1>2. NInv /\ TInv /\ Unknown /\ [StoreNext]_storeVars => Unknown'
  BY NextUnknown, StoreNextMoves
<1>3. NInv /\ TInv /\ Unknown /\ [StoreNext]_storeVars => [\A s \in Sessions : Leaves(s)]_storeVars
  <2> SUFFICES ASSUME NInv, TInv, Unknown, StoreNext, NEW s \in Sessions,
                      memory[s] # NoRecord, memory'[s] # NoRecord,
                      memory[s].state = "DISQUALIFIED", memory'[s].state # "DISQUALIFIED"
               PROVE  \E c \in InFlightFor(s) :
                          calls[c].pc = "acting" /\ calls[c].op.kind = "override"
    OBVIOUS
  <2>1. memory'[s] # memory[s]
    OBVIOUS
  <2>2. ASSUME NEW c \in Calls, Restore(c) PROVE FALSE
    <3>1. calls[c].session # s
      BY <2>2 DEF Restore, TInv, Recovering, Unknown
    <3> QED
      BY <2>1, <2>2, <3>1 DEF Restore, NInv, Types
  <2>3. ASSUME NEW c \in Calls, Act(c)
        PROVE  \E d \in InFlightFor(s) :
                   calls[d].pc = "acting" /\ calls[d].op.kind = "override"
    <3>1. calls[c] \in CallRecord /\ calls[c].pc = "acting"
      BY <2>3, Begun DEF Act, NInv
    <3>2. calls[c].session = s
      BY <2>1, <2>3 DEF Act, NInv, Types
    <3>3. memory'[s] = Outcome(s, calls[c].op).record
      BY <2>3, <3>2 DEF Act, NInv, Types
    <3>4. calls[c].op.kind = "override"
      BY <2>1, <3>1, <3>3, EvaluationsHold DEF CallRecord
    <3> QED
      BY <3>1, <3>2, <3>4 DEF InFlightFor, InFlight
  <2>4. ASSUME NEW orphans \in SUBSET Calls, Crash(orphans) PROVE FALSE
    BY <2>4 DEF Crash
  <2>5. \/ UNCHANGED memory
        \/ \E c \in Calls : Restore(c) \/ Act(c)
        \/ \E orphans \in SUBSET Calls : Crash(orphans)
    BY DEF StoreNext, NewCall, Begin, CallStep, LoadLatest, Save, Advance, Fail, LoseReply,
           OrphanSave, Settle
  <2> QED
    BY <2>1, <2>2, <2>3, <2>4, <2>5
<1> QED
  BY <1>1, <1>2, <1>3, StoreInvariance, TrailInvariance, PTL
     DEF StoreSpec, OnlyOverridesLeaveDisqualified

-----------------------------------------------------------------------------
(* A store without lost inserts *)

\* The counters of faults count.
FaultsCount ==
    faults \in [begun : Nat, failures : Nat, lostReplies : Nat, crashes : Nat, orphans : Nat]

\* The number of a call that nobody disturbs, exactly.
Exact(call, latest) ==
    /\ call.pc \notin { "orphaned", "collided" }
    /\ call.pc = "restoring" => call.sequence = latest
    /\ call.pc = "saving" => call.sequence = latest + 1
    /\ call.pc = "saved" => call.sequence = latest

Single(c, d) ==
    calls[c] # NoCall /\ calls[d] # NoCall /\ calls[c].session = calls[d].session => c = d

\* The cursor stands behind the last row, until the reply to an insert is due.
Cursor(s) ==
    s \in recovered =>
        \/ nextSequence[s] = LatestSequence(s) + 1
        \/ \E c \in Calls : calls[c].pc = "saved" /\ calls[c].session = s

\* Each session has one call at most, and nobody but this call adds rows.
SInv ==
    /\ \A c, d \in Calls : Single(c, d)
    /\ \A c \in Calls, s \in Sessions :
           calls[c] # NoCall /\ calls[c].session = s => Exact(calls[c], LatestSequence(s))
    /\ \A s \in Sessions : Cursor(s)

\* A step of the only call of a session.
LEMMA OneSession ==
    ASSUME NInv, SInv, NEW c \in Calls, NEW s \in Sessions,
           NEW call \in CallRecord \cup {NoCall},
           calls' = [calls EXCEPT ![c] = call],
           call # NoCall => call.session = s,
           calls[c] # NoCall => calls[c].session = s,
           \A d \in Calls \ {c} : calls[d] # NoCall => calls[d].session # s,
           \A t \in Sessions \ {s} :
               /\ snapshots'[t] = snapshots[t] /\ nextSequence'[t] = nextSequence[t]
               /\ t \in recovered' => t \in recovered,
           NEW latest, LatestSequence(s)' = latest,
           Exact(call, latest),
           s \in recovered' => nextSequence'[s] = latest + 1 \/ call.pc = "saved"
    PROVE  SInv'
<1>1. \A d \in Calls : calls'[d] = IF d = c THEN call ELSE calls[d]
  BY DEF NInv, Types
<1>2. ASSUME NEW d \in Calls, NEW e \in Calls PROVE Single(d, e)'
  <2>1. ASSUME calls'[d] # NoCall, calls'[e] # NoCall, calls'[d].session = calls'[e].session
        PROVE  d = e
    <3>1. CASE d = c \/ e = c
      BY <1>1, <2>1, <3>1
    <3>2. CASE d # c /\ e # c
      <4>1. calls'[d] = calls[d] /\ calls'[e] = calls[e] /\ Single(d, e)
        BY <1>1, <3>2 DEF SInv
      <4> QED
        BY <2>1, <4>1 DEF Single
    <3> QED
      BY <3>1, <3>2
  <2> QED
    BY <2>1 DEF Single
<1>3. \A t \in Sessions \ {s} : LatestSequence(t)' = LatestSequence(t)
  BY SameRows
<1>4. ASSUME NEW d \in Calls, NEW t \in Sessions, calls'[d] # NoCall, calls'[d].session = t
      PROVE  Exact(calls[d], LatestSequence(t))'
  <2>1. CASE d = c
    <3>1. t = s /\ calls'[d] = call /\ LatestSequence(t)' = latest
      BY <1>1, <1>4, <2>1
    <3> QED
      BY <3>1 DEF Exact
  <2>2. CASE d # c
    <3>1. calls'[d] = calls[d] /\ t # s
      BY <1>1, <1>4, <2>2
    <3>2. Exact(calls[d], LatestSequence(t)) /\ LatestSequence(t)' = LatestSequence(t)
      BY <1>3, <1>4, <3>1 DEF SInv
    <3> QED
      BY <3>1, <3>2 DEF Exact
  <2> QED
    BY <2>1, <2>2
<1>5. ASSUME NEW t \in Sessions PROVE Cursor(t)'
  <2>1. CASE t = s
    <3>1. CASE call.pc = "saved"
      <4>1. calls'[c].pc = "saved" /\ calls'[c].session = s
        BY <1>1, <3>1 DEF NoCall
      <4> QED
        BY <2>1, <4>1 DEF Cursor
    <3>2. CASE call.pc # "saved"
      BY <2>1, <3>2 DEF Cursor
    <3> QED
      BY <3>1, <3>2
  <2>2. CASE t # s
    <3>1. /\ LatestSequence(t)' = LatestSequence(t) /\ nextSequence'[t] = nextSequence[t]
          /\ t \in recovered' => t \in recovered
      BY <1>3, <2>2
    <3>2. ASSUME NEW d \in Calls, calls[d].pc = "saved", calls[d].session = t
          PROVE  calls'[d].pc = "saved" /\ calls'[d].session = t
      <4>1. calls[d] # NoCall
        BY <3>2 DEF NoCall
      <4>2. d # c
        BY <2>2, <3>2, <4>1
      <4> QED
        BY <1>1, <3>2, <4>2
    <3>3. Cursor(t)
      BY DEF SInv
    <3> QED
      BY <3>1, <3>2, <3>3 DEF Cursor
  <2> QED
    BY <2>1, <2>2
<1> QED
  BY <1>2, <1>4, <1>5 DEF SInv

\* What a call that goes on brings along: it is alone with its session.
LEMMA TheOnlyCall ==
    ASSUME NInv, SInv, NEW c \in Calls, calls[c].pc # "idle"
    PROVE  /\ calls[c] \in CallRecord /\ calls[c] # NoCall
           /\ \E s \in Sessions :
                 /\ s = calls[c].session
                 /\ \A d \in Calls \ {c} : calls[d] # NoCall => calls[d].session # s
                 /\ Exact(calls[c], LatestSequence(s))
                 /\ s \in recovered /\ calls[c].pc # "saved" =>
                        nextSequence[s] = LatestSequence(s) + 1
                 /\ LatestSequence(s) \in Nat \cup {-1} /\ LatestRecord(s) \in MaybeRecord
<1>1. calls[c] \in CallRecord /\ calls[c] # NoCall
  BY Begun DEF NInv
<1>2. PICK s \in Sessions : s = calls[c].session
  BY <1>1 DEF CallRecord
<1>3. ASSUME NEW d \in Calls \ {c}, calls[d] # NoCall PROVE calls[d].session # s
  BY <1>1, <1>2, <1>3 DEF SInv, Single
<1>4. Exact(calls[c], LatestSequence(s))
  BY <1>1, <1>2 DEF SInv
<1>5. ASSUME s \in recovered, calls[c].pc # "saved"
      PROVE  nextSequence[s] = LatestSequence(s) + 1
  <2>1. ASSUME NEW d \in Calls, calls[d].pc = "saved", calls[d].session = s PROVE FALSE
    <3>1. calls[d] # NoCall
      BY <2>1 DEF NoCall
    <3> QED
      BY <1>3, <1>5, <2>1, <3>1
  <2> QED
    BY <1>5, <2>1 DEF SInv, Cursor
<1>6. LatestSequence(s) \in Nat \cup {-1} /\ LatestRecord(s) \in MaybeRecord
  BY LatestIsRecord DEF NInv
<1> QED
  BY <1>1, <1>2, <1>3, <1>4, <1>5, <1>6

\* A call begins in a session that has none.
LEMMA NoOtherCall ==
    ASSUME Overlap = "none", NInv, SInv, NEW s \in Sessions, NEW op, MayBegin(s, op),
           NEW d \in Calls, calls[d] # NoCall
    PROVE  calls[d].session # s
<1>1. calls[d] \in CallRecord
  BY DEF NInv, Types
<1>2. PICK t \in Sessions : t = calls[d].session
  BY <1>1 DEF CallRecord
<1>3. calls[d].pc \notin { "idle", "orphaned" }
  BY <1>1, <1>2 DEF SInv, Exact, CallRecord
<1>4. d \notin InFlightFor(s)
  BY DEF MayBegin
<1> QED
  BY <1>3, <1>4 DEF InFlightFor, InFlight

\* A session without a call has its cursor behind its last row when the next
\* call begins.
LEMMA BeginSerial ==
    ASSUME Overlap = "none", NInv, SInv,
           NEW c \in Calls, NEW s \in Sessions, NEW op \in Evaluations \cup Overrides,
           MayBegin(s, op), Begin(c, s, op)
    PROVE  SInv'
<1> DEFINE call == [pc |-> IF s \in recovered THEN "acting" ELSE "loading", session |-> s,
                    op |-> op, loaded |-> NoRecord, result |-> NoRecord, sequence |-> -1]
<1>1. /\ calls[c] = NoCall /\ calls' = [calls EXCEPT ![c] = call]
      /\ UNCHANGED << memory, recovered, nextSequence, snapshots, acknowledged >>
  BY DEF Begin
<1>2. call \in CallRecord /\ call.session = s /\ call.pc \in { "acting", "loading" }
  BY DEF CallRecord
<1> HIDE DEF call
<1>3. ASSUME NEW d \in Calls, calls[d] # NoCall PROVE calls[d].session # s
  BY <1>3, NoOtherCall
<1>4. LatestSequence(s)' = LatestSequence(s)
  BY <1>1, SameRows
<1>5. Exact(call, LatestSequence(s))
  BY <1>2 DEF Exact
<1>6. s \in recovered => nextSequence[s] = LatestSequence(s) + 1
  <2>1. ASSUME NEW d \in Calls, calls[d].pc = "saved" PROVE calls[d].session # s
    BY <1>3, <2>1 DEF NoCall
  <2> QED
    BY <2>1 DEF SInv, Cursor
<1> QED
  BY <1>1, <1>2, <1>3, <1>4, <1>5, <1>6, OneSession

\* A call that reads, acts, ends or is refused leaves the table and, unless it
\* recovers the session, the cursor.
LEMMA CallSerial ==
    ASSUME NInv, TInv, SInv, NEW c \in Calls,
           LoadLatest(c) \/ Restore(c) \/ Act(c) \/ Fail(c) \/ Settle(c)
    PROVE  SInv'
<1>1. calls[c].pc # "idle" /\ UNCHANGED snapshots
  BY DEF LoadLatest, Restore, Act, Fail, Settle, Settled
<1>2. PICK s \in Sessions :
         /\ s = calls[c].session
         /\ \A d \in Calls \ {c} : calls[d] # NoCall => calls[d].session # s
         /\ Exact(calls[c], LatestSequence(s))
         /\ s \in recovered /\ calls[c].pc # "saved" => nextSequence[s] = LatestSequence(s) + 1
         /\ LatestSequence(s) \in Nat \cup {-1} /\ LatestRecord(s) \in MaybeRecord
  BY <1>1, TheOnlyCall
<1>3. calls[c] \in CallRecord /\ calls[c] # NoCall
  BY <1>1, TheOnlyCall
<1>4. LatestSequence(s)' = LatestSequence(s)
  BY <1>1, SameRows
<1>5. CASE LoadLatest(c)
  <2> DEFINE call == [calls[c] EXCEPT !.pc = "restoring", !.loaded = LatestRecord(s),
                                      !.sequence = LatestSequence(s)]
  <2>1. /\ calls' = [calls EXCEPT ![c] = call] /\ calls[c].pc = "loading"
        /\ UNCHANGED << recovered, nextSequence >>
    BY <1>2, <1>5 DEF LoadLatest, NInv, Types
  <2>2. /\ call \in CallRecord /\ call.session = s /\ call.pc = "restoring"
        /\ call.sequence = LatestSequence(s)
    BY <1>2, <1>3 DEF CallRecord, MaybeRecord
  <2> HIDE DEF call
  <2>3. Exact(call, LatestSequence(s))
    BY <2>2 DEF Exact
  <2> QED
    BY <1>1, <1>2, <1>3, <1>4, <2>1, <2>2, <2>3, OneSession
<1>6. CASE Restore(c)
  <2> DEFINE call == [calls[c] EXCEPT !.pc = "acting", !.loaded = NoRecord, !.sequence = -1]
  <2>1. /\ calls' = [calls EXCEPT ![c] = call] /\ calls[c].pc = "restoring"
        /\ recovered' = recovered \cup {s}
        /\ nextSequence' = [nextSequence EXCEPT ![s] = calls[c].sequence + 1]
    BY <1>2, <1>6 DEF Restore, NInv, Types
  <2>2. call \in CallRecord /\ call.session = s /\ call.pc = "acting"
    BY <1>2, <1>3 DEF CallRecord
  <2> HIDE DEF call
  <2>3. Exact(call, LatestSequence(s))
    BY <2>2 DEF Exact
  <2>4. nextSequence \in [Sessions -> Nat] /\ calls[c].sequence = LatestSequence(s)
    BY <1>2, <2>1 DEF NInv, Types, Exact
  <2>5. /\ nextSequence'[s] = LatestSequence(s) + 1
        /\ \A t \in Sessions \ {s} : nextSequence'[t] = nextSequence[t]
    BY <2>1, <2>4
  <2> QED
    BY <1>1, <1>2, <1>3, <1>4, <2>1, <2>2, <2>3, <2>5, OneSession
<1>7. CASE Act(c)
  <2> DEFINE result == Outcome(s, calls[c].op)
             call == [calls[c] EXCEPT !.pc = IF result.transitioned THEN "saving" ELSE "returned",
                                      !.result = result.record,
                                      !.sequence = IF result.transitioned THEN nextSequence[s] ELSE -1]
  <2>1. /\ calls' = [calls EXCEPT ![c] = call] /\ calls[c].pc = "acting"
        /\ UNCHANGED << recovered, nextSequence >>
    BY <1>2, <1>7 DEF Act, NInv, Types
  <2>2. calls[c].op \in Evaluations \cup Overrides /\ result.record \in LifecycleSessionRecord
    BY <1>3, OutcomeContinues DEF NInv, CallRecord
  <2>3. nextSequence[s] \in Nat
    BY DEF NInv, Types
  <2>4. /\ call \in CallRecord /\ call.session = s /\ call.pc \in { "saving", "returned" }
        /\ call.pc = "saving" => call.sequence = nextSequence[s]
    <3> HIDE DEF result
    <3> QED
      BY <1>2, <1>3, <2>2, <2>3 DEF CallRecord
  <2>5. s \in recovered
    BY <1>2, <2>1 DEF TInv, Recovering
  <2> HIDE DEF call
  <2>6. Exact(call, LatestSequence(s))
    BY <1>2, <2>1, <2>4, <2>5 DEF Exact
  <2> QED
    BY <1>1, <1>2, <1>3, <1>4, <2>1, <2>4, <2>6, OneSession
<1>8. CASE Fail(c)
  <2> DEFINE call == [calls[c] EXCEPT !.pc = "failed"]
  <2>1. /\ calls' = [calls EXCEPT ![c] = call] /\ calls[c].pc \in { "loading", "saving" }
        /\ UNCHANGED << recovered, nextSequence >>
    BY <1>8 DEF Fail, Goto
  <2>2. call \in CallRecord /\ call.session = s /\ call.pc = "failed"
    BY <1>2, <1>3 DEF CallRecord
  <2> HIDE DEF call
  <2>3. Exact(call, LatestSequence(s))
    BY <2>2 DEF Exact
  <2> QED
    BY <1>1, <1>2, <1>3, <1>4, <2>1, <2>2, <2>3, OneSession
<1>9. CASE Settle(c)
  <2>1. /\ calls' = [calls EXCEPT ![c] = NoCall] /\ calls[c].pc # "saved"
        /\ UNCHANGED << recovered, nextSequence >>
    BY <1>9 DEF Settle, Settled
  <2>2. Exact(NoCall, LatestSequence(s))
    BY DEF Exact, NoCall
  <2> QED
    BY <1>1, <1>2, <1>3, <1>4, <2>1, <2>2, OneSession
<1> QED
  BY <1>5, <1>6, <1>7, <1>8, <1>9

\* The insert meets no other row, and its reply moves the cursor behind it.
LEMMA SaveSerial ==
    ASSUME NInv, TInv, SInv, NEW c \in Calls, Save(c) \/ Advance(c)
    PROVE  SInv'
<1>1. calls[c].pc # "idle" /\ UNCHANGED recovered
  BY DEF Save, Advance
<1>2. PICK s \in Sessions :
         /\ s = calls[c].session
         /\ \A d \in Calls \ {c} : calls[d] # NoCall => calls[d].session # s
         /\ Exact(calls[c], LatestSequence(s))
         /\ s \in recovered /\ calls[c].pc # "saved" => nextSequence[s] = LatestSequence(s) + 1
         /\ LatestSequence(s) \in Nat \cup {-1} /\ LatestRecord(s) \in MaybeRecord
  BY <1>1, TheOnlyCall
<1>3. calls[c] \in CallRecord /\ calls[c] # NoCall
  BY <1>1, TheOnlyCall
<1>4. CASE Save(c)
  <2> DEFINE call == [calls[c] EXCEPT !.pc = "saved"]
  <2>1. calls[c].pc = "saving" /\ UNCHANGED nextSequence
    BY <1>4 DEF Save
  <2>2. calls[c].sequence = LatestSequence(s) + 1
    BY <1>2, <2>1 DEF Exact
  <2>3. calls[c].sequence \notin DOMAIN snapshots[s]
    <3>1. DOMAIN snapshots[s] = 0..LatestSequence(s)
      BY DEF NInv, Gapless
    <3> QED
      BY <1>2, <2>2, <3>1
  <2>4. /\ Insert(calls[c].session, calls[c].sequence, RowOf(c))
        /\ calls' = [calls EXCEPT ![c] = call]
    BY <1>2, <1>4, <2>3 DEF Save, Goto
  <2>5. /\ LatestSequence(s)' = calls[c].sequence
        /\ \A t \in Sessions \ {s} : snapshots'[t] = snapshots[t]
    BY <1>2, <2>1, <2>4, CallAddsRow
  <2>6. /\ call \in CallRecord /\ call.session = s /\ call.pc = "saved"
        /\ call.sequence = calls[c].sequence
    BY <1>2, <1>3 DEF CallRecord
  <2> HIDE DEF call
  <2>7. Exact(call, calls[c].sequence)
    BY <2>6 DEF Exact
  <2> QED
    BY <1>1, <1>2, <1>3, <2>1, <2>4, <2>5, <2>6, <2>7, OneSession
<1>5. CASE Advance(c)
  <2> DEFINE call == [calls[c] EXCEPT !.pc = "returned"]
  <2>1. /\ calls[c].pc = "saved" /\ UNCHANGED snapshots
        /\ calls' = [calls EXCEPT ![c] = call]
        /\ nextSequence' = [nextSequence EXCEPT ![s] = calls[c].sequence + 1]
    BY <1>2, <1>5 DEF Advance, Goto
  <2>2. LatestSequence(s)' = LatestSequence(s) /\ calls[c].sequence = LatestSequence(s)
    BY <1>2, <2>1, SameRows DEF Exact
  <2>3. /\ nextSequence'[s] = LatestSequence(s) + 1
        /\ \A t \in Sessions \ {s} : nextSequence'[t] = nextSequence[t]
    BY <2>1, <2>2 DEF NInv, Types
  <2>4. call \in CallRecord /\ call.session = s /\ call.pc = "returned"
    BY <1>2, <1>3 DEF CallRecord
  <2> HIDE DEF call
  <2>5. Exact(call, LatestSequence(s))
    BY <2>4 DEF Exact
  <2> QED
    BY <1>1, <1>2, <1>3, <2>1, <2>2, <2>3, <2>4, <2>5, OneSession
<1> QED
  BY <1>4, <1>5

\* A crash is counted, with the inserts it leaves behind.
LEMMA CrashFaults ==
    ASSUME FaultsCount, NEW orphans \in SUBSET Calls, Crash(orphans) PROVE FaultsCount'
<1>1. PICK n \in Nat : n = Cardinality(orphans)
  BY CallsAssumption, FS_Subset, FS_CardinalityType
<1>2. faults' = [faults EXCEPT !.crashes = @ + 1, !.orphans = @ + n]
  BY <1>1 DEF Crash
<1>3. faults' = [begun |-> faults.begun, failures |-> faults.failures,
                 lostReplies |-> faults.lostReplies, crashes |-> faults.crashes + 1,
                 orphans |-> faults.orphans + n]
  BY <1>1, <1>2 DEF FaultsCount
<1> QED
  BY <1>1, <1>3 DEF FaultsCount

\* The counters of faults stay numbers.
LEMMA NextFaults ==
    ASSUME FaultsCount, [StoreNext]_storeVars PROVE FaultsCount'
<1>1. ASSUME NEW orphans \in SUBSET Calls, Crash(orphans) PROVE FaultsCount'
  BY <1>1, CrashFaults
<1>2. ASSUME NEW c \in Calls, CallStep(c) \/ Settle(c) PROVE FaultsCount'
  BY <1>2 DEF FaultsCount, CallStep, LoadLatest, Restore, Act, Save, Advance, Fail, LoseReply,
              OrphanSave, Settle
<1>3. ASSUME NEW c \in Calls, NEW s \in Sessions, NEW op \in Evaluations \cup Overrides,
             NewCall(c, s, op)
      PROVE  FaultsCount'
  BY <1>3 DEF FaultsCount, NewCall
<1>4. CASE UNCHANGED storeVars
  BY <1>4 DEF FaultsCount, storeVars
<1> QED
  BY <1>1, <1>2, <1>3, <1>4 DEF StoreNext

\* A crash that leaves no insert under way leaves no call at all.
LEMMA CrashSerial ==
    ASSUME MaxOrphans = 0, FaultsCount, NInv, SInv, NEW orphans \in SUBSET Calls, Crash(orphans)
    PROVE  /\ recovered' = {} /\ UNCHANGED snapshots
           /\ \A c \in Calls : calls'[c] = NoCall
<1>1. orphans = {}
  <2>1. /\ IsFiniteSet(orphans) /\ Cardinality(orphans) \in Nat /\ faults.orphans \in Nat
        /\ faults.orphans + Cardinality(orphans) <= 0
    BY CallsAssumption, FS_Subset, FS_CardinalityType DEF Crash, FaultsCount
  <2>2. Cardinality(orphans) = 0
    BY <2>1
  <2> QED
    BY <2>1, <2>2, FS_EmptySet
<1>2. ASSUME NEW c \in Calls PROVE calls[c].pc # "orphaned"
  <2>1. CASE calls[c] = NoCall
    BY <2>1 DEF NoCall
  <2>2. CASE calls[c] # NoCall
    <3>1. PICK s \in Sessions : s = calls[c].session
      BY <2>2 DEF NInv, Types, CallRecord
    <3> QED
      BY <2>2, <3>1 DEF SInv, Exact
  <2> QED
    BY <2>1, <2>2
<1> QED
  BY <1>1, <1>2 DEF Crash

\* One call at a time for each session, and no insert whose caller does not
\* hear of it: the cursor follows the table.
LEMMA NextSerial ==
    ASSUME Overlap = "none", MaxLostReplies = 0, MaxOrphans = 0,
           FaultsCount, NInv, TInv, SInv, StoreMoves
    PROVE  SInv'
<1>1. ASSUME NEW c \in Calls, NEW s \in Sessions, NEW op \in Evaluations \cup Overrides,
             MayBegin(s, op), Begin(c, s, op)
      PROVE  SInv'
  BY <1>1, BeginSerial
<1>2. ASSUME NEW c \in Calls, CallStep(c) \/ Settle(c) PROVE SInv'
  <2>1. ~LoseReply(c)
    BY DEF FaultsCount, LoseReply
  <2>2. ~OrphanSave(c)
    <3>1. ASSUME calls[c].pc = "orphaned" PROVE FALSE
      <4>1. calls[c].pc # "idle"
        BY <3>1
      <4> QED
        BY <3>1, <4>1, TheOnlyCall DEF Exact
    <3> QED
      BY <3>1 DEF OrphanSave
  <2> QED
    BY <1>2, <2>1, <2>2, CallSerial, SaveSerial DEF CallStep
<1>3. ASSUME NEW orphans \in SUBSET Calls, Crash(orphans) PROVE SInv'
  <2>1. recovered' = {} /\ \A c \in Calls : calls'[c] = NoCall
    BY <1>3, CrashSerial
  <2>2. (\A c, d \in Calls : Single(c, d))'
    BY <2>1 DEF Single
  <2>3. (\A s \in Sessions : Cursor(s))'
    BY <2>1 DEF Cursor
  <2> QED
    BY <2>1, <2>2, <2>3 DEF SInv
<1>4. CASE UNCHANGED << memory, recovered, nextSequence, snapshots, calls, acknowledged >>
  <2>1. UNCHANGED << recovered, nextSequence, snapshots, calls >>
    BY <1>4
  <2>2. \A s : LatestSequence(s)' = LatestSequence(s)
    BY <2>1 DEF LatestSequence
  <2>3. (\A c, d \in Calls : Single(c, d))' /\ (\A s \in Sessions : Cursor(s))'
    BY <2>1, <2>2 DEF SInv, Single, Cursor
  <2>4. ASSUME NEW c \in Calls, NEW s \in Sessions, calls'[c] # NoCall, calls'[c].session = s
        PROVE  Exact(calls[c], LatestSequence(s))'
    BY <2>1, <2>2, <2>4 DEF SInv, Exact
  <2> QED
    BY <2>3, <2>4 DEF SInv
<1> QED
  BY <1>1, <1>2, <1>3, <1>4 DEF StoreMoves

\* Nothing is under way at first.
LEMMA InitialSerial == StoreInit => FaultsCount /\ SInv
<1> SUFFICES ASSUME StoreInit PROVE FaultsCount /\ SInv
  OBVIOUS
<1>1. FaultsCount
  BY DEF StoreInit, FaultsCount
<1>2. recovered = {} /\ \A c \in Calls : calls[c] = NoCall
  BY DEF StoreInit
<1> QED
  BY <1>1, <1>2 DEF SInv, Single, Cursor

\* Each change gets a number of its own, whatever the database refuses and
\* however often the process is lost, as long as calls for a session wait for
\* each other and no row goes in without its caller hearing of it
\* (saveCheckpoint of sessionLifecycleStore.ts).
THEOREM ChangesAreNumbered ==
    ASSUME Overlap = "none", MaxLostReplies = 0, MaxOrphans = 0
    PROVE  StoreSpec => []EveryChangeIsNumbered
<1>1. Overlap # "any"
  OBVIOUS
<1>2. FaultsCount /\ NInv /\ TInv /\ SInv /\ [StoreNext]_storeVars => FaultsCount' /\ SInv'
  BY NextFaults, NextSerial, StoreNextMoves
<1>3. NInv /\ SInv => EveryChangeIsNumbered
  <2> SUFFICES ASSUME NInv, SInv, NEW c \in Calls, calls[c].pc = "collided" PROVE FALSE
    BY DEF EveryChangeIsNumbered
  <2>1. calls[c].pc # "idle"
    OBVIOUS
  <2> QED
    BY <2>1, TheOnlyCall DEF Exact
<1>4. StoreSpec => [](NInv /\ TInv)
  BY <1>1, StoreInvariance, TrailInvariance, PTL
<1> QED
  BY InitialSerial, <1>2, <1>3, <1>4, PTL DEF StoreSpec

-----------------------------------------------------------------------------
(* A store that nothing disturbs *)

\* What the contract sees of a record.
StateIn(record) == IF record = NoRecord THEN "UNKNOWN" ELSE record.state

RecoveriesIn(record) == IF record = NoRecord THEN 0 ELSE Len(record.recoveryAnnotations)

EscalationsIn(record) == IF record = NoRecord THEN 0 ELSE Len(record.disqualificationAnnotations)

\* What memory may hold over the last row of the table.
Held(held, record) ==
    \/ held = record
    \/ /\ record = NoRecord
       /\ StateIn(held) = "UNKNOWN" /\ RecoveriesIn(held) = 0 /\ EscalationsIn(held) = 0

\* Who makes the move.
By(op) == IF op.kind = "evaluate" THEN "fsm" ELSE "human"

\* One move of the contract, by the state machine or by a human.
Moves(from, to, by) ==
    /\ by = "fsm" => << StateIn(from), to.state >> \in Durable!AutomaticMoves
    /\ EscalationsIn(to) = EscalationsIn(from) + (IF to.state = "DISQUALIFIED" THEN 1 ELSE 0)
    /\ RecoveriesIn(to) =
           RecoveriesIn(from) + (IF by = "fsm" /\ to.state = "RECOVERED" THEN 1 ELSE 0)

\* Memory is what the table holds, or is one move ahead of it: the row of this
\* move is on its way.
Resting(s) ==
    s \in recovered =>
        \/ Held(memory[s], LatestRecord(s))
        \/ \E c \in Calls : calls[c].pc = "saving" /\ calls[c].session = s

Ahead(c, s) ==
    calls[c].pc = "saving" /\ calls[c].session = s =>
        /\ memory[s] = calls[c].result
        /\ Moves(LatestRecord(s), calls[c].result, By(calls[c].op))

RInv ==
    /\ \A s \in Sessions : Resting(s)
    /\ \A c \in Calls, s \in Sessions : Ahead(c, s)

\* The contract speaks of the same states and the same ladder.
LEMMA DurableLadder ==
    /\ Durable!LifecycleStates = LifecycleStates
    /\ \A state : Durable!Rank(state) = Rank(state)
    /\ Durable!TierStates = { ClimbTiers[tier].state : tier \in Tiers }
BY DEF Durable!LifecycleStates, LifecycleStates, Durable!Rank, Rank, Durable!TierStates,
       Durable!ClimbTiers, ClimbTiers, Durable!Tiers, Tiers

\* What a call starts from, when memory is at rest over a record.
LEMMA CurrentIsHeld ==
    ASSUME Types, NEW s \in Sessions, NEW now \in Int, NEW record \in MaybeRecord,
           Held(memory[s], record),
           NEW current, current = CurrentRecord(s, now)
    PROVE  /\ current \in LifecycleSessionRecord /\ Held(current, record)
           /\ current.state = StateIn(record)
           /\ Len(current.recoveryAnnotations) = RecoveriesIn(record)
           /\ Len(current.disqualificationAnnotations) = EscalationsIn(record)
<1>1. memory[s] \in MaybeRecord
  BY DEF Types
<1>2. CASE memory[s] = NoRecord
  <2>1. record = NoRecord
    BY <1>2 DEF Held
  <2>2. /\ current = InitialLifecycleRecord(now) /\ current \in LifecycleSessionRecord
        /\ current.state = "UNKNOWN" /\ Len(current.recoveryAnnotations) = 0
        /\ Len(current.disqualificationAnnotations) = 0
    BY <1>2 DEF CurrentRecord, InitialLifecycleRecord, LifecycleSessionRecord, LifecycleStates
  <2>3. current # NoRecord
    BY <2>2, NoRecordIsNoRecord
  <2> QED
    BY <2>1, <2>2, <2>3 DEF Held, StateIn, RecoveriesIn, EscalationsIn
<1>3. CASE memory[s] # NoRecord
  <2>1. current = memory[s] /\ current \in LifecycleSessionRecord /\ current # NoRecord
    BY <1>1, <1>3 DEF CurrentRecord, MaybeRecord
  <2> QED
    BY <2>1 DEF Held, StateIn, RecoveriesIn, EscalationsIn
<1> QED
  BY <1>2, <1>3

\* An entry is a move of the contract: a human's in any case, the state
\* machine's if the pair of states is one of its moves.
LEMMA EnterMoves ==
    ASSUME NEW record \in MaybeRecord, NEW current \in LifecycleSessionRecord,
           current.state = StateIn(record),
           Len(current.recoveryAnnotations) = RecoveriesIn(record),
           Len(current.disqualificationAnnotations) = EscalationsIn(record),
           NEW to \in LifecycleStates, NEW now \in Int,
           NEW by, by = "fsm" => /\ << current.state, to >> \in Durable!AutomaticMoves
                                 /\ to # "RECOVERED",
           NEW new, new = Enter(to, now, current).record
    PROVE  Moves(record, new, by)
<1> DEFINE e == [disqualifiedAt |-> now, previousState |-> current.state]
<1>1. /\ new \in LifecycleSessionRecord /\ new.state = to
      /\ new.recoveryAnnotations = current.recoveryAnnotations
  BY EnterType
<1>2. new # NoRecord
  BY <1>1, NoRecordIsNoRecord
<1>3. /\ current.disqualificationAnnotations \in Seq(DisqualificationAnnotation)
      /\ e \in DisqualificationAnnotation
      /\ current.recoveryAnnotations \in Seq(RecoveryAnnotation)
  BY DEF LifecycleSessionRecord, DisqualificationAnnotation
<1> HIDE DEF e
<1>4. Len(new.disqualificationAnnotations) =
          Len(current.disqualificationAnnotations) + (IF to = "DISQUALIFIED" THEN 1 ELSE 0)
  <2>1. CASE to = "DISQUALIFIED"
    <3>1. new.disqualificationAnnotations = Append(current.disqualificationAnnotations, e)
      BY <2>1, EscalationAppends DEF e
    <3>2. Len(Append(current.disqualificationAnnotations, e)) =
              Len(current.disqualificationAnnotations) + 1
      BY <1>3
    <3> QED
      BY <2>1, <3>1, <3>2
  <2>2. CASE to # "DISQUALIFIED"
    <3>1. new.disqualificationAnnotations = current.disqualificationAnnotations
      BY <2>2, EnterAnnotatesNothingElse
    <3> QED
      BY <1>3, <2>2, <3>1
  <2> QED
    BY <2>1, <2>2
<1>5. RecoveriesIn(new) = RecoveriesIn(record) /\ RecoveriesIn(record) \in Nat
  BY <1>1, <1>2, <1>3 DEF RecoveriesIn
<1>6. EscalationsIn(new) = EscalationsIn(record) + (IF to = "DISQUALIFIED" THEN 1 ELSE 0)
  BY <1>2, <1>4 DEF EscalationsIn
<1> QED
  BY <1>1, <1>5, <1>6 DEF Moves

\* So is a recovery, which leaves its annotation.
LEMMA RecoverMoves ==
    ASSUME NEW record \in MaybeRecord, NEW current \in LifecycleSessionRecord,
           current.state = StateIn(record), current.state = "LOST_CONFIDENCE",
           Len(current.recoveryAnnotations) = RecoveriesIn(record),
           Len(current.disqualificationAnnotations) = EscalationsIn(record),
           NEW now \in Int,
           NEW new, new = Recover(now, current).record
    PROVE  Moves(record, new, "fsm")
<1> DEFINE e == [recoveredAt |-> now, regressedFromState |-> "LOST_CONFIDENCE"]
<1>1. /\ new \in LifecycleSessionRecord /\ new.state = "RECOVERED"
      /\ new.disqualificationAnnotations = current.disqualificationAnnotations
  BY RecoverType
<1>2. new # NoRecord
  BY <1>1, NoRecordIsNoRecord
<1>3. /\ current.recoveryAnnotations \in Seq(RecoveryAnnotation)
      /\ e \in RecoveryAnnotation
      /\ current.disqualificationAnnotations \in Seq(DisqualificationAnnotation)
  BY DEF LifecycleSessionRecord, RecoveryAnnotation, LifecycleStates
<1>4. new.recoveryAnnotations = Append(current.recoveryAnnotations, e)
  BY RecoveryAppends
<1>5. Len(new.recoveryAnnotations) = Len(current.recoveryAnnotations) + 1
  BY <1>3, <1>4
<1>6. RecoveriesIn(new) = RecoveriesIn(record) + 1
  BY <1>2, <1>5 DEF RecoveriesIn
<1>7. EscalationsIn(new) = EscalationsIn(record) + 0 /\ new.state # "DISQUALIFIED"
  BY <1>1, <1>2, <1>3 DEF EscalationsIn
<1>8. << StateIn(record), new.state >> \in Durable!AutomaticMoves
  BY <1>1, DurableLadder DEF Durable!AutomaticMoves, LifecycleStates
<1> QED
  BY <1>1, <1>6, <1>7, <1>8 DEF Moves

\* Whatever a call does from rest, it makes one move of the contract or none.
LEMMA OutcomeMoves ==
    ASSUME Types, NEW s \in Sessions, NEW op \in Evaluations \cup Overrides,
           NEW record \in MaybeRecord, Held(memory[s], record),
           NEW result, result = Outcome(s, op)
    PROVE  /\ result.transitioned => Moves(record, result.record, By(op))
           /\ ~result.transitioned => Held(result.record, record)
<1> DEFINE now == op.now
           current == CurrentRecord(s, now)
<1>1. now \in Int
  BY CallsHaveTimes
<1>2. /\ current \in LifecycleSessionRecord /\ Held(current, record)
      /\ current.state = StateIn(record)
      /\ Len(current.recoveryAnnotations) = RecoveriesIn(record)
      /\ Len(current.disqualificationAnnotations) = EscalationsIn(record)
  BY <1>1, CurrentIsHeld
<1>3. result = IF op.kind = "evaluate"
               THEN EvaluateLifecycleTransition(current, op.posterior, now, op.contradiction)
               ELSE Enter(op.nextState, now, current)
  BY DEF Outcome
<1> HIDE DEF now, current
<1>4. current.state \in LifecycleStates
  BY <1>2 DEF LifecycleSessionRecord
<1>5. ASSUME NEW to \in LifecycleStates, result = Enter(to, now, current),
             By(op) = "fsm" => /\ << current.state, to >> \in Durable!AutomaticMoves
                               /\ to # "RECOVERED"
      PROVE  result.transitioned /\ Moves(record, result.record, By(op))
  <2>1. result.transitioned
    BY <1>1, <1>2, <1>5, EnterType
  <2>2. Moves(record, result.record, By(op))
    BY <1>1, <1>2, <1>5, EnterMoves
  <2> QED
    BY <2>1, <2>2
<1>6. CASE op \in Overrides
  <2>1. op.kind = "override" /\ op.nextState \in LifecycleStates
    BY <1>6, OverridesAssumption
  <2>2. result = Enter(op.nextState, now, current) /\ By(op) = "human"
    BY <1>3, <2>1 DEF By
  <2> QED
    BY <1>5, <2>1, <2>2
<1>7. CASE op \in Evaluations
  <2>1. /\ op.kind = "evaluate" /\ op.posterior \in Posterior
        /\ op.contradiction \in ContradictionSignal
    BY <1>7, EvaluationsAssumption
  <2>2. /\ result = EvaluateLifecycleTransition(current, op.posterior, now, op.contradiction)
        /\ By(op) = "fsm"
    BY <1>3, <2>1 DEF By
  <2>3. CASE result = Hold(current)
    <3>1. result.record = current /\ result.transitioned = FALSE
      BY <2>3 DEF Hold
    <3> QED
      BY <1>2, <3>1
  <2>4. CASE current.state # "DISQUALIFIED" /\ result = Enter("DISQUALIFIED", now, current)
    <3>1. /\ << current.state, "DISQUALIFIED" >> \in Durable!AutomaticMoves
          /\ "DISQUALIFIED" \in LifecycleStates
      BY <1>4, <2>4, DurableLadder DEF Durable!AutomaticMoves, LifecycleStates
    <3> QED
      BY <1>5, <2>4, <3>1
  <2>5. CASE current.state # "DISQUALIFIED" /\ result = Enter("LOST_CONFIDENCE", now, current)
    <3>1. /\ << current.state, "LOST_CONFIDENCE" >> \in Durable!AutomaticMoves
          /\ "LOST_CONFIDENCE" \in LifecycleStates
      BY <1>4, <2>5, DurableLadder DEF Durable!AutomaticMoves, LifecycleStates
    <3> QED
      BY <1>5, <2>5, <3>1
  <2>6. CASE current.state = "LOST_CONFIDENCE" /\ result = Recover(now, current)
    <3>1. result.transitioned
      BY <1>1, <1>2, <2>6, RecoverType
    <3>2. Moves(record, result.record, "fsm")
      BY <1>1, <1>2, <2>6, RecoverMoves
    <3> QED
      BY <2>2, <3>1, <3>2
  <2>7. ASSUME current.state \notin {"DISQUALIFIED", "LOST_CONFIDENCE"},
               NEW tier \in Tiers, tier > Rank(current.state),
               result = Enter(ClimbTiers[tier].state, now, current)
        PROVE  result.transitioned /\ Moves(record, result.record, By(op))
    <3> DEFINE to == ClimbTiers[tier].state
    <3>1. to \in LifecycleStates /\ to \notin {"DISQUALIFIED", "RECOVERED"} /\ Rank(to) = tier
      BY TierTable
    <3>2. to \in Durable!TierStates
      BY DurableLadder
    <3>3. << current.state, to >> \in Durable!AutomaticMoves
      <4> HIDE DEF to
      <4> QED
        BY <1>4, <2>7, <3>1, <3>2, DurableLadder DEF Durable!AutomaticMoves
    <3> QED
      BY <1>5, <2>7, <3>1, <3>3
  <2> QED
    BY <1>2, <2>1, <2>2, <2>3, <2>4, <2>5, <2>6, <2>7, EvaluateOutcomes
<1> QED
  BY <1>6, <1>7

\* A step of the only call of a session; memory and the table come out of it
\* at rest, or the call has sent off the row that memory holds.
LEMMA OneSessionRests ==
    ASSUME NInv, RInv, NEW c \in Calls, NEW s \in Sessions,
           NEW call \in CallRecord \cup {NoCall},
           calls' = [calls EXCEPT ![c] = call],
           calls[c] # NoCall => calls[c].session = s,
           \A d \in Calls \ {c} : calls[d] # NoCall => calls[d].session # s,
           call # NoCall => call.session = s,
           \A t \in Sessions \ {s} :
               /\ snapshots'[t] = snapshots[t] /\ memory'[t] = memory[t]
               /\ t \in recovered' => t \in recovered,
           NEW record, LatestRecord(s)' = record,
           s \in recovered' => Held(memory'[s], record) \/ call.pc = "saving",
           call.pc = "saving" =>
               memory'[s] = call.result /\ Moves(record, call.result, By(call.op))
    PROVE  RInv'
<1>1. \A d \in Calls : calls'[d] = IF d = c THEN call ELSE calls[d]
  BY DEF NInv, Types
<1>2. \A t \in Sessions \ {s} : LatestRecord(t)' = LatestRecord(t)
  BY SameRows
<1>3. ASSUME NEW d \in Calls, NEW t \in Sessions PROVE Ahead(d, t)'
  <2>1. ASSUME calls'[d].pc = "saving", calls'[d].session = t
        PROVE  /\ memory'[t] = calls'[d].result
               /\ Moves(LatestRecord(t)', calls'[d].result, By(calls'[d].op))
    <3>1. calls'[d] # NoCall
      BY <2>1 DEF NoCall
    <3>2. CASE d = c
      BY <1>1, <2>1, <3>1, <3>2
    <3>3. CASE d # c
      <4>1. calls'[d] = calls[d] /\ t # s
        BY <1>1, <2>1, <3>1, <3>3
      <4>2. Ahead(d, t) /\ LatestRecord(t)' = LatestRecord(t) /\ memory'[t] = memory[t]
        BY <1>2, <4>1 DEF RInv
      <4> QED
        BY <2>1, <4>1, <4>2 DEF Ahead
    <3> QED
      BY <3>2, <3>3
  <2> QED
    BY <2>1 DEF Ahead, By, Moves, EscalationsIn, RecoveriesIn, StateIn
<1>4. ASSUME NEW t \in Sessions PROVE Resting(t)'
  <2> DEFINE Sending == \E d \in Calls : calls'[d].pc = "saving" /\ calls'[d].session = t
  <2>1. ASSUME t \in recovered'
        PROVE  Held(memory'[t], LatestRecord(t)') \/ Sending
    <3>1. CASE t = s
      <4>1. CASE call.pc = "saving"
        <5>1. calls'[c].pc = "saving" /\ calls'[c].session = t
          BY <1>1, <3>1, <4>1 DEF NoCall
        <5> QED
          BY <5>1
      <4>2. CASE call.pc # "saving"
        BY <2>1, <3>1, <4>2
      <4> QED
        BY <4>1, <4>2
    <3>2. CASE t # s
      <4>1. /\ LatestRecord(t)' = LatestRecord(t) /\ memory'[t] = memory[t]
            /\ t \in recovered /\ Resting(t)
        BY <1>2, <2>1, <3>2 DEF RInv
      <4>2. ASSUME NEW d \in Calls, calls[d].pc = "saving", calls[d].session = t
            PROVE  Sending
        <5>1. calls[d] # NoCall
          BY <4>2 DEF NoCall
        <5>2. d # c
          BY <3>2, <4>2, <5>1
        <5>3. calls'[d].pc = "saving" /\ calls'[d].session = t
          BY <1>1, <4>2, <5>2
        <5> QED
          BY <5>3
      <4> HIDE DEF Sending
      <4> QED
        BY <4>1, <4>2 DEF Resting
    <3> QED
      BY <3>1, <3>2
  <2> QED
    BY <2>1 DEF Resting, Held, EscalationsIn, RecoveriesIn, StateIn
<1> QED
  BY <1>3, <1>4 DEF RInv

\* Of a session that has been recovered and sends nothing off, memory is at
\* rest.
LEMMA TheOnlyCallRests ==
    ASSUME NInv, SInv, RInv, NEW c \in Calls, calls[c].pc # "idle"
    PROVE  /\ calls[c] \in CallRecord /\ calls[c] # NoCall
           /\ \E s \in Sessions :
                 /\ s = calls[c].session
                 /\ \A d \in Calls \ {c} : calls[d] # NoCall => calls[d].session # s
                 /\ Exact(calls[c], LatestSequence(s))
                 /\ s \in recovered /\ calls[c].pc # "saving" => Held(memory[s], LatestRecord(s))
                 /\ Ahead(c, s)
                 /\ LatestRecord(s) \in MaybeRecord
<1>1. PICK s \in Sessions :
         /\ s = calls[c].session
         /\ \A d \in Calls \ {c} : calls[d] # NoCall => calls[d].session # s
         /\ Exact(calls[c], LatestSequence(s))
         /\ s \in recovered /\ calls[c].pc # "saved" => nextSequence[s] = LatestSequence(s) + 1
         /\ LatestSequence(s) \in Nat \cup {-1} /\ LatestRecord(s) \in MaybeRecord
  BY TheOnlyCall
<1>2. calls[c] \in CallRecord /\ calls[c] # NoCall
  BY TheOnlyCall
<1>3. ASSUME s \in recovered, calls[c].pc # "saving" PROVE Held(memory[s], LatestRecord(s))
  <2>1. ASSUME NEW d \in Calls, calls[d].pc = "saving", calls[d].session = s PROVE FALSE
    <3>1. calls[d] # NoCall
      BY <2>1 DEF NoCall
    <3> QED
      BY <1>1, <1>3, <2>1, <3>1
  <2> QED
    BY <1>3, <2>1 DEF RInv, Resting
<1>4. Ahead(c, s)
  BY DEF RInv
<1> QED
  BY <1>1, <1>2, <1>3, <1>4

\* A session without a call is at rest when the next call begins.
LEMMA BeginRests ==
    ASSUME Overlap = "none", NInv, SInv, RInv,
           NEW c \in Calls, NEW s \in Sessions, NEW op \in Evaluations \cup Overrides,
           MayBegin(s, op), Begin(c, s, op)
    PROVE  RInv'
<1> DEFINE call == [pc |-> IF s \in recovered THEN "acting" ELSE "loading", session |-> s,
                    op |-> op, loaded |-> NoRecord, result |-> NoRecord, sequence |-> -1]
<1>1. /\ calls[c] = NoCall /\ calls' = [calls EXCEPT ![c] = call]
      /\ UNCHANGED << memory, recovered, nextSequence, snapshots, acknowledged >>
  BY DEF Begin
<1>2. call \in CallRecord /\ call.session = s /\ call.pc \in { "acting", "loading" }
  BY DEF CallRecord
<1> HIDE DEF call
<1>3. ASSUME NEW d \in Calls, calls[d] # NoCall PROVE calls[d].session # s
  BY <1>3, NoOtherCall
<1>4. LatestRecord(s)' = LatestRecord(s)
  BY <1>1, SameRows
<1>5. s \in recovered => Held(memory[s], LatestRecord(s))
  <2>1. ASSUME NEW d \in Calls, calls[d].pc = "saving" PROVE calls[d].session # s
    BY <1>3, <2>1 DEF NoCall
  <2> QED
    BY <2>1 DEF RInv, Resting
<1> QED
  BY <1>1, <1>2, <1>3, <1>4, <1>5, OneSessionRests

\* Reading and acknowledging leave memory and the table; recovery brings
\* memory to rest; a call that acts leaves it at rest, or sends off a row that
\* is one move of the contract ahead of the table.
LEMMA CallRests ==
    ASSUME NInv, TInv, SInv, Unknown, RInv, NEW c \in Calls,
           LoadLatest(c) \/ Restore(c) \/ Act(c) \/ Advance(c) \/ Settle(c)
    PROVE  RInv'
<1>1. calls[c].pc # "idle" /\ UNCHANGED snapshots
  BY DEF LoadLatest, Restore, Act, Advance, Settle, Settled
<1>2. PICK s \in Sessions :
         /\ s = calls[c].session
         /\ \A d \in Calls \ {c} : calls[d] # NoCall => calls[d].session # s
         /\ Exact(calls[c], LatestSequence(s))
         /\ s \in recovered /\ calls[c].pc # "saving" => Held(memory[s], LatestRecord(s))
         /\ Ahead(c, s)
         /\ LatestRecord(s) \in MaybeRecord
  BY <1>1, TheOnlyCallRests
<1>3. calls[c] \in CallRecord /\ calls[c] # NoCall
  BY <1>1, TheOnlyCallRests
<1>4. LatestRecord(s)' = LatestRecord(s)
  BY <1>1, SameRows
<1>5. CASE LoadLatest(c)
  <2> DEFINE call == [calls[c] EXCEPT !.pc = "restoring", !.loaded = LatestRecord(s),
                                      !.sequence = LatestSequence(s)]
  <2>1. /\ calls' = [calls EXCEPT ![c] = call] /\ calls[c].pc = "loading"
        /\ UNCHANGED << recovered, memory >>
    BY <1>2, <1>5 DEF LoadLatest, NInv, Types
  <2>2. call \in CallRecord /\ call.session = s /\ call.pc = "restoring"
    <3>1. LatestSequence(s) \in Nat \cup {-1}
      BY LatestIsRecord DEF NInv
    <3> QED
      BY <1>2, <1>3, <3>1 DEF CallRecord, MaybeRecord
  <2> HIDE DEF call
  <2> QED
    BY <1>1, <1>2, <1>3, <1>4, <2>1, <2>2, OneSessionRests
<1>6. CASE Restore(c)
  <2> DEFINE call == [calls[c] EXCEPT !.pc = "acting", !.loaded = NoRecord, !.sequence = -1]
  <2>1. /\ calls' = [calls EXCEPT ![c] = call] /\ calls[c].pc = "restoring"
        /\ recovered' = recovered \cup {s}
        /\ memory' = IF calls[c].loaded = NoRecord THEN memory
                     ELSE [memory EXCEPT ![s] = calls[c].loaded]
    BY <1>2, <1>6 DEF Restore, NInv, Types
  <2>2. call \in CallRecord /\ call.session = s /\ call.pc = "acting"
    BY <1>2, <1>3 DEF CallRecord
  <2> HIDE DEF call
  <2>3. calls[c].loaded = LatestRecord(s)
    <3>1. calls[c].sequence = LatestSequence(s)
      BY <1>2, <2>1 DEF Exact
    <3>2. Faithful(calls[c], LatestSequence(s), LatestRecord(s), memory[s])
      BY <1>2, <1>3 DEF TInv
    <3> QED
      BY <2>1, <3>1, <3>2 DEF Faithful
  <2>4. memory[s] = NoRecord
    BY <1>2, <2>1 DEF TInv, Recovering, Unknown
  <2>5. memory'[s] = LatestRecord(s) /\ \A t \in Sessions \ {s} : memory'[t] = memory[t]
    BY <2>1, <2>3, <2>4 DEF NInv, Types
  <2>6. Held(memory'[s], LatestRecord(s))
    BY <2>5 DEF Held
  <2> QED
    BY <1>1, <1>2, <1>3, <1>4, <2>1, <2>2, <2>5, <2>6, OneSessionRests
<1>7. CASE Act(c)
  <2> DEFINE op == calls[c].op
             result == Outcome(s, op)
             call == [calls[c] EXCEPT !.pc = IF result.transitioned THEN "saving" ELSE "returned",
                                      !.result = result.record,
                                      !.sequence = IF result.transitioned THEN nextSequence[s] ELSE -1]
  <2>1. /\ calls' = [calls EXCEPT ![c] = call] /\ calls[c].pc = "acting"
        /\ UNCHANGED recovered
        /\ memory' = [memory EXCEPT ![s] = result.record]
    BY <1>2, <1>7 DEF Act, NInv, Types
  <2>2. op \in Evaluations \cup Overrides /\ result.record \in LifecycleSessionRecord
    BY <1>3, OutcomeContinues DEF NInv, CallRecord
  <2>3. nextSequence[s] \in Nat
    BY DEF NInv, Types
  <2>4. s \in recovered
    BY <1>2, <2>1 DEF TInv, Recovering
  <2>5. /\ result.transitioned => Moves(LatestRecord(s), result.record, By(op))
        /\ ~result.transitioned => Held(result.record, LatestRecord(s))
    BY <1>2, <2>1, <2>2, <2>4, OutcomeMoves DEF NInv
  <2>6. /\ call \in CallRecord /\ call.session = s /\ call.op = op
        /\ call.pc = IF result.transitioned THEN "saving" ELSE "returned"
        /\ call.result = result.record
    <3> HIDE DEF result
    <3> QED
      BY <1>2, <1>3, <2>2, <2>3 DEF CallRecord
  <2>7. memory'[s] = result.record /\ \A t \in Sessions \ {s} : memory'[t] = memory[t]
    BY <2>1 DEF NInv, Types
  <2> HIDE DEF call, result, op
  <2> QED
    BY <1>1, <1>2, <1>3, <1>4, <2>1, <2>5, <2>6, <2>7, OneSessionRests
<1>8. CASE Advance(c)
  <2> DEFINE call == [calls[c] EXCEPT !.pc = "returned"]
  <2>1. /\ calls' = [calls EXCEPT ![c] = call] /\ calls[c].pc = "saved"
        /\ UNCHANGED << recovered, memory >>
    BY <1>8 DEF Advance, Goto
  <2>2. call \in CallRecord /\ call.session = s /\ call.pc = "returned"
    BY <1>2, <1>3 DEF CallRecord
  <2> HIDE DEF call
  <2> QED
    BY <1>1, <1>2, <1>3, <1>4, <2>1, <2>2, OneSessionRests
<1>9. CASE Settle(c)
  <2>1. /\ calls' = [calls EXCEPT ![c] = NoCall] /\ calls[c].pc # "saving"
        /\ UNCHANGED << recovered, memory >>
    BY <1>9 DEF Settle, Settled
  <2>2. NoCall.pc = "idle"
    BY DEF NoCall
  <2> QED
    BY <1>1, <1>2, <1>3, <1>4, <2>1, <2>2, OneSessionRests
<1> QED
  BY <1>5, <1>6, <1>7, <1>8, <1>9

\* What a row added by an undisturbed call does: the table catches up with
\* memory by one move of the contract.
LEMMA SaveMoves ==
    ASSUME NInv, SInv, RInv, NEW c \in Calls, Save(c)
    PROVE  /\ calls[c].pc = "saving" /\ calls[c] \in CallRecord
           /\ Insert(calls[c].session, calls[c].sequence, RowOf(c))
           /\ Goto(c, "saved")
           /\ \E s \in Sessions :
                 /\ s = calls[c].session
                 /\ \A d \in Calls \ {c} : calls[d] # NoCall => calls[d].session # s
                 /\ \A t \in Sessions \ {s} : snapshots'[t] = snapshots[t]
                 /\ LatestSequence(s)' = calls[c].sequence
                 /\ LatestRecord(s)' = calls[c].result
                 /\ calls[c].sequence \in Nat
                 /\ calls[c].result \in LifecycleSessionRecord
                 /\ memory[s] = calls[c].result
                 /\ Moves(LatestRecord(s), calls[c].result, By(calls[c].op))
<1>1. calls[c].pc = "saving" /\ calls[c].pc # "idle"
  BY DEF Save
<1>2. PICK s \in Sessions :
         /\ s = calls[c].session
         /\ \A d \in Calls \ {c} : calls[d] # NoCall => calls[d].session # s
         /\ Exact(calls[c], LatestSequence(s))
         /\ s \in recovered /\ calls[c].pc # "saving" => Held(memory[s], LatestRecord(s))
         /\ Ahead(c, s)
         /\ LatestRecord(s) \in MaybeRecord
  BY <1>1, TheOnlyCallRests
<1>3. calls[c] \in CallRecord /\ calls[c] # NoCall
  BY <1>1, TheOnlyCallRests
<1>4. calls[c].sequence \notin DOMAIN snapshots[s]
  <2>1. DOMAIN snapshots[s] = 0..LatestSequence(s) /\ LatestSequence(s) \in Nat \cup {-1}
    BY DEF NInv, Gapless
  <2>2. calls[c].sequence = LatestSequence(s) + 1
    BY <1>1, <1>2 DEF Exact
  <2> QED
    BY <2>1, <2>2
<1>5. Insert(calls[c].session, calls[c].sequence, RowOf(c)) /\ Goto(c, "saved")
  BY <1>2, <1>4 DEF Save
<1>6. /\ LatestSequence(s)' = calls[c].sequence
      /\ LatestRecord(s)' = calls[c].result
      /\ \A t \in Sessions \ {s} : snapshots'[t] = snapshots[t]
  BY <1>1, <1>2, <1>5, CallAddsRow
<1>7. calls[c].sequence \in Nat /\ calls[c].result \in LifecycleSessionRecord
  BY <1>1, <1>2, <1>3 DEF NInv, Numbered
<1>8. memory[s] = calls[c].result /\ Moves(LatestRecord(s), calls[c].result, By(calls[c].op))
  BY <1>1, <1>2 DEF Ahead
<1> QED
  BY <1>1, <1>2, <1>3, <1>5, <1>6, <1>7, <1>8

\* The table then holds what memory holds.
LEMMA SaveRests ==
    ASSUME NInv, SInv, RInv, NEW c \in Calls, Save(c) PROVE RInv'
<1> DEFINE call == [calls[c] EXCEPT !.pc = "saved"]
<1>1. PICK s \in Sessions :
         /\ s = calls[c].session
         /\ \A d \in Calls \ {c} : calls[d] # NoCall => calls[d].session # s
         /\ \A t \in Sessions \ {s} : snapshots'[t] = snapshots[t]
         /\ LatestSequence(s)' = calls[c].sequence
         /\ LatestRecord(s)' = calls[c].result
         /\ calls[c].sequence \in Nat
         /\ calls[c].result \in LifecycleSessionRecord
         /\ memory[s] = calls[c].result
         /\ Moves(LatestRecord(s), calls[c].result, By(calls[c].op))
  BY SaveMoves
<1>2. /\ calls' = [calls EXCEPT ![c] = call] /\ calls[c] \in CallRecord
      /\ UNCHANGED << memory, recovered >>
  BY SaveMoves DEF Save, Goto
<1>3. call \in CallRecord /\ call.session = s /\ call.pc = "saved"
  BY <1>1, <1>2 DEF CallRecord
<1> HIDE DEF call
<1>4. Held(memory'[s], calls[c].result)
  BY <1>1, <1>2 DEF Held
<1> QED
  BY <1>1, <1>2, <1>3, <1>4, OneSessionRests

\* A store that nothing disturbs: its memory is what the table holds, or one
\* move of the contract ahead of it.
LEMMA NextRests ==
    ASSUME Overlap = "none", MaxFailures = 0, MaxLostReplies = 0, MaxOrphans = 0,
           FaultsCount, NInv, TInv, SInv, Unknown, RInv, StoreMoves
    PROVE  RInv'
<1>1. ASSUME NEW c \in Calls, NEW s \in Sessions, NEW op \in Evaluations \cup Overrides,
             MayBegin(s, op), Begin(c, s, op)
      PROVE  RInv'
  BY <1>1, BeginRests
<1>2. ASSUME NEW c \in Calls, CallStep(c) \/ Settle(c) PROVE RInv'
  <2>1. ~LoseReply(c) /\ ~Fail(c)
    BY DEF FaultsCount, LoseReply, Fail
  <2>2. ~OrphanSave(c)
    <3>1. ASSUME calls[c].pc = "orphaned" PROVE FALSE
      <4>1. calls[c].pc # "idle"
        BY <3>1
      <4> QED
        BY <3>1, <4>1, TheOnlyCall DEF Exact
    <3> QED
      BY <3>1 DEF OrphanSave
  <2> QED
    BY <1>2, <2>1, <2>2, CallRests, SaveRests DEF CallStep
<1>3. ASSUME NEW orphans \in SUBSET Calls, Crash(orphans) PROVE RInv'
  <2>1. recovered' = {} /\ \A c \in Calls : calls'[c] = NoCall
    BY <1>3, CrashSerial
  <2>2. (\A s \in Sessions : Resting(s))'
    BY <2>1 DEF Resting
  <2>3. (\A c \in Calls, s \in Sessions : Ahead(c, s))'
    BY <2>1 DEF Ahead, NoCall
  <2> QED
    BY <2>2, <2>3 DEF RInv
<1>4. CASE UNCHANGED << memory, recovered, nextSequence, snapshots, calls, acknowledged >>
  <2>1. UNCHANGED << memory, recovered, snapshots, calls >>
    BY <1>4
  <2>2. \A s : LatestRecord(s)' = LatestRecord(s)
    BY <2>1 DEF LatestRecord, LatestSequence
  <2>3. ASSUME NEW s \in Sessions PROVE Resting(s)'
    BY <2>1, <2>2 DEF RInv, Resting, Held, StateIn, RecoveriesIn, EscalationsIn
  <2>4. ASSUME NEW c \in Calls, NEW s \in Sessions PROVE Ahead(c, s)'
    BY <2>1, <2>2 DEF RInv, Ahead, Moves, By, StateIn, RecoveriesIn, EscalationsIn
  <2> QED
    BY <2>3, <2>4 DEF RInv
<1> QED
  BY <1>1, <1>2, <1>3, <1>4 DEF StoreMoves

\* Nothing is recovered at first.
LEMMA InitialRest == StoreInit => Unknown /\ RInv
<1> SUFFICES ASSUME StoreInit PROVE Unknown /\ RInv
  OBVIOUS
<1>1. /\ memory = [s \in Sessions |-> NoRecord] /\ recovered = {}
      /\ \A c \in Calls : calls[c] = NoCall
  BY DEF StoreInit
<1>2. \A c \in Calls : calls[c].pc # "saving"
  BY <1>1 DEF NoCall
<1> QED
  BY <1>1, <1>2 DEF Unknown, RInv, Resting, Ahead

\* The invariants of a store that nothing disturbs, together.
LEMMA RestInvariance ==
    ASSUME Overlap = "none", MaxFailures = 0, MaxLostReplies = 0, MaxOrphans = 0
    PROVE  StoreSpec => [](FaultsCount /\ NInv /\ TInv /\ SInv /\ Unknown /\ RInv)
<1>1. Overlap # "any"
  OBVIOUS
<1>2. FaultsCount /\ NInv /\ TInv /\ SInv /\ Unknown /\ RInv /\ [StoreNext]_storeVars
          => FaultsCount' /\ SInv' /\ Unknown' /\ RInv'
  BY NextFaults, NextSerial, NextUnknown, NextRests, StoreNextMoves
<1>3. StoreSpec => [](NInv /\ TInv)
  BY <1>1, StoreInvariance, TrailInvariance, PTL
<1> QED
  BY InitialSerial, InitialRest, <1>2, <1>3, PTL DEF StoreSpec

\* A replica at rest is no different from one that starts now: what a crash
\* throws away is in the table (ensureRecovered and saveCheckpoint of
\* sessionLifecycleStore.ts).
THEOREM RestIsDurable ==
    ASSUME Overlap = "none", MaxFailures = 0, MaxLostReplies = 0, MaxOrphans = 0
    PROVE  StoreSpec => []RestingMemoryIsDurable
<1>1. NInv /\ SInv /\ RInv => RestingMemoryIsDurable
  <2> SUFFICES ASSUME NInv, SInv, RInv, NEW s \in recovered, InFlightFor(s) = {}
               PROVE  /\ nextSequence[s] = LatestSequence(s) + 1
                      /\ \/ memory[s] = LatestRecord(s)
                         \/ LatestRecord(s) = NoRecord /\ memory[s].state = "UNKNOWN"
    BY DEF RestingMemoryIsDurable
  <2>1. s \in Sessions
    BY DEF NInv, Types
  <2>2. ASSUME NEW c \in Calls, calls[c].pc \in { "saving", "saved" } PROVE calls[c].session # s
    BY <2>2 DEF InFlightFor, InFlight
  <2>3. nextSequence[s] = LatestSequence(s) + 1
    BY <2>1, <2>2 DEF SInv, Cursor
  <2>4. Held(memory[s], LatestRecord(s))
    BY <2>1, <2>2 DEF RInv, Resting
  <2>5. \/ memory[s] = LatestRecord(s)
        \/ LatestRecord(s) = NoRecord /\ memory[s].state = "UNKNOWN"
    BY <2>4 DEF Held, StateIn
  <2> QED
    BY <2>3, <2>5
<1> QED
  BY <1>1, RestInvariance, PTL

-----------------------------------------------------------------------------
(* The table implements the contract *)

\* The contract's variables as functions of the table.
StateAt       == [s \in Sessions |->
                    IF LatestRecord(s) = NoRecord THEN "UNKNOWN" ELSE LatestRecord(s).state]
MoverAt       == [s \in Sessions |->
                    IF LatestRecord(s) = NoRecord THEN "fsm" ELSE snapshots[s][LatestSequence(s)].by]
RecoveriesAt  == [s \in Sessions |->
                    IF LatestRecord(s) = NoRecord THEN 0
                    ELSE Len(LatestRecord(s).recoveryAnnotations)]
EscalationsAt == [s \in Sessions |->
                    IF LatestRecord(s) = NoRecord THEN 0
                    ELSE Len(LatestRecord(s).disqualificationAnnotations)]

\* A row of a session moves the contract's variables of this session only.
LEMMA DurableUpdate ==
    ASSUME NEW s \in Sessions, NEW record \in LifecycleSessionRecord, NEW by,
           LatestRecord(s)' = record, snapshots'[s][LatestSequence(s)'].by = by,
           \A t \in Sessions \ {s} : snapshots'[t] = snapshots[t]
    PROVE  /\ StateAt' = [StateAt EXCEPT ![s] = record.state]
           /\ MoverAt' = [MoverAt EXCEPT ![s] = by]
           /\ RecoveriesAt' = [RecoveriesAt EXCEPT ![s] = Len(record.recoveryAnnotations)]
           /\ EscalationsAt' = [EscalationsAt EXCEPT ![s] = Len(record.disqualificationAnnotations)]
<1>1. record # NoRecord
  BY NoRecordIsNoRecord
<1>2. \A t \in Sessions \ {s} :
          LatestRecord(t)' = LatestRecord(t) /\ LatestSequence(t)' = LatestSequence(t)
  BY SameRows
<1>3. StateAt' = [StateAt EXCEPT ![s] = record.state]
  <2> DEFINE of(r) == IF r = NoRecord THEN "UNKNOWN" ELSE r.state
  <2>1. \A t \in Sessions : of(LatestRecord(t)') = IF t = s THEN record.state ELSE of(LatestRecord(t))
    BY <1>1, <1>2
  <2>2. /\ StateAt = [t \in Sessions |-> of(LatestRecord(t))]
        /\ StateAt' = [t \in Sessions |-> of(LatestRecord(t)')]
    BY DEF StateAt
  <2> HIDE DEF of
  <2> QED
    BY <2>1, <2>2
<1>4. MoverAt' = [MoverAt EXCEPT ![s] = by]
  <2> DEFINE of(r, rows, n) == IF r = NoRecord THEN "fsm" ELSE rows[n].by
  <2>1. \A t \in Sessions : of(LatestRecord(t)', snapshots'[t], LatestSequence(t)') =
            IF t = s THEN by ELSE of(LatestRecord(t), snapshots[t], LatestSequence(t))
    BY <1>1, <1>2
  <2>2. /\ MoverAt = [t \in Sessions |-> of(LatestRecord(t), snapshots[t], LatestSequence(t))]
        /\ MoverAt' = [t \in Sessions |-> of(LatestRecord(t)', snapshots'[t], LatestSequence(t)')]
    BY DEF MoverAt
  <2> HIDE DEF of
  <2> QED
    BY <2>1, <2>2
<1>5. RecoveriesAt' = [RecoveriesAt EXCEPT ![s] = Len(record.recoveryAnnotations)]
  <2> DEFINE of(r) == IF r = NoRecord THEN 0 ELSE Len(r.recoveryAnnotations)
  <2>1. \A t \in Sessions : of(LatestRecord(t)') =
            IF t = s THEN Len(record.recoveryAnnotations) ELSE of(LatestRecord(t))
    BY <1>1, <1>2
  <2>2. /\ RecoveriesAt = [t \in Sessions |-> of(LatestRecord(t))]
        /\ RecoveriesAt' = [t \in Sessions |-> of(LatestRecord(t)')]
    BY DEF RecoveriesAt
  <2> HIDE DEF of
  <2> QED
    BY <2>1, <2>2
<1>6. EscalationsAt' = [EscalationsAt EXCEPT ![s] = Len(record.disqualificationAnnotations)]
  <2> DEFINE of(r) == IF r = NoRecord THEN 0 ELSE Len(r.disqualificationAnnotations)
  <2>1. \A t \in Sessions : of(LatestRecord(t)') =
            IF t = s THEN Len(record.disqualificationAnnotations) ELSE of(LatestRecord(t))
    BY <1>1, <1>2
  <2>2. /\ EscalationsAt = [t \in Sessions |-> of(LatestRecord(t))]
        /\ EscalationsAt' = [t \in Sessions |-> of(LatestRecord(t)')]
    BY DEF EscalationsAt
  <2> HIDE DEF of
  <2> QED
    BY <2>1, <2>2
<1> QED
  BY <1>3, <1>4, <1>5, <1>6

\* The row an undisturbed call adds is a move of the contract.
LEMMA SaveImplements ==
    ASSUME NInv, SInv, RInv, NEW c \in Calls, Save(c)
    PROVE  Durable!ContractNext
<1> DEFINE call == calls[c]
           new == call.result
           by == By(call.op)
<1>1. PICK s \in Sessions :
         /\ s = calls[c].session
         /\ \A d \in Calls \ {c} : calls[d] # NoCall => calls[d].session # s
         /\ \A t \in Sessions \ {s} : snapshots'[t] = snapshots[t]
         /\ LatestSequence(s)' = calls[c].sequence
         /\ LatestRecord(s)' = calls[c].result
         /\ calls[c].sequence \in Nat
         /\ calls[c].result \in LifecycleSessionRecord
         /\ memory[s] = calls[c].result
         /\ Moves(LatestRecord(s), calls[c].result, By(calls[c].op))
  BY SaveMoves
<1>2. Insert(calls[c].session, calls[c].sequence, RowOf(c)) /\ calls[c] \in CallRecord
  BY SaveMoves
<1>3. snapshots'[s][LatestSequence(s)'].by = by
  <2>1. snapshots' = [snapshots EXCEPT ![s] = WithRow(snapshots[s], calls[c].sequence, RowOf(c))]
    BY <1>1, <1>2 DEF Insert
  <2>2. snapshots'[s] = WithRow(snapshots[s], calls[c].sequence, RowOf(c))
    BY <2>1 DEF NInv, Types
  <2>3. WithRow(snapshots[s], calls[c].sequence, RowOf(c))[calls[c].sequence] = RowOf(c)
    BY DEF WithRow
  <2>4. RowOf(c).by = by
    BY DEF RowOf, By
  <2> QED
    BY <1>1, <2>2, <2>3, <2>4
<1>4. /\ new \in LifecycleSessionRecord /\ new # NoRecord
      /\ Moves(LatestRecord(s), new, by)
      /\ LatestRecord(s)' = new
  BY <1>1, NoRecordIsNoRecord DEF LifecycleSessionRecord
<1>5. by \in { "fsm", "human" }
  BY DEF By
<1>6. PICK to \in LifecycleStates : to = new.state
  BY <1>4 DEF LifecycleSessionRecord
<1>7. \A t \in Sessions \ {s} : snapshots'[t] = snapshots[t]
  BY <1>1
<1> HIDE DEF by, new
<1>8. /\ StateAt' = [StateAt EXCEPT ![s] = to]
      /\ MoverAt' = [MoverAt EXCEPT ![s] = by]
      /\ RecoveriesAt' = [RecoveriesAt EXCEPT ![s] = Len(new.recoveryAnnotations)]
      /\ EscalationsAt' = [EscalationsAt EXCEPT ![s] = Len(new.disqualificationAnnotations)]
  BY <1>3, <1>4, <1>7, <1>6, DurableUpdate
<1>9. /\ StateAt[s] = StateIn(LatestRecord(s))
      /\ RecoveriesAt[s] = RecoveriesIn(LatestRecord(s))
      /\ EscalationsAt[s] = EscalationsIn(LatestRecord(s))
      /\ RecoveriesAt = [t \in Sessions |-> RecoveriesAt[t]]
      /\ EscalationsAt = [t \in Sessions |-> EscalationsAt[t]]
  BY DEF StateAt, RecoveriesAt, EscalationsAt, StateIn, RecoveriesIn, EscalationsIn
<1>10. RecoveriesAt[s] \in Nat /\ EscalationsAt[s] \in Nat
  <2>1. LatestRecord(s) \in MaybeRecord
    BY LatestIsRecord DEF NInv
  <2> QED
    BY <1>9, <2>1 DEF RecoveriesIn, EscalationsIn, MaybeRecord, LifecycleSessionRecord
<1>11. /\ Len(new.disqualificationAnnotations) =
              EscalationsAt[s] + (IF to = "DISQUALIFIED" THEN 1 ELSE 0)
       /\ Len(new.recoveryAnnotations) =
              RecoveriesAt[s] + (IF by = "fsm" /\ to = "RECOVERED" THEN 1 ELSE 0)
       /\ by = "fsm" => << StateAt[s], to >> \in Durable!AutomaticMoves
  BY <1>4, <1>9, <1>6 DEF Moves, EscalationsIn, RecoveriesIn
<1>12. EscalationsAt' = IF to = "DISQUALIFIED" THEN [EscalationsAt EXCEPT ![s] = @ + 1]
                        ELSE EscalationsAt
  <2>1. CASE to = "DISQUALIFIED"
    BY <1>8, <1>11, <2>1
  <2>2. CASE to # "DISQUALIFIED"
    <3>1. Len(new.disqualificationAnnotations) = EscalationsAt[s]
      BY <1>10, <1>11, <2>2
    <3>2. EscalationsAt' = [EscalationsAt EXCEPT ![s] = EscalationsAt[s]]
      BY <1>8, <3>1
    <3> QED
      BY <1>9, <2>2, <3>2
  <2> QED
    BY <2>1, <2>2
<1>13. RecoveriesAt' = IF by = "fsm" /\ to = "RECOVERED" THEN [RecoveriesAt EXCEPT ![s] = @ + 1]
                       ELSE RecoveriesAt
  <2>1. CASE by = "fsm" /\ to = "RECOVERED"
    BY <1>8, <1>11, <2>1
  <2>2. CASE ~(by = "fsm" /\ to = "RECOVERED")
    <3>1. Len(new.recoveryAnnotations) = RecoveriesAt[s]
      BY <1>10, <1>11, <2>2
    <3>2. RecoveriesAt' = [RecoveriesAt EXCEPT ![s] = RecoveriesAt[s]]
      BY <1>8, <3>1
    <3> QED
      BY <1>9, <2>2, <3>2
  <2> QED
    BY <2>1, <2>2
<1>14. CASE by = "fsm"
  <2>1. Durable!AutomaticMove(s, to)
    BY <1>8, <1>11, <1>12, <1>13, <1>14
    DEF Durable!AutomaticMove, Durable!Annotate, StateAt, MoverAt, RecoveriesAt, EscalationsAt
  <2> QED
    BY <1>4, <2>1, DurableLadder DEF Durable!ContractNext
<1>15. CASE by = "human"
  <2>1. Durable!HumanMove(s, to)
    BY <1>8, <1>12, <1>13, <1>15
    DEF Durable!HumanMove, Durable!Annotate, StateAt, MoverAt, RecoveriesAt, EscalationsAt
  <2> QED
    BY <1>4, <2>1, DurableLadder DEF Durable!ContractNext
<1> QED
  BY <1>5, <1>14, <1>15

\* What recovery would find keeps the lifecycle's promise: however often the
\* process is lost, and at whatever moment, the rows of the table follow each
\* other by legal moves.
THEOREM TableKeepsContract ==
    ASSUME Overlap = "none", MaxFailures = 0, MaxLostReplies = 0, MaxOrphans = 0
    PROVE  StoreSpec => DurableKeepsContract
<1>1. StoreInit => Durable!ContractInit
  <2> SUFFICES ASSUME StoreInit PROVE Durable!ContractInit
    OBVIOUS
  <2>1. \A s \in Sessions : LatestRecord(s) = NoRecord
    BY InitialNumbers, LatestIsRecord DEF StoreInit, LatestRecord
  <2> QED
    BY <2>1 DEF Durable!ContractInit
<1>2. FaultsCount /\ NInv /\ TInv /\ SInv /\ Unknown /\ RInv /\ [StoreNext]_storeVars
          => [Durable!ContractNext]_(Durable!contractVars)
  <2> SUFFICES ASSUME FaultsCount, NInv, TInv, SInv, RInv, [StoreNext]_storeVars
               PROVE  Durable!ContractNext \/ UNCHANGED Durable!contractVars
    OBVIOUS
  <2>1. CASE UNCHANGED snapshots
    <3>1. \A s : LatestRecord(s)' = LatestRecord(s) /\ LatestSequence(s)' = LatestSequence(s)
      BY <2>1 DEF LatestRecord, LatestSequence
    <3> QED
      BY <2>1, <3>1 DEF Durable!contractVars
  <2>2. ASSUME NEW c \in Calls, Save(c) PROVE Durable!ContractNext
    BY <2>2, SaveImplements
  <2>3. UNCHANGED snapshots \/ \E c \in Calls : Save(c)
    <3>1. ASSUME NEW c \in Calls, calls[c].pc = "orphaned" PROVE FALSE
      <4>1. calls[c].pc # "idle"
        BY <3>1
      <4> QED
        BY <3>1, <4>1, TheOnlyCall DEF Exact
    <3>2. ASSUME NEW c \in Calls PROVE ~LoseReply(c) /\ ~OrphanSave(c)
      BY <3>1 DEF FaultsCount, LoseReply, OrphanSave
    <3>3. ASSUME NEW c \in Calls, CallStep(c) \/ Settle(c) PROVE Save(c) \/ UNCHANGED snapshots
      BY <3>2, <3>3 DEF CallStep, LoadLatest, Restore, Act, Advance, Fail, Settle
    <3>4. ASSUME NEW c \in Calls, NEW s \in Sessions, NEW op \in Evaluations \cup Overrides,
                 NewCall(c, s, op)
          PROVE  UNCHANGED snapshots
      BY <3>4 DEF NewCall, Begin
    <3>5. ASSUME NEW orphans \in SUBSET Calls, Crash(orphans) PROVE UNCHANGED snapshots
      BY <3>5 DEF Crash
    <3>6. CASE UNCHANGED storeVars
      BY <3>6 DEF storeVars
    <3> QED
      BY <3>3, <3>4, <3>5, <3>6 DEF StoreNext
  <2> QED
    BY <2>1, <2>2, <2>3
<1> QED
  BY <1>1, <1>2, RestInvariance, PTL DEF StoreSpec, DurableKeepsContract, Durable!ContractSpec

-----------------------------------------------------------------------------
(* What a corroborated contradiction comes to *)

\* A call that was given a corroborated contradiction saves a disqualification,
\* and answers over a row that has one.
Concluded(call, record) ==
    call.op.kind = "evaluate" /\ call.op.contradiction = "corroborated" =>
        /\ call.pc = "saving" => call.result.state = "DISQUALIFIED"
        /\ call.pc \in { "saved", "returned" } => EscalationsIn(record) >= 1

\* So has every last row that says DISQUALIFIED, whoever wrote it.
CInv ==
    /\ \A s \in Sessions : StateIn(LatestRecord(s)) = "DISQUALIFIED" =>
           EscalationsIn(LatestRecord(s)) >= 1
    /\ \A c \in Calls, s \in Sessions :
           calls[c] # NoCall /\ calls[c].session = s => Concluded(calls[c], LatestRecord(s))

\* A step of the only call of a session.
LEMMA OneSessionConcludes ==
    ASSUME NInv, CInv, NEW c \in Calls, NEW s \in Sessions,
           NEW call \in CallRecord \cup {NoCall},
           calls' = [calls EXCEPT ![c] = call],
           \A d \in Calls \ {c} : calls[d] # NoCall => calls[d].session # s,
           call # NoCall => call.session = s,
           \A t \in Sessions \ {s} : snapshots'[t] = snapshots[t],
           NEW record, LatestRecord(s)' = record,
           StateIn(record) = "DISQUALIFIED" => EscalationsIn(record) >= 1,
           call # NoCall => Concluded(call, record)
    PROVE  CInv'
<1>1. \A d \in Calls : calls'[d] = IF d = c THEN call ELSE calls[d]
  BY DEF NInv, Types
<1>2. \A t \in Sessions \ {s} : LatestRecord(t)' = LatestRecord(t)
  BY SameRows
<1>3. ASSUME NEW t \in Sessions, StateIn(LatestRecord(t)') = "DISQUALIFIED"
      PROVE  EscalationsIn(LatestRecord(t)') >= 1
  BY <1>2, <1>3 DEF CInv
<1>4. ASSUME NEW d \in Calls, NEW t \in Sessions, calls'[d] # NoCall, calls'[d].session = t
      PROVE  Concluded(calls'[d], LatestRecord(t)')
  <2>1. CASE d = c
    BY <1>1, <1>4, <2>1
  <2>2. CASE d # c
    <3>1. calls'[d] = calls[d] /\ t # s
      BY <1>1, <1>4, <2>2
    <3> QED
      BY <1>2, <1>4, <3>1 DEF CInv
  <2> QED
    BY <2>1, <2>2
<1> QED
  BY <1>3, <1>4 DEF CInv, Concluded, EscalationsIn, StateIn, NoCall

\* What a call makes of a corroborated contradiction over a session at rest:
\* a disqualification, or nothing, as there is one.
LEMMA ContradictionConcludes ==
    ASSUME Types, NEW s \in Sessions, NEW op \in Evaluations \cup Overrides,
           NEW record \in MaybeRecord, Held(memory[s], record),
           op.kind = "evaluate", op.contradiction = "corroborated",
           NEW result, result = Outcome(s, op)
    PROVE  /\ result.transitioned => result.record.state = "DISQUALIFIED"
           /\ ~result.transitioned => StateIn(record) = "DISQUALIFIED"
<1> DEFINE current == CurrentRecord(s, op.now)
<1>1. op.now \in Int
  BY CallsHaveTimes
<1>2. current \in LifecycleSessionRecord /\ current.state = StateIn(record)
  BY <1>1, CurrentIsHeld
<1>3. result = EvaluateLifecycleTransition(current, op.posterior, op.now, op.contradiction)
  BY DEF Outcome
<1> HIDE DEF current
<1>4. CASE current.state = "DISQUALIFIED"
  <2>1. ~result.transitioned
    BY <1>3, <1>4 DEF EvaluateLifecycleTransition, Hold
  <2> QED
    BY <1>2, <1>4, <2>1
<1>5. CASE current.state # "DISQUALIFIED"
  <2>1. result = Enter("DISQUALIFIED", op.now, current)
    BY <1>3, <1>5 DEF EvaluateLifecycleTransition
  <2>2. "DISQUALIFIED" \in LifecycleStates
    BY DEF LifecycleStates
  <2> QED
    BY <1>1, <1>2, <2>1, <2>2, EnterType
<1> QED
  BY <1>4, <1>5

\* A move into DISQUALIFIED leaves an annotation.
LEMMA MovesAnnotate ==
    ASSUME NEW from \in MaybeRecord, NEW to \in LifecycleSessionRecord, NEW by,
           Moves(from, to, by), StateIn(to) = "DISQUALIFIED"
    PROVE  EscalationsIn(to) >= 1
<1>1. to # NoRecord
  BY NoRecordIsNoRecord
<1>2. EscalationsIn(from) \in Nat
  BY DEF EscalationsIn, MaybeRecord, LifecycleSessionRecord
<1>3. EscalationsIn(to) = EscalationsIn(from) + 1
  BY <1>1 DEF Moves, StateIn
<1> QED
  BY <1>2, <1>3

\* A session without a call has nothing to conclude when the next call begins.
LEMMA BeginConcludes ==
    ASSUME Overlap = "none", NInv, SInv, CInv,
           NEW c \in Calls, NEW s \in Sessions, NEW op \in Evaluations \cup Overrides,
           MayBegin(s, op), Begin(c, s, op)
    PROVE  CInv'
<1> DEFINE call == [pc |-> IF s \in recovered THEN "acting" ELSE "loading", session |-> s,
                    op |-> op, loaded |-> NoRecord, result |-> NoRecord, sequence |-> -1]
<1>1. /\ calls[c] = NoCall /\ calls' = [calls EXCEPT ![c] = call]
      /\ UNCHANGED << memory, recovered, nextSequence, snapshots, acknowledged >>
  BY DEF Begin
<1>2. call \in CallRecord /\ call.session = s /\ call.pc \in { "acting", "loading" }
  BY DEF CallRecord
<1> HIDE DEF call
<1>3. ASSUME NEW d \in Calls, calls[d] # NoCall PROVE calls[d].session # s
  BY <1>3, NoOtherCall
<1>4. LatestRecord(s)' = LatestRecord(s)
  BY <1>1, SameRows
<1>5. Concluded(call, LatestRecord(s))
  BY <1>2 DEF Concluded
<1>6. StateIn(LatestRecord(s)) = "DISQUALIFIED" => EscalationsIn(LatestRecord(s)) >= 1
  BY DEF CInv
<1> QED
  BY <1>1, <1>2, <1>3, <1>4, <1>5, <1>6, OneSessionConcludes

\* A call that reads, acts, hears of its row or ends.
LEMMA CallConcludes ==
    ASSUME NInv, TInv, SInv, RInv, CInv, NEW c \in Calls,
           LoadLatest(c) \/ Restore(c) \/ Act(c) \/ Advance(c) \/ Settle(c)
    PROVE  CInv'
<1>1. calls[c].pc # "idle" /\ UNCHANGED snapshots
  BY DEF LoadLatest, Restore, Act, Advance, Settle, Settled
<1>2. PICK s \in Sessions :
         /\ s = calls[c].session
         /\ \A d \in Calls \ {c} : calls[d] # NoCall => calls[d].session # s
         /\ Exact(calls[c], LatestSequence(s))
         /\ s \in recovered /\ calls[c].pc # "saving" => Held(memory[s], LatestRecord(s))
         /\ Ahead(c, s)
         /\ LatestRecord(s) \in MaybeRecord
  BY <1>1, TheOnlyCallRests
<1>3. calls[c] \in CallRecord /\ calls[c] # NoCall
  BY <1>1, TheOnlyCallRests
<1>4. /\ LatestRecord(s)' = LatestRecord(s)
      /\ StateIn(LatestRecord(s)) = "DISQUALIFIED" => EscalationsIn(LatestRecord(s)) >= 1
      /\ Concluded(calls[c], LatestRecord(s))
  BY <1>1, <1>2, <1>3, SameRows DEF CInv
<1>5. ASSUME NEW call \in CallRecord \cup {NoCall}, calls' = [calls EXCEPT ![c] = call],
             call # NoCall => call.session = s,
             call # NoCall => Concluded(call, LatestRecord(s))
      PROVE  CInv'
  BY <1>1, <1>2, <1>4, <1>5, OneSessionConcludes
<1>6. CASE LoadLatest(c)
  <2> DEFINE call == [calls[c] EXCEPT !.pc = "restoring", !.loaded = LatestRecord(s),
                                      !.sequence = LatestSequence(s)]
  <2>1. calls' = [calls EXCEPT ![c] = call]
    BY <1>2, <1>6 DEF LoadLatest
  <2>2. call \in CallRecord /\ call.session = s /\ call.pc = "restoring"
    <3>1. LatestSequence(s) \in Nat \cup {-1}
      BY LatestIsRecord DEF NInv
    <3> QED
      BY <1>2, <1>3, <3>1 DEF CallRecord, MaybeRecord
  <2> HIDE DEF call
  <2> QED
    BY <1>5, <2>1, <2>2 DEF Concluded
<1>7. CASE Restore(c)
  <2> DEFINE call == [calls[c] EXCEPT !.pc = "acting", !.loaded = NoRecord, !.sequence = -1]
  <2>1. calls' = [calls EXCEPT ![c] = call]
    BY <1>7 DEF Restore
  <2>2. call \in CallRecord /\ call.session = s /\ call.pc = "acting"
    BY <1>2, <1>3 DEF CallRecord
  <2> HIDE DEF call
  <2> QED
    BY <1>5, <2>1, <2>2 DEF Concluded
<1>8. CASE Act(c)
  <2> DEFINE op == calls[c].op
             result == Outcome(s, op)
             call == [calls[c] EXCEPT !.pc = IF result.transitioned THEN "saving" ELSE "returned",
                                      !.result = result.record,
                                      !.sequence = IF result.transitioned THEN nextSequence[s] ELSE -1]
  <2>1. calls' = [calls EXCEPT ![c] = call] /\ calls[c].pc = "acting"
    BY <1>2, <1>8 DEF Act
  <2>2. op \in Evaluations \cup Overrides /\ result.record \in LifecycleSessionRecord
    BY <1>3, OutcomeContinues DEF NInv, CallRecord
  <2>3. nextSequence[s] \in Nat
    BY DEF NInv, Types
  <2>4. s \in recovered
    BY <1>2, <2>1 DEF TInv, Recovering
  <2>5. op.kind = "evaluate" /\ op.contradiction = "corroborated" =>
            /\ result.transitioned => result.record.state = "DISQUALIFIED"
            /\ ~result.transitioned => StateIn(LatestRecord(s)) = "DISQUALIFIED"
    BY <1>2, <2>1, <2>2, <2>4, ContradictionConcludes DEF NInv
  <2>6. /\ call \in CallRecord /\ call.session = s /\ call.op = op
        /\ call.pc = IF result.transitioned THEN "saving" ELSE "returned"
        /\ call.result = result.record
    <3> HIDE DEF result
    <3> QED
      BY <1>2, <1>3, <2>2, <2>3 DEF CallRecord
  <2> HIDE DEF call, result, op
  <2>7. Concluded(call, LatestRecord(s))
    BY <1>4, <2>5, <2>6 DEF Concluded
  <2> QED
    BY <1>5, <2>1, <2>6, <2>7
<1>9. CASE Advance(c)
  <2> DEFINE call == [calls[c] EXCEPT !.pc = "returned"]
  <2>1. calls' = [calls EXCEPT ![c] = call] /\ calls[c].pc = "saved"
    BY <1>9 DEF Advance, Goto
  <2>2. /\ call \in CallRecord /\ call.session = s /\ call.op = calls[c].op
        /\ call.pc = "returned"
    BY <1>2, <1>3 DEF CallRecord
  <2> HIDE DEF call
  <2>3. Concluded(call, LatestRecord(s))
    BY <1>4, <2>1, <2>2 DEF Concluded
  <2> QED
    BY <1>5, <2>1, <2>2, <2>3
<1>10. CASE Settle(c)
  BY <1>5, <1>10 DEF Settle
<1> QED
  BY <1>6, <1>7, <1>8, <1>9, <1>10

\* A disqualification that was saved is on file.
LEMMA SaveConcludes ==
    ASSUME NInv, SInv, RInv, CInv, NEW c \in Calls, Save(c) PROVE CInv'
<1> DEFINE call == [calls[c] EXCEPT !.pc = "saved"]
<1>1. PICK s \in Sessions :
         /\ s = calls[c].session
         /\ \A d \in Calls \ {c} : calls[d] # NoCall => calls[d].session # s
         /\ \A t \in Sessions \ {s} : snapshots'[t] = snapshots[t]
         /\ LatestRecord(s)' = calls[c].result
         /\ calls[c].result \in LifecycleSessionRecord
         /\ Moves(LatestRecord(s), calls[c].result, By(calls[c].op))
  BY SaveMoves
<1>2. calls' = [calls EXCEPT ![c] = call] /\ calls[c] \in CallRecord /\ calls[c].pc = "saving"
  BY SaveMoves DEF Goto
<1>3. call \in CallRecord /\ call.session = s /\ call.pc = "saved" /\ call.op = calls[c].op
  BY <1>1, <1>2 DEF CallRecord
<1> HIDE DEF call
<1>4. PICK record \in LifecycleSessionRecord : record = calls[c].result
  BY <1>1
<1>5. LatestRecord(s) \in MaybeRecord
  BY LatestIsRecord DEF NInv
<1>6. StateIn(record) = "DISQUALIFIED" => EscalationsIn(record) >= 1
  BY <1>1, <1>4, <1>5, MovesAnnotate
<1>7. StateIn(record) = record.state
  BY NoRecordIsNoRecord DEF StateIn
<1>8. calls[c] # NoCall
  BY <1>2 DEF NoCall
<1>9. Concluded(calls[c], LatestRecord(s))
  BY <1>1, <1>8 DEF CInv
<1>10. Concluded(call, record)
  BY <1>2, <1>3, <1>4, <1>6, <1>7, <1>9 DEF Concluded
<1> QED
  BY <1>1, <1>2, <1>3, <1>4, <1>6, <1>10, OneSessionConcludes

\* In a store that nothing disturbs, a corroborated contradiction ends in a
\* disqualification on file.
LEMMA NextConcluded ==
    ASSUME Overlap = "none", MaxFailures = 0, MaxLostReplies = 0, MaxOrphans = 0,
           FaultsCount, NInv, TInv, SInv, RInv, CInv, StoreMoves
    PROVE  CInv'
<1>1. ASSUME NEW c \in Calls, NEW s \in Sessions, NEW op \in Evaluations \cup Overrides,
             MayBegin(s, op), Begin(c, s, op)
      PROVE  CInv'
  BY <1>1, BeginConcludes
<1>2. ASSUME NEW c \in Calls, CallStep(c) \/ Settle(c) PROVE CInv'
  <2>1. ~LoseReply(c) /\ ~Fail(c)
    BY DEF FaultsCount, LoseReply, Fail
  <2>2. ~OrphanSave(c)
    <3>1. ASSUME calls[c].pc = "orphaned" PROVE FALSE
      <4>1. calls[c].pc # "idle"
        BY <3>1
      <4> QED
        BY <3>1, <4>1, TheOnlyCall DEF Exact
    <3> QED
      BY <3>1 DEF OrphanSave
  <2> QED
    BY <1>2, <2>1, <2>2, CallConcludes, SaveConcludes DEF CallStep
<1>3. ASSUME NEW orphans \in SUBSET Calls, Crash(orphans) PROVE CInv'
  <2>1. UNCHANGED snapshots /\ \A c \in Calls : calls'[c] = NoCall
    BY <1>3, CrashSerial
  <2>2. ASSUME NEW s \in Sessions, StateIn(LatestRecord(s)') = "DISQUALIFIED"
        PROVE  EscalationsIn(LatestRecord(s)') >= 1
    BY <2>1, <2>2, SameRows DEF CInv
  <2> QED
    BY <2>1, <2>2 DEF CInv, EscalationsIn, StateIn, NoCall
<1>4. CASE UNCHANGED << memory, recovered, nextSequence, snapshots, calls, acknowledged >>
  <2>1. \A s \in Sessions : LatestRecord(s)' = LatestRecord(s)
    BY <1>4, SameRows
  <2>2. ASSUME NEW s \in Sessions, StateIn(LatestRecord(s)') = "DISQUALIFIED"
        PROVE  EscalationsIn(LatestRecord(s)') >= 1
    BY <2>1, <2>2 DEF CInv
  <2>3. ASSUME NEW c \in Calls, NEW s \in Sessions, calls'[c] # NoCall, calls'[c].session = s
        PROVE  Concluded(calls'[c], LatestRecord(s)')
    BY <1>4, <2>1, <2>3 DEF CInv
  <2> QED
    BY <2>2, <2>3 DEF CInv, Concluded, EscalationsIn, StateIn, NoCall
<1> QED
  BY <1>1, <1>2, <1>3, <1>4 DEF StoreMoves

\* Nothing is on file at first, and nothing to conclude.
LEMMA InitialConcluded == StoreInit => CInv
<1> SUFFICES ASSUME StoreInit PROVE CInv
  OBVIOUS
<1>1. \A s \in Sessions : LatestRecord(s) = NoRecord
  BY DEF StoreInit, LatestRecord
<1>2. \A c \in Calls : calls[c] = NoCall
  BY DEF StoreInit
<1> QED
  BY <1>1, <1>2 DEF CInv, StateIn

=============================================================================
