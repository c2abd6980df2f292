---------------------------- MODULE OperatorLemmas ----------------------------
(***************************************************************************)
(* Lemmas about operators, stated once for the proofs that need them: what *)
(* the transition functions of Lifecycle return, for every record,         *)
(* posterior and time (the manager and the store), induction on numbers,   *)
(* the places of the elements of a finite ordered set (the ring and the    *)
(* evidence ledger, which sort a set by giving each element the place that *)
(* the number of elements below it tells), and what a fold over the        *)
(* numbers to n comes to (the matcher, the calibrator and the fusion).     *)
(***************************************************************************)
EXTENDS Lifecycle, FiniteSets, FiniteSetsExt, FiniteSetTheorems, WellFoundedInduction, TLAPS

-----------------------------------------------------------------------------
(* The ladder *)

\* The four rows of the table, with the hysteresis band the right way round:
\* the bar to stay is never above the bar to enter.
LEMMA TierTable ==
    ASSUME NEW tier \in Tiers
    PROVE  /\ ClimbTiers[tier].state \in LifecycleStates
           /\ ClimbTiers[tier].state \notin {"UNKNOWN", "DISQUALIFIED", "LOST_CONFIDENCE", "RECOVERED"}
           /\ Rank(ClimbTiers[tier].state) = tier
           /\ ClimbTiers[tier].sustain <= ClimbTiers[tier].enter
           /\ ClimbTiers[tier].sustain \in Nat
           /\ ClimbTiers[tier].enter \in Nat
           /\ ClimbTiers[tier].dwell \in Nat
           /\ ClimbTiers[tier].bundles \in Nat
           /\ ClimbTiers[tier].events \in Nat
<1>1. CASE tier = 1
  BY <1>1 DEF ClimbTiers, LifecycleStates, Rank
<1>2. CASE tier = 2
  BY <1>2 DEF ClimbTiers, LifecycleStates, Rank
<1>3. CASE tier = 3
  BY <1>3 DEF ClimbTiers, LifecycleStates, Rank
<1>4. CASE tier = 4
  BY <1>4 DEF ClimbTiers, LifecycleStates, Rank
<1>5. QED
  BY <1>1, <1>2, <1>3, <1>4 DEF Tiers

\* A rank is -1, 0 or a tier.
LEMMA RankType ==
    ASSUME NEW state
    PROVE  Rank(state) \in -1..4
BY DEF Rank

\* If any tier above a rank qualifies, the highest one is such a tier.
LEMMA HighestQualifies ==
    ASSUME NEW rank \in -1..4, NEW posterior \in Posterior,
           QualifyingTiers(rank, posterior) # {}
    PROVE  /\ HighestQualifyingTier(rank, posterior) \in Tiers
           /\ HighestQualifyingTier(rank, posterior) > rank
           /\ MeetsTier(HighestQualifyingTier(rank, posterior), posterior)
<1> DEFINE Q == QualifyingTiers(rank, posterior)
<1>1. Q \subseteq 1..4 /\ Q # {}
  BY DEF QualifyingTiers, Tiers
<1>2. \E best \in Q : \A tier \in Q : tier <= best
  <2>1. CASE 4 \in Q
    BY <1>1, <2>1
  <2>2. CASE 4 \notin Q /\ 3 \in Q
    BY <1>1, <2>2
  <2>3. CASE 4 \notin Q /\ 3 \notin Q /\ 2 \in Q
    BY <1>1, <2>3
  <2>4. CASE 4 \notin Q /\ 3 \notin Q /\ 2 \notin Q
    BY <1>1, <2>4
  <2>5. QED
    BY <2>1, <2>2, <2>3, <2>4
<1>3. HighestQualifyingTier(rank, posterior) \in Q
  BY <1>2 DEF HighestQualifyingTier
<1>4. QED
  BY <1>3 DEF QualifyingTiers

-----------------------------------------------------------------------------
(* One evaluation *)

\* Every way an evaluation can end, and what the evidence then said.
LEMMA EvaluateOutcomes ==
    ASSUME NEW current \in LifecycleSessionRecord, NEW posterior \in Posterior, NEW now,
           NEW contradiction \in ContradictionSignal,
           NEW result,
           result = EvaluateLifecycleTransition(current, posterior, now, contradiction)
    PROVE  \/ /\ result = Hold(current)
              /\ OnLadder(current.state) =>
                     posterior.probability >= ClimbTiers[Rank(current.state)].sustain
           \/ /\ current.state # "DISQUALIFIED"
              /\ result = Enter("DISQUALIFIED", now, current)
           \/ /\ current.state # "DISQUALIFIED"
              /\ result = Enter("LOST_CONFIDENCE", now, current)
           \/ /\ current.state = "LOST_CONFIDENCE"
              /\ MeetsTier(1, posterior)
              /\ result = Recover(now, current)
           \/ /\ current.state \notin {"DISQUALIFIED", "LOST_CONFIDENCE"}
              /\ \E tier \in Tiers :
                    /\ tier > Rank(current.state)
                    /\ MeetsTier(tier, posterior)
                    /\ OnLadder(current.state) => DwellElapsed(current, Rank(current.state), now)
                    /\ result = Enter(ClimbTiers[tier].state, now, current)
<1>1. CASE current.state = "DISQUALIFIED"
  <2>1. ~OnLadder(current.state)
    BY <1>1 DEF OnLadder, Rank, Tiers
  <2>2. QED
    BY <1>1, <2>1 DEF EvaluateLifecycleTransition
<1>2. CASE current.state # "DISQUALIFIED" /\ contradiction # "none"
  BY <1>2 DEF EvaluateLifecycleTransition, ContradictionSignal
<1>3. CASE current.state = "LOST_CONFIDENCE" /\ contradiction = "none"
  <2>1. ~OnLadder(current.state)
    BY <1>3 DEF OnLadder, Rank, Tiers
  <2>2. QED
    BY <1>3, <2>1 DEF EvaluateLifecycleTransition
<1>4. CASE current.state \notin {"DISQUALIFIED", "LOST_CONFIDENCE"} /\ contradiction = "none"
  <2> DEFINE rank == Rank(current.state)
  <2>1. result = EvaluateLadder(current, posterior, now)
    BY <1>4 DEF EvaluateLifecycleTransition
  <2>2. rank \in -1..4
    BY RankType
  <2>3. rank \in Tiers => ClimbTiers[rank].sustain \in Nat
    BY TierTable
  <2>4. CASE rank \in Tiers /\ posterior.probability < ClimbTiers[rank].sustain
    BY <1>4, <2>1, <2>4 DEF EvaluateLadder
  <2>5. CASE ~(rank \in Tiers /\ posterior.probability < ClimbTiers[rank].sustain)
    <3>1. rank \in Tiers => posterior.probability >= ClimbTiers[rank].sustain
      BY <2>3, <2>5 DEF Posterior
    <3>2. CASE (rank \in Tiers /\ ~DwellElapsed(current, rank, now)) \/ QualifyingTiers(rank, posterior) = {}
      BY <2>1, <2>5, <3>1, <3>2 DEF EvaluateLadder, OnLadder
    <3>3. CASE /\ ~(rank \in Tiers /\ ~DwellElapsed(current, rank, now))
               /\ QualifyingTiers(rank, posterior) # {}
      <4> DEFINE best == HighestQualifyingTier(rank, posterior)
      <4>1. best \in Tiers /\ best > rank /\ MeetsTier(best, posterior)
        BY <2>2, <3>3, HighestQualifies
      <4>2. result = Enter(ClimbTiers[best].state, now, current)
        BY <2>1, <2>5, <3>3 DEF EvaluateLadder
      <4>3. OnLadder(current.state) => DwellElapsed(current, rank, now)
        BY <3>3 DEF OnLadder
      <4>4. QED
        BY <1>4, <4>1, <4>2, <4>3
    <3>4. QED
      BY <3>2, <3>3
  <2>6. QED
    BY <2>4, <2>5
<1>5. QED
  BY <1>1, <1>2, <1>3, <1>4 DEF ContradictionSignal

\* Entering a state keeps the record well formed and dates it.
LEMMA EnterType ==
    ASSUME NEW previous \in LifecycleSessionRecord, NEW state \in LifecycleStates, NEW now \in Int,
           NEW result, result = Enter(state, now, previous)
    PROVE  /\ result.record \in LifecycleSessionRecord
           /\ result.record.state = state
           /\ result.record.stateEnteredAt = now
           /\ result.record.recoveryAnnotations = previous.recoveryAnnotations
           /\ result.transitioned
<1> DEFINE e == [disqualifiedAt |-> now, previousState |-> previous.state]
<1>1. e \in DisqualificationAnnotation
  BY DEF DisqualificationAnnotation, LifecycleSessionRecord
<1>2. Append(previous.disqualificationAnnotations, e) \in Seq(DisqualificationAnnotation)
  BY <1>1 DEF LifecycleSessionRecord
<1>3. QED
  BY <1>2 DEF Enter, LifecycleSessionRecord

\* A recovery too.
LEMMA RecoverType ==
    ASSUME NEW previous \in LifecycleSessionRecord, NEW now \in Int,
           NEW result, result = Recover(now, previous)
    PROVE  /\ result.record \in LifecycleSessionRecord
           /\ result.record.state = "RECOVERED"
           /\ result.record.stateEnteredAt = now
           /\ result.record.disqualificationAnnotations = previous.disqualificationAnnotations
           /\ result.transitioned
<1> DEFINE e == [recoveredAt |-> now, regressedFromState |-> "LOST_CONFIDENCE"]
<1>1. e \in RecoveryAnnotation
  BY DEF RecoveryAnnotation, LifecycleStates
<1>2. Append(previous.recoveryAnnotations, e) \in Seq(RecoveryAnnotation)
  BY <1>1 DEF LifecycleSessionRecord
<1>3. QED
  BY <1>2 DEF Recover, LifecycleSessionRecord, LifecycleStates

\* An entry into DISQUALIFIED leaves its annotation at the end of the trail.
LEMMA EscalationAppends ==
    ASSUME NEW previous \in LifecycleSessionRecord, NEW now \in Int
    PROVE  Enter("DISQUALIFIED", now, previous).record.disqualificationAnnotations =
               Append(previous.disqualificationAnnotations,
                      [disqualifiedAt |-> now, previousState |-> previous.state])
BY DEF Enter, LifecycleSessionRecord

\* A transition has its reason: into DISQUALIFIED a corroborated contradiction,
\* which leaves one annotation more; into RECOVERED the bar of the first tier.
LEMMA TransitionsHaveReasons ==
    ASSUME NEW current \in LifecycleSessionRecord, NEW posterior \in Posterior, NEW now \in Int,
           NEW contradiction \in ContradictionSignal,
           NEW result,
           result = EvaluateLifecycleTransition(current, posterior, now, contradiction),
           result.transitioned
    PROVE  /\ result.record.state = "DISQUALIFIED" =>
                  /\ contradiction = "corroborated"
                  /\ Len(result.record.disqualificationAnnotations) =
                         Len(current.disqualificationAnnotations) + 1
           /\ result.record.state = "RECOVERED" => posterior.probability >= 55
<1> DEFINE e == [disqualifiedAt |-> now, previousState |-> current.state]
<1>1. current.state # "DISQUALIFIED"
  BY DEF EvaluateLifecycleTransition, Hold
<1>2. CASE contradiction = "corroborated"
  <2>1. result = Enter("DISQUALIFIED", now, current)
    BY <1>1, <1>2 DEF EvaluateLifecycleTransition
  <2>2. result.record.state = "DISQUALIFIED"
    BY <2>1, EnterType DEF LifecycleStates
  <2>3. result.record.disqualificationAnnotations = Append(current.disqualificationAnnotations, e)
    BY <2>1, EscalationAppends
  <2>4. /\ current.disqualificationAnnotations \in Seq(DisqualificationAnnotation)
        /\ e \in DisqualificationAnnotation
    BY DEF LifecycleSessionRecord, DisqualificationAnnotation
  <2> QED
    BY <1>2, <2>2, <2>3, <2>4
<1>3. CASE contradiction # "corroborated"
  <2>1. \/ result = Enter("LOST_CONFIDENCE", now, current)
        \/ MeetsTier(1, posterior) /\ result = Recover(now, current)
        \/ \E tier \in Tiers : result = Enter(ClimbTiers[tier].state, now, current)
    <3>1. CASE contradiction = "uncorroborated"
      BY <1>1, <3>1 DEF EvaluateLifecycleTransition
    <3>2. CASE contradiction = "none" /\ current.state = "LOST_CONFIDENCE"
      BY <1>1, <3>2 DEF EvaluateLifecycleTransition, Hold
    <3>3. CASE contradiction = "none" /\ current.state # "LOST_CONFIDENCE"
      <4> DEFINE rank == Rank(current.state)
      <4>1. result = EvaluateLadder(current, posterior, now) /\ rank \in -1..4
        BY <1>1, <3>3, RankType DEF EvaluateLifecycleTransition
      <4>2. \/ result = Enter("LOST_CONFIDENCE", now, current)
            \/ /\ QualifyingTiers(rank, posterior) # {}
               /\ result = Enter(ClimbTiers[HighestQualifyingTier(rank, posterior)].state, now, current)
        BY <4>1 DEF EvaluateLadder, Hold
      <4> QED
        BY <4>1, <4>2, HighestQualifies
    <3> QED
      BY <1>3, <3>1, <3>2, <3>3 DEF ContradictionSignal
  <2>2. CASE result = Enter("LOST_CONFIDENCE", now, current)
    BY <2>2, EnterType DEF LifecycleStates
  <2>3. CASE MeetsTier(1, posterior) /\ result = Recover(now, current)
    <3>1. result.record.state = "RECOVERED"
      BY <2>3, RecoverType
    <3>2. posterior.probability >= 55
      BY <2>3 DEF MeetsTier, ClimbTiers
    <3> QED
      BY <3>1, <3>2
  <2>4. ASSUME NEW tier \in Tiers, result = Enter(ClimbTiers[tier].state, now, current)
        PROVE  result.record.state \notin { "DISQUALIFIED", "RECOVERED" }
    BY <2>4, TierTable, EnterType
  <2> QED
    BY <2>1, <2>2, <2>3, <2>4
<1> QED
  BY <1>2, <1>3

\* A recovery leaves its annotation at the end of its trail.
LEMMA RecoveryAppends ==
    ASSUME NEW previous \in LifecycleSessionRecord, NEW now \in Int
    PROVE  Recover(now, previous).record.recoveryAnnotations =
               Append(previous.recoveryAnnotations,
                      [recoveredAt |-> now, regressedFromState |-> "LOST_CONFIDENCE"])
BY DEF Recover, LifecycleSessionRecord

\* A state of suspicion apart, entering a state annotates nothing.
LEMMA EnterAnnotatesNothingElse ==
    ASSUME NEW previous \in LifecycleSessionRecord, NEW state, state # "DISQUALIFIED", NEW now,
           NEW result, result = Enter(state, now, previous)
    PROVE  result.record.disqualificationAnnotations = previous.disqualificationAnnotations
BY DEF Enter, LifecycleSessionRecord

-----------------------------------------------------------------------------
(* Numbers and orders *)

\* A set of numbers has a least element.
LEMMA LeastOfNumbers ==
    ASSUME NEW S, S \subseteq Nat, S # {}
    PROVE  \E n \in S : \A m \in S : n <= m
<1>1. PICK n \in S : \A m \in S : ~(<< m, n >> \in OpToRel(<, Nat))
  BY WFMin, NatLessThanWellFounded
<1>2. \A m \in S : ~(m < n)
  BY <1>1 DEF OpToRel
<1> QED
  BY <1>2

\* Induction on a set of numbers.
LEMMA NumbersByInduction ==
    ASSUME NEW P, 0 \in P, \A n \in Nat : n \in P => n + 1 \in P
    PROVE  Nat \subseteq P
<1> SUFFICES ASSUME Nat \ P # {} PROVE FALSE
  OBVIOUS
<1>1. PICK n \in Nat \ P : \A m \in Nat \ P : n <= m
  BY LeastOfNumbers, Nat \ P \subseteq Nat
<1>2. n - 1 \in Nat /\ (n - 1) + 1 = n /\ ~(n <= n - 1)
  BY <1>1
<1>3. n - 1 \in P
  BY <1>1, <1>2
<1> QED
  BY <1>2, <1>3

\* A numbering that respects an order of a finite set counts its elements.
LEMMA NumberingCounts ==
    ASSUME NEW S, IsFiniteSet(S), NEW r,
           \A x, y \in S : x = y \/ << x, y >> \in r \/ << y, x >> \in r,
           NEW rank \in [S -> 0..(Cardinality(S) - 1)],
           \A x, y \in S : << x, y >> \in r => rank[x] < rank[y]
    PROVE  /\ rank \in Bijection(S, 0..(Cardinality(S) - 1))
           /\ \A x, y \in S : << x, y >> \in r <=> rank[x] < rank[y]
<1> DEFINE n == Cardinality(S)
<1>1. n \in Nat
  BY FS_CardinalityType
<1>2. \A x \in S : rank[x] \in Int
  BY <1>1
<1>3. ASSUME NEW x \in S, NEW y \in S
      PROVE  /\ << x, y >> \in r <=> rank[x] < rank[y]
             /\ rank[x] = rank[y] => x = y
  <2>1. PICK i \in Int, j \in Int : i = rank[x] /\ j = rank[y]
    BY <1>2
  <2>2. CASE x = y
    <3>1. ~(rank[x] < rank[y])
      BY <2>1, <2>2
    <3> QED
      BY <2>2, <3>1
  <2>3. CASE << x, y >> \in r
    <3>1. i < j
      BY <2>1, <2>3
    <3> QED
      BY <2>1, <2>3, <3>1
  <2>4. CASE << y, x >> \in r
    <3>1. j < i
      BY <2>1, <2>4
    <3>2. ~(i < j) /\ i # j
      BY <3>1
    <3> QED
      BY <2>1, <2>4, <3>2
  <2> QED
    BY <2>2, <2>3, <2>4
<1>4. rank \in Injection(S, 0..(n - 1))
  BY <1>3 DEF Injection, IsInjective
<1>5. IsFiniteSet(0..(n - 1)) /\ Cardinality(0..(n - 1)) = n
  BY <1>1, FS_Interval, SMTT(20)
<1>6. rank \in Surjection(S, 0..(n - 1))
  BY <1>4, <1>5, FS_Injection
<1> QED
  BY <1>3, <1>4, <1>6 DEF Bijection

\* What it means that r orders S.
Orders(r, S) ==
    /\ \A x \in S : << x, x >> \notin r
    /\ \A x, y, z \in S : << x, y >> \in r /\ << y, z >> \in r => << x, z >> \in r
    /\ \A x, y \in S : x = y \/ << x, y >> \in r \/ << y, x >> \in r

\* The elements of S below x.
Below(x, r, S) == { y \in S : << y, x >> \in r }

\* In a finite set ordered by r every number below its size is the number of
\* elements below exactly one element, and the numbers are ordered as they are.
LEMMA RanksAreSorted ==
    ASSUME NEW S, IsFiniteSet(S), NEW r, Orders(r, S), NEW rank,
           \A x \in S : rank[x] = Cardinality(Below(x, r, S))
    PROVE  /\ Cardinality(S) \in Nat
           /\ \A x \in S : rank[x] \in 0..(Cardinality(S) - 1)
           /\ \A k \in 0..(Cardinality(S) - 1) : \E x \in S : rank[x] = k
           /\ \A x, y \in S : << x, y >> \in r <=> rank[x] < rank[y]
           /\ \A x, y \in S : rank[x] = rank[y] => x = y
<1> DEFINE n == Cardinality(S)
<1>1. n \in Nat
  BY FS_CardinalityType
<1>2. \A x, y \in S : y \in Below(x, r, S) <=> << y, x >> \in r
  BY DEF Below
<1>3. \A x \in S : Below(x, r, S) \subseteq S
  BY DEF Below
<1>4. ASSUME NEW x \in S
      PROVE  IsFiniteSet(Below(x, r, S)) /\ rank[x] \in 0..(n - 1)
  <2>1. IsFiniteSet(S \ {x}) /\ Cardinality(S \ {x}) = n - 1
    BY FS_RemoveElement
  <2>2. Below(x, r, S) \in SUBSET (S \ {x})
    BY <1>2, <1>3 DEF Orders
  <2>3. IsFiniteSet(Below(x, r, S)) /\ Cardinality(Below(x, r, S)) <= n - 1
    BY <2>1, <2>2, FS_Subset
  <2>4. Cardinality(Below(x, r, S)) \in Nat
    BY <2>3, FS_CardinalityType
  <2> QED
    BY <1>1, <2>3, <2>4
<1>5. ASSUME NEW x \in S, NEW y \in S, << x, y >> \in r
      PROVE  rank[x] < rank[y]
  <2>1. /\ Below(x, r, S) \in SUBSET Below(y, r, S)
        /\ x \in Below(y, r, S) /\ x \notin Below(x, r, S)
    BY <1>2, <1>3, <1>5 DEF Orders
  <2>2. IsFiniteSet(Below(y, r, S))
    BY <1>4
  <2>3. /\ Cardinality(Below(x, r, S)) <= Cardinality(Below(y, r, S))
        /\ Cardinality(Below(x, r, S)) # Cardinality(Below(y, r, S))
    BY <2>1, <2>2, FS_Subset
  <2> QED
    BY <1>1, <1>4, <2>3
<1> DEFINE number == [x \in S |-> rank[x]]
<1>6. number \in [S -> 0..(n - 1)] /\ \A x \in S : number[x] = rank[x]
  BY <1>4
<1> HIDE DEF number
<1>7. /\ number \in Bijection(S, 0..(n - 1))
      /\ \A x, y \in S : << x, y >> \in r <=> number[x] < number[y]
  BY <1>5, <1>6, NumberingCounts DEF Orders
<1>8. /\ \A x, y \in S : number[x] = number[y] => x = y
      /\ \A k \in 0..(n - 1) : \E x \in S : number[x] = k
  BY <1>6, <1>7 DEF Bijection, Injection, Surjection, IsInjective
<1> QED
  BY <1>1, <1>4, <1>6, <1>7, <1>8

-----------------------------------------------------------------------------
(* Folds *)

\* The last of the numbers from 1 to k, and the others.
LEMMA LastOfInterval ==
    ASSUME NEW n \in Nat, NEW k \in 1 .. n
    PROVE  /\ 1 .. k \in SUBSET (1 .. n)
           /\ 1 .. k # {}
           /\ Max(1 .. k) = k
           /\ (1 .. k) \ {k} = 1 .. k - 1
<1>1. k \in 1 .. k /\ \A j \in 1 .. k : k >= j
  OBVIOUS
<1>2. \A x \in 1 .. k : (\A j \in 1 .. k : x >= j) => x = k
  BY <1>1
<1>3. Max(1 .. k) = k
  BY <1>1, <1>2 DEF Max
<1>4. 1 .. k \in SUBSET (1 .. n) /\ (1 .. k) \ {k} = 1 .. k - 1
  OBVIOUS
<1> QED
  BY <1>1, <1>3, <1>4

\* A set of some of the numbers from 1 to n has its greatest element in it.
LEMMA MaxOfNumbers ==
    ASSUME NEW n \in Nat, NEW S \in SUBSET (1 .. n), S # {}
    PROVE  Max(S) \in S /\ \A x \in S : x <= Max(S)
<1> DEFINE Left == { n - x : x \in S }
<1>0. \A x \in S : x \in 1 .. n
  OBVIOUS
<1>1. Left \subseteq Nat /\ Left # {}
  <2>1. \A x \in S : n - x \in Nat
    BY <1>0
  <2> QED
    BY <2>1
<1>2. PICK least \in Left : \A left \in Left : least <= left
  <2> HIDE DEF Left
  <2> QED
    BY <1>1, LeastOfNumbers
<1>3. PICK x \in S : least = n - x
  BY <1>2
<1>4. ASSUME NEW y \in S PROVE x >= y
  <2>1. n - y \in Left
    OBVIOUS
  <2>2. n - x <= n - y
    BY <1>2, <1>3, <2>1
  <2> QED
    BY <1>0, <2>2
<1>5. PICK greatest \in S : greatest = Max(S) /\ \A y \in S : greatest >= y
  BY <1>3, <1>4 DEF Max
<1>6. \A y \in S : y <= greatest
  BY <1>0, <1>5
<1> QED
  BY <1>5, <1>6

\* The recursion of FoldLeft over k places: the last of a set of places is taken,
\* with what the rest comes to.
IsFold(fold, k, base, step) ==
    \A S \in SUBSET (1 .. k) :
        fold[S] = IF S = {} THEN base ELSE step[Max(S)][fold[S \ {Max(S)}]]

HasFold(A, k, base, step) == \E fold \in [SUBSET (1 .. k) -> A] : IsFold(fold, k, base, step)

\* The recursion by which FoldLeft takes the last of a set of places and goes on
\* with the rest is defined, for a step that stays in a set A.
LEMMA FoldEnds ==
    ASSUME NEW n \in Nat, NEW A, NEW base \in A, NEW step \in [1 .. n -> [A -> A]]
    PROVE  HasFold(A, n, base, step)
<1> DEFINE Ends == { k \in Nat : k <= n => HasFold(A, k, base, step) }
<1>1. 0 \in Ends
  <2> DEFINE fold == [S \in SUBSET (1 .. 0) |-> base]
  <2>1. fold \in [SUBSET (1 .. 0) -> A]
    OBVIOUS
  <2>2. \A S \in SUBSET (1 .. 0) : S = {}
    OBVIOUS
  <2>3. IsFold(fold, 0, base, step)
    BY <2>2 DEF IsFold
  <2> HIDE DEF fold
  <2> QED
    BY <2>1, <2>3 DEF HasFold
<1>2. ASSUME NEW k \in Nat, k \in Ends PROVE k + 1 \in Ends
  <2> SUFFICES ASSUME k + 1 <= n
               PROVE  HasFold(A, k + 1, base, step)
    OBVIOUS
  <2>0. HasFold(A, k, base, step)
    BY <1>2
  <2>1. PICK f \in [SUBSET (1 .. k) -> A] : IsFold(f, k, base, step)
    BY <2>0 DEF HasFold
  <2> DEFINE fold == [S \in SUBSET (1 .. (k + 1)) |->
                         IF k + 1 \in S THEN step[k + 1][f[S \ {k + 1}]] ELSE f[S]]
  <2>2. ASSUME NEW S \in SUBSET (1 .. (k + 1)) PROVE S \ {k + 1} \in SUBSET (1 .. k)
    OBVIOUS
  <2>3. ASSUME NEW S \in SUBSET (1 .. (k + 1))
        PROVE  fold[S] \in A
    <3>1. f[S \ {k + 1}] \in A
      BY <2>1, <2>2
    <3>2. k + 1 \in 1 .. n
      OBVIOUS
    <3>3. step[k + 1][f[S \ {k + 1}]] \in A
      BY <3>1, <3>2
    <3>4. k + 1 \notin S => S \ {k + 1} = S
      OBVIOUS
    <3> QED
      BY <3>1, <3>3, <3>4
  <2>4. \A S \in SUBSET (1 .. (k + 1)) : k + 1 \notin S => S \in SUBSET (1 .. k) /\ fold[S] = f[S]
    BY <2>2
  <2>5. \A S \in SUBSET (1 .. (k + 1)) : k + 1 \in S => fold[S] = step[k + 1][f[S \ {k + 1}]]
    OBVIOUS
  <2>6. fold \in [SUBSET (1 .. (k + 1)) -> A]
    BY <2>3
  <2> HIDE DEF fold
  <2>7. ASSUME NEW S \in SUBSET (1 .. (k + 1))
        PROVE  fold[S] = IF S = {} THEN base ELSE step[Max(S)][fold[S \ {Max(S)}]]
    <3>1. CASE k + 1 \in S
      <4>1. Max(S) = k + 1
        <5>1. k + 1 \in S /\ \A j \in S : k + 1 >= j
          BY <3>1
        <5>2. \A x \in S : (\A j \in S : x >= j) => x = k + 1
          BY <5>1
        <5> QED
          BY <5>1, <5>2 DEF Max
      <4>2. fold[S \ {k + 1}] = f[S \ {k + 1}]
        BY <2>2, <2>4
      <4> QED
        BY <2>5, <3>1, <4>1, <4>2
    <3>2. CASE k + 1 \notin S /\ S # {}
      <4>1. S \in SUBSET (1 .. k) /\ fold[S] = f[S]
        BY <2>4, <3>2
      <4>2. fold[S \ {Max(S)}] = f[S \ {Max(S)}]
        BY <2>4, <3>2
      <4>3. f[S] = step[Max(S)][f[S \ {Max(S)}]]
        BY <2>1, <3>2, <4>1 DEF IsFold
      <4> QED
        BY <3>2, <4>1, <4>2, <4>3
    <3>3. CASE S = {}
      <4>1. fold[S] = f[S] /\ f[S] = base
        BY <2>1, <2>4, <3>3 DEF IsFold
      <4> QED
        BY <3>3, <4>1
    <3> QED
      BY <3>1, <3>2, <3>3
  <2> QED
    BY <2>6, <2>7 DEF IsFold, HasFold
<1>3. n \in Ends
  <2> HIDE DEF Ends
  <2> QED
    BY <1>1, <1>2, NumbersByInduction
<1> QED
  BY <1>3
=============================================================================
