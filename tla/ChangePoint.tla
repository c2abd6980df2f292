------------------------------ MODULE ChangePoint ------------------------------
(***************************************************************************)
(* Change-points: the CUSUM detector of one bundle's embedding stream      *)
(* (orchestrator/src/fusion/changePointDetector.ts, default options), and  *)
(* what its detections mean to the lifecycle                               *)
(* (orchestrator/src/bundles/changePointSignal.ts).                        *)
(*                                                                         *)
(* Similarities and sums are whole percents.  The code adds doubles, so a  *)
(* sum of exactly ControlLimit may fall on either side there.              *)
(***************************************************************************)
EXTENDS Integers, Sequences, FiniteSets, SequencesExt

TargetSimilarity == 85

Slack == 5

ControlLimit == 30

Deviation(similarity) == TargetSimilarity - similarity - Slack

AtLeastZero(n) == IF n > 0 THEN n ELSE 0

\* The formula of the file's header: a good observation does not reduce the sum.
ObserveChangePointClamped(sum, similarity) ==
    LET next == sum + AtLeastZero(Deviation(similarity))
    IN  [sum |-> IF next > ControlLimit THEN 0 ELSE next, detected |-> next > ControlLimit]

ObserveChangePoint(sum, similarity) ==
    LET next == AtLeastZero(sum + Deviation(similarity))
    IN  [sum |-> IF next > ControlLimit THEN 0 ELSE next, detected |-> next > ControlLimit]

-----------------------------------------------------------------------------
(* The contradiction signal of a batch. *)

FlaggedBundles(events) == { event.bundle : event \in { e \in ToSet(events) : e.flagged } }

\* Corroborated by this batch alone, without the session's ledger.
ExtractFromBatchOnly(batch, events) ==
    IF FlaggedBundles(batch) = {} THEN "none"
    ELSE IF Cardinality(FlaggedBundles(batch)) >= 2
    THEN "corroborated" ELSE "uncorroborated"

\* Two change-points corroborate each other, be they of one bundle.
ExtractCountingEvents(batch, events) ==
    IF FlaggedBundles(batch) = {} THEN "none"
    ELSE IF Len(SelectSeq(events, LAMBDA e : e.flagged)) >= 2
    THEN "corroborated" ELSE "uncorroborated"

\* A contradiction needs a change-point in this batch; two bundles flagged
\* anywhere in the session's ledger or this batch corroborate it.
ExtractContradictionSignal(batch, events) ==
    IF FlaggedBundles(batch) = {} THEN "none"
    ELSE IF Cardinality(FlaggedBundles(events) \cup FlaggedBundles(batch)) >= 2
    THEN "corroborated" ELSE "uncorroborated"
=============================================================================
