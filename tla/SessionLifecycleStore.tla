------------------------- MODULE SessionLifecycleStore -------------------------
(***************************************************************************)
(* The recovery-aware store of one orchestrator replica                    *)
(* (orchestrator/src/routing/sessionLifecycleStore.ts) over the snapshot   *)
(* table (persistence/sessionSnapshotRepository.ts).                       *)
(*                                                                         *)
(* A call runs without interruption between two awaits, and one action is  *)
(* one such stretch, or the moment the database executes a query, or the   *)
(* loss of the process.  What a query sees and when its caller hears of it *)
(* are two different moments.                                              *)
(***************************************************************************)
EXTENDS Lifecycle, FiniteSets, FiniteSetsExt, SequencesExt

CONSTANTS
    Sessions,
    Calls,            \* slots for the calls in progress
    Evaluations,      \* what an evaluation may be given: posterior, contradiction
    Overrides,        \* the states a human may order
    Nows,             \* the times a call may be given
    NoRecord,         \* nothing held in memory, nothing found in the table
    Overlap,          \* how far calls for one session may overlap, see MayBegin
    MaxCalls,         \* bounds: calls begun, queries refused by the database,
    MaxFailures,      \*   inserts executed whose reply is lost,
    MaxLostReplies,   \*   processes lost, and inserts of a lost process
    MaxCrashes,       \*   that the database executes all the same
    MaxOrphans

ASSUME EvaluationsAssumption ==
    Evaluations \subseteq [kind : {"evaluate"}, posterior : Posterior,
                           contradiction : ContradictionSignal, now : Nows]
ASSUME OverridesAssumption ==
    Overrides \subseteq [kind : {"override"}, nextState : LifecycleStates, now : Nows]
ASSUME NowsAssumption == Nows \subseteq Nat
ASSUME CallsAssumption == IsFiniteSet(Calls)
ASSUME NoRecordIsNoRecord == NoRecord \notin LifecycleSessionRecord
ASSUME OverlapAssumption == Overlap \in { "none", "warm", "any" }
ASSUME StoreBoundsAssumption ==
    { MaxCalls, MaxFailures, MaxLostReplies, MaxCrashes, MaxOrphans } \subseteq Nat

VARIABLES
    memory,         \* LifecycleStateManager.records: a record or NoRecord per session
    recovered,      \* recoveredSessions
    nextSequence,   \* nextSequenceBySession (an absent entry reads as 0)
    snapshots,      \* session_state_snapshots: per session, sequence -> row
    calls,          \* the calls in progress
    faults,         \* counters of the bounded faults, and of the calls begun
    acknowledged    \* history: the record of the session's last successful change

storeVars == << memory, recovered, nextSequence, snapshots, calls, faults, acknowledged >>

Row == [record : LifecycleSessionRecord, by : {"fsm", "human"}]

NoCall == [pc |-> "idle"]

InFlight == { c \in Calls : calls[c].pc \notin { "idle", "orphaned" } }

InFlightFor(s) == { c \in InFlight : calls[c].session = s }

StoreInit ==
    /\ memory = [s \in Sessions |-> NoRecord]
    /\ recovered = {}
    /\ nextSequence = [s \in Sessions |-> 0]
    /\ snapshots = [s \in Sessions |-> << >>]
    /\ calls = [c \in Calls |-> NoCall]
    /\ faults = [begun |-> 0, failures |-> 0, lostReplies |-> 0, crashes |-> 0, orphans |-> 0]
    /\ acknowledged = [s \in Sessions |-> NoRecord]

-----------------------------------------------------------------------------
(* The snapshot table: (session, sequence) is unique. *)

\* The highest sequence in the table, -1 when the session has no row.
LatestSequence(s) == Max(DOMAIN snapshots[s] \cup {-1})

LatestRecord(s) ==
    IF DOMAIN snapshots[s] = {} THEN NoRecord ELSE snapshots[s][LatestSequence(s)].record

WithRow(rows, sequence, row) ==
    [number \in DOMAIN rows \cup {sequence} |-> IF number = sequence THEN row ELSE rows[number]]

\* A number already taken is not refused: the row is written again.
InsertOverwriting(s, sequence, row) ==
    snapshots' = [snapshots EXCEPT ![s] = WithRow(@, sequence, row)]

Insert(s, sequence, row) ==
    /\ sequence \notin DOMAIN snapshots[s]
    /\ snapshots' = [snapshots EXCEPT ![s] = WithRow(@, sequence, row)]

-----------------------------------------------------------------------------
(* One call, from its first statement to its promise being settled. *)

Goto(c, pc) == calls' = [calls EXCEPT ![c].pc = pc]

\* Evaluations of one session wait for each other (the session lock of
\* SessionOrchestrationService); an override waits for nobody.  Overlap
\* restricts the overrides: "none" to sessions with no call in progress,
\* "warm" to sessions already recovered when another call is in progress.
MayBegin(s, op) ==
    /\ op.kind = "evaluate" => \A c \in InFlightFor(s) : calls[c].op.kind # "evaluate"
    /\ Overlap = "none" => InFlightFor(s) = {}
    /\ Overlap = "warm" => InFlightFor(s) = {} \/ s \in recovered

\* Up to the first await of ensureRecovered, which does not wait for a load
\* that another call has already begun.
Begin(c, s, op) ==
    /\ calls[c] = NoCall
    /\ calls' = [calls EXCEPT ![c] =
         [pc       |-> IF s \in recovered THEN "acting" ELSE "loading",
          session  |-> s,
          op       |-> op,
          loaded   |-> NoRecord,
          result   |-> NoRecord,
          sequence |-> -1]]
    /\ UNCHANGED << memory, recovered, nextSequence, snapshots, acknowledged >>

\* getLatest executes at the database; the call has yet to hear of it.
LoadLatest(c) ==
    LET s == calls[c].session
    IN  /\ calls[c].pc = "loading"
        /\ calls' = [calls EXCEPT ![c].pc = "restoring",
                                  ![c].loaded = LatestRecord(s),
                                  ![c].sequence = LatestSequence(s)]
        /\ UNCHANGED << memory, recovered, nextSequence, snapshots, faults, acknowledged >>

\* Recovery moves the cursor and leaves the session at UNKNOWN.
RestoreCursorOnly(c) ==
    LET s == calls[c].session
    IN  /\ calls[c].pc = "restoring"
        /\ nextSequence' = [nextSequence EXCEPT ![s] = calls[c].sequence + 1]
        /\ recovered' = recovered \cup {s}
        /\ calls' = [calls EXCEPT ![c].pc = "acting", ![c].loaded = NoRecord, ![c].sequence = -1]
        /\ UNCHANGED << memory, snapshots, faults, acknowledged >>

\* Recovery counts the row it read twice.
RestoreSkippingOne(c) ==
    LET s == calls[c].session
    IN  /\ calls[c].pc = "restoring"
        /\ memory' = IF calls[c].loaded = NoRecord
                     THEN memory
                     ELSE [memory EXCEPT ![s] = calls[c].loaded]
        /\ nextSequence' = [nextSequence EXCEPT ![s] = calls[c].sequence + 2]
        /\ recovered' = recovered \cup {s}
        /\ calls' = [calls EXCEPT ![c].pc = "acting", ![c].loaded = NoRecord, ![c].sequence = -1]
        /\ UNCHANGED << snapshots, faults, acknowledged >>

\* The rest of ensureRecovered: what memory holds by now is replaced, and the
\* cursor is set from the row that was read.
Restore(c) ==
    LET s == calls[c].session
    IN  /\ calls[c].pc = "restoring"
        /\ memory' = IF calls[c].loaded = NoRecord
                     THEN memory
                     ELSE [memory EXCEPT ![s] = calls[c].loaded]
        /\ nextSequence' = [nextSequence EXCEPT ![s] = calls[c].sequence + 1]
        /\ recovered' = recovered \cup {s}
        /\ calls' = [calls EXCEPT ![c].pc = "acting", ![c].loaded = NoRecord, ![c].sequence = -1]
        /\ UNCHANGED << snapshots, faults, acknowledged >>

CurrentRecord(s, now) ==
    IF memory[s] = NoRecord THEN InitialLifecycleRecord(now) ELSE memory[s]

Outcome(s, op) ==
    IF op.kind = "evaluate"
    THEN EvaluateLifecycleTransition(CurrentRecord(s, op.now), op.posterior, op.now, op.contradiction)
    ELSE Enter(op.nextState, op.now, CurrentRecord(s, op.now))

\* Only the changes the state machine makes are saved.
ActSavingNoOverride(c) ==
    LET s      == calls[c].session
        result == Outcome(s, calls[c].op)
        saves  == result.transitioned /\ calls[c].op.kind = "evaluate"
    IN  /\ calls[c].pc = "acting"
        /\ memory' = [memory EXCEPT ![s] = result.record]
        /\ calls' = [calls EXCEPT
             ![c].pc       = IF saves THEN "saving" ELSE "returned",
             ![c].result   = result.record,
             ![c].sequence = IF saves THEN nextSequence[s] ELSE -1]
        /\ UNCHANGED << recovered, nextSequence, snapshots, faults, acknowledged >>

\* The manager moves, and if the state changed the insert is sent off with
\* the number the cursor holds, all before the next await.
Act(c) ==
    LET s      == calls[c].session
        result == Outcome(s, calls[c].op)
    IN  /\ calls[c].pc = "acting"
        /\ memory' = [memory EXCEPT ![s] = result.record]
        /\ calls' = [calls EXCEPT
             ![c].pc       = IF result.transitioned THEN "saving" ELSE "returned",
             ![c].result   = result.record,
             ![c].sequence = IF result.transitioned THEN nextSequence[s] ELSE -1]
        /\ UNCHANGED << recovered, nextSequence, snapshots, faults, acknowledged >>

RowOf(c) == [record |-> calls[c].result,
             by     |-> IF calls[c].op.kind = "evaluate" THEN "fsm" ELSE "human"]

\* The insert executes, or meets the unique constraint.
Save(c) ==
    /\ calls[c].pc = "saving"
    /\ \/ /\ Insert(calls[c].session, calls[c].sequence, RowOf(c))
          /\ Goto(c, "saved")
       \/ /\ calls[c].sequence \in DOMAIN snapshots[calls[c].session]
          /\ Goto(c, "collided")
          /\ UNCHANGED snapshots
    /\ UNCHANGED << memory, recovered, nextSequence, faults, acknowledged >>

\* The cursor is left where it was.
AdvanceNoCursor(c) ==
    /\ calls[c].pc = "saved"
    /\ acknowledged' = [acknowledged EXCEPT ![calls[c].session] = calls[c].result]
    /\ Goto(c, "returned")
    /\ UNCHANGED << memory, recovered, nextSequence, snapshots, faults >>

\* The reply arrives: only now does the cursor move.
Advance(c) ==
    LET s == calls[c].session
    IN  /\ calls[c].pc = "saved"
        /\ nextSequence' = [nextSequence EXCEPT ![s] = calls[c].sequence + 1]
        /\ acknowledged' = [acknowledged EXCEPT ![s] = calls[c].result]
        /\ Goto(c, "returned")
        /\ UNCHANGED << memory, recovered, snapshots, faults >>

\* A refused insert is swallowed: the call returns as if it had saved.
FailSwallowed(c) ==
    /\ faults.failures < MaxFailures
    /\ calls[c].pc \in { "loading", "saving" }
    /\ Goto(c, IF calls[c].pc = "saving" THEN "returned" ELSE "failed")
    /\ faults' = [faults EXCEPT !.failures = @ + 1]
    /\ UNCHANGED << memory, recovered, nextSequence, snapshots, acknowledged >>

\* A query the database refuses: nothing but the call ends.
Fail(c) ==
    /\ faults.failures < MaxFailures
    /\ calls[c].pc \in { "loading", "saving" }
    /\ Goto(c, "failed")
    /\ faults' = [faults EXCEPT !.failures = @ + 1]
    /\ UNCHANGED << memory, recovered, nextSequence, snapshots, acknowledged >>

\* The row is in the table and the connection breaks: to the caller, a failure.
LoseReply(c) ==
    /\ faults.lostReplies < MaxLostReplies
    /\ calls[c].pc = "saving"
    /\ Insert(calls[c].session, calls[c].sequence, RowOf(c))
    /\ Goto(c, "failed")
    /\ faults' = [faults EXCEPT !.lostReplies = @ + 1]
    /\ UNCHANGED << memory, recovered, nextSequence, acknowledged >>

Settled(c) == calls[c].pc \in { "returned", "failed", "collided" }

Settle(c) ==
    /\ Settled(c)
    /\ calls' = [calls EXCEPT ![c] = NoCall]
    /\ UNCHANGED << memory, recovered, nextSequence, snapshots, faults, acknowledged >>

-----------------------------------------------------------------------------
(* The process is lost and another takes its place.  An insert already sent
   may still reach the database. *)

Crash(orphans) ==
    /\ faults.crashes < MaxCrashes
    /\ \A c \in orphans : calls[c].pc = "saving"
    /\ faults.orphans + Cardinality(orphans) <= MaxOrphans
    /\ memory' = [s \in Sessions |-> NoRecord]
    /\ recovered' = {}
    /\ nextSequence' = [s \in Sessions |-> 0]
    /\ calls' = [c \in Calls |->
         IF c \in orphans THEN [calls[c] EXCEPT !.pc = "orphaned"]
         ELSE IF calls[c].pc = "orphaned" THEN calls[c] ELSE NoCall]
    /\ faults' = [faults EXCEPT !.crashes = @ + 1, !.orphans = @ + Cardinality(orphans)]
    /\ UNCHANGED << snapshots, acknowledged >>

OrphanSave(c) ==
    /\ calls[c].pc = "orphaned"
    /\ calls' = [calls EXCEPT ![c] = NoCall]
    /\ \/ Insert(calls[c].session, calls[c].sequence, RowOf(c))
       \/ /\ calls[c].sequence \in DOMAIN snapshots[calls[c].session]
          /\ UNCHANGED snapshots
    /\ UNCHANGED << memory, recovered, nextSequence, faults, acknowledged >>

-----------------------------------------------------------------------------

CallStep(c) ==
    \/ LoadLatest(c) \/ Restore(c) \/ Act(c) \/ Save(c) \/ Advance(c)
    \/ Fail(c) \/ LoseReply(c) \/ OrphanSave(c)

NewCall(c, s, op) ==
    /\ faults.begun < MaxCalls
    /\ MayBegin(s, op)
    /\ Begin(c, s, op)
    /\ faults' = [faults EXCEPT !.begun = @ + 1]

StoreNext ==
    \/ \E c \in Calls, s \in Sessions, op \in Evaluations \cup Overrides : NewCall(c, s, op)
    \/ \E c \in Calls : CallStep(c) \/ Settle(c)
    \/ \E orphans \in SUBSET Calls : Crash(orphans)

StoreSpec == StoreInit /\ [][StoreNext]_storeVars

-----------------------------------------------------------------------------
(* Properties *)

CallRecord ==
    [pc : { "loading", "restoring", "acting", "saving", "saved", "orphaned",
            "returned", "failed", "collided" },
     session : Sessions,
     op : Evaluations \cup Overrides,
     loaded : LifecycleSessionRecord \cup {NoRecord},
     result : LifecycleSessionRecord \cup {NoRecord},
     sequence : Nat \cup {-1}]

\* Every variable has its type, and the numbers of a session's rows run from
\* 0 without a gap, so that the row with the highest number is the last one
\* written, which is what getLatest relies on.
StoreTypeOK ==
    /\ memory \in [Sessions -> LifecycleSessionRecord \cup {NoRecord}]
    /\ recovered \subseteq Sessions
    /\ nextSequence \in [Sessions -> Nat]
    /\ calls \in [Calls -> CallRecord \cup {NoCall}]
    /\ acknowledged \in [Sessions -> LifecycleSessionRecord \cup {NoRecord}]
    /\ \A s \in Sessions :
          /\ DOMAIN snapshots[s] = 0..LatestSequence(s)
          /\ \A sequence \in DOMAIN snapshots[s] : snapshots[s][sequence] \in Row

\* The audit trail of a record continues the audit trail of another.
Continues(later, earlier) ==
    earlier # NoRecord =>
        /\ later # NoRecord
        /\ IsPrefix(earlier.recoveryAnnotations, later.recoveryAnnotations)
        /\ IsPrefix(earlier.disqualificationAnnotations, later.disqualificationAnnotations)

\* A change whose caller was told it succeeded is never lost: whatever fails
\* or crashes afterwards, the row a replica would recover the session from
\* carries every annotation the caller saw ("permanent audit record ...
\* never cleared", statemachine/lifecycle.ts:72).
AcknowledgedChangesSurvive ==
    \A s \in Sessions : Continues(LatestRecord(s), acknowledged[s])

\* Rows are only added, and each new row continues the trail of the one
\* before it: no writer that missed a change gets past the unique constraint.
DurableTrailOnlyGrows ==
    [][\A s \in Sessions :
         /\ \A sequence \in DOMAIN snapshots[s] :
                /\ sequence \in DOMAIN snapshots'[s]
                /\ snapshots'[s][sequence] = snapshots[s][sequence]
         /\ Continues(LatestRecord(s)', LatestRecord(s))]_storeVars

\* No call but a human's takes a session out of DISQUALIFIED in a replica's
\* memory ("the only way a session leaves DISQUALIFIED", statemachine/
\* lifecycle.ts:387): no evaluation, and no recovery that ends while the
\* session is already at work.
OnlyOverridesLeaveDisqualified ==
    [][\A s \in Sessions :
         /\ memory[s] # NoRecord /\ memory'[s] # NoRecord
         /\ memory[s].state = "DISQUALIFIED" /\ memory'[s].state # "DISQUALIFIED"
         => \E c \in InFlightFor(s) :
                calls[c].pc = "acting" /\ calls[c].op.kind = "override"]_storeVars

\* Each change gets a number of its own ("each call records a new,
\* monotonically-numbered checkpoint", sessionSnapshotRepository.ts:13): no
\* call that the database does not refuse ends on the unique constraint.
EveryChangeIsNumbered == \A c \in Calls : calls[c].pc # "collided"

\* A replica at rest is no different from one that starts now: what it holds
\* of a session it has recovered is what the table holds.
RestingMemoryIsDurable ==
    \A s \in recovered : InFlightFor(s) = {} =>
        /\ nextSequence[s] = LatestSequence(s) + 1
        /\ \/ memory[s] = LatestRecord(s)
           \/ /\ LatestRecord(s) = NoRecord
              /\ memory[s].state = "UNKNOWN"

\* What recovery would find keeps the lifecycle's promise: rows differ from
\* the rows before them by one legal move, so no crash, at any moment, lets
\* a session out of DISQUALIFIED, or drops an annotation.
Durable == INSTANCE LifecycleContract WITH
    state       <- [s \in Sessions |->
                      IF LatestRecord(s) = NoRecord THEN "UNKNOWN" ELSE LatestRecord(s).state],
    mover       <- [s \in Sessions |->
                      IF LatestRecord(s) = NoRecord THEN "fsm" ELSE snapshots[s][LatestSequence(s)].by],
    recoveries  <- [s \in Sessions |->
                      IF LatestRecord(s) = NoRecord THEN 0
                      ELSE Len(LatestRecord(s).recoveryAnnotations)],
    escalations <- [s \in Sessions |->
                      IF LatestRecord(s) = NoRecord THEN 0
                      ELSE Len(LatestRecord(s).disqualificationAnnotations)]

DurableKeepsContract == Durable!ContractSpec
=============================================================================
