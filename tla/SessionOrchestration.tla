------------------------- MODULE SessionOrchestration -------------------------
(***************************************************************************)
(* SessionOrchestrationService                                             *)
(* (orchestrator/src/api/sessionOrchestrationService.ts): ingestions that  *)
(* wait their turn in the session's promise chain, write their batch to    *)
(* the evidence ledger, score the whole ledger, move the lifecycle through *)
(* SessionLifecycleStore, decide and publish; and human overrides, which   *)
(* go to the store directly.                                               *)
(*                                                                         *)
(* An ingestion's call of the store uses the call slot of its own name.    *)
(* What fusion, candidate confidence and calibration make of the ledger is *)
(* any score of Scores.                                                    *)
(***************************************************************************)
EXTENDS SessionLifecycleStore, DecisionEngine, ChangePoint

CONSTANTS
    Ingests,      \* the ingestions, each at most once
    Batches,      \* the batches an ingestion may bring: sequences of events
    Scores        \* the scores a ledger may get: posterior and tightness

ASSUME IngestsAssumption == Ingests \subseteq Calls
ASSUME BatchesAssumption == \A batch \in Batches : batch \in Seq([bundle : STRING, flagged : BOOLEAN])
ASSUME ScoresAssumption ==
    /\ Scores \subseteq [posterior : Posterior, tight : BOOLEAN]
    /\ \A score \in Scores, contradiction \in ContradictionSignal, now \in Nows :
          [kind |-> "evaluate", posterior |-> score.posterior,
           contradiction |-> contradiction, now |-> now] \in Evaluations

VARIABLES
    ledger,         \* evidence_events: per session, the events as inserted (the
                    \*   query sorts them by time; nothing here reads the order)
    chain,          \* sessionChains: per session, the ingestions not yet settled
    ingests,        \* the ingestions
    wasAmbiguous,   \* DecisionEngine.wasAmbiguousBySession
    published       \* what SessionEventBus has published, in order

orchVars == << ledger, chain, ingests, wasAmbiguous, published >>
vars == << storeVars, orchVars >>

Init ==
    /\ StoreInit
    /\ ledger = [s \in Sessions |-> << >>]
    /\ chain = [s \in Sessions |-> << >>]
    /\ ingests = [i \in Ingests |-> [pc |-> "new"]]
    /\ wasAmbiguous = [s \in Sessions |-> FALSE]
    /\ published = << >>

-----------------------------------------------------------------------------
(* The session lock: work starts when the work before it has settled, however
   it settled. *)

\* Nobody waits: any ingestion of the chain may run.
MayRunUnserialized(i) == i \in ToSet(chain[ingests[i].session])

MayRun(i) ==
    /\ chain[ingests[i].session] # << >>
    /\ Head(chain[ingests[i].session]) = i

\* Only the head of the chain is at work, so it is the head that settles.
Release(i) == chain' = [chain EXCEPT ![ingests[i].session] = Tail(@)]

\* The ingestion ends; its part of the chain settles with it.
End(i, pc) ==
    /\ ingests' = [ingests EXCEPT ![i] = [pc |-> pc]]
    /\ Release(i)

\* A rejection is not passed on to the chain: those behind it never start.
RejectKeepingTurn(i) ==
    /\ ingests' = [ingests EXCEPT ![i] = [pc |-> "rejected"]]
    /\ UNCHANGED chain

Reject(i) == End(i, "rejected")

-----------------------------------------------------------------------------
(* The steps of an ingestion. *)

\* The adapters have answered: runPipeline enters the chain.  "now" was read
\* when the request came in.
Enqueue(i, s, batch, now) ==
    /\ ingests[i].pc = "new"
    /\ chain' = [chain EXCEPT ![s] = Append(@, i)]
    /\ ingests' = [ingests EXCEPT ![i] =
         [pc |-> "queued", session |-> s, batch |-> batch, now |-> now, appended |-> 0]]
    /\ UNCHANGED << storeVars, ledger, wasAmbiguous, published >>

Start(i) ==
    /\ ingests[i].pc = "queued"
    /\ MayRun(i)
    /\ ingests' = [ingests EXCEPT ![i].pc = "appending"]
    /\ UNCHANGED << storeVars, ledger, chain, wasAmbiguous, published >>

NextEvent(i) ==
    LET event == ingests[i].batch[ingests[i].appended + 1]
    IN  [bundle |-> event.bundle, flagged |-> event.flagged, ingest |-> i]

AppendNext(i) ==
    /\ ingests[i].pc = "appending"
    /\ ingests[i].appended < Len(ingests[i].batch)
    /\ ledger' = [ledger EXCEPT ![ingests[i].session] = Append(@, NextEvent(i))]
    /\ ingests' = [ingests EXCEPT ![i].appended = @ + 1]
    /\ UNCHANGED << storeVars, chain, wasAmbiguous, published >>

AllAppended(i) ==
    /\ ingests[i].pc = "appending"
    /\ ingests[i].appended = Len(ingests[i].batch)
    /\ ingests' = [ingests EXCEPT ![i].pc = "listing"]
    /\ UNCHANGED << storeVars, ledger, chain, wasAmbiguous, published >>

\* The ledger refuses an event or the read.  What was appended stays.
LedgerFails(i) ==
    /\ faults.failures < MaxFailures
    /\ \/ ingests[i].pc = "appending" /\ ingests[i].appended < Len(ingests[i].batch)
       \/ ingests[i].pc = "listing"
    /\ faults' = [faults EXCEPT !.failures = @ + 1]
    /\ Reject(i)
    /\ UNCHANGED << memory, recovered, nextSequence, snapshots, calls, acknowledged,
                    ledger, wasAmbiguous, published >>

\* The event is in the ledger and its reply is lost.
LedgerReplyLost(i) ==
    /\ faults.lostReplies < MaxLostReplies
    /\ ingests[i].pc = "appending"
    /\ ingests[i].appended < Len(ingests[i].batch)
    /\ ledger' = [ledger EXCEPT ![ingests[i].session] = Append(@, NextEvent(i))]
    /\ faults' = [faults EXCEPT !.lostReplies = @ + 1]
    /\ Reject(i)
    /\ UNCHANGED << memory, recovered, nextSequence, snapshots, calls, acknowledged,
                    wasAmbiguous, published >>

\* The ledger is read, scored, and the store called.
Score(i, score) ==
    LET s      == ingests[i].session
        events == ledger[s]
        op     == [kind |-> "evaluate", posterior |-> score.posterior,
                   contradiction |-> ExtractContradictionSignal(ingests[i].batch, events),
                   now |-> ingests[i].now]
    IN  /\ ingests[i].pc = "listing"
        /\ MayBegin(s, op)
        /\ Begin(i, s, op)
        /\ ingests' = [ingests EXCEPT ![i] =
             [pc |-> "evaluating", session |-> s, score |-> score, events |-> events]]
        /\ UNCHANGED << faults, ledger, chain, wasAmbiguous, published >>

\* Whether the call of a slot changed the state: exactly then it saved.
Transitioned(i) == calls[i].sequence # -1

\* The decision, less its wording and what only the caller's screen shows.
DecisionOf(i) ==
    LET record  == calls[i].result
        s       == ingests[i].session
        verdict == Decide(record, Transitioned(i), ingests[i].score.posterior.probability,
                          ingests[i].score.tight, wasAmbiguous[s])
    IN  [ingest |-> i, session |-> s, record |-> record, state |-> verdict.state,
         transitioned |-> Transitioned(i), alert |-> verdict.alert,
         ambiguous |-> verdict.ambiguous, events |-> ingests[i].events]

\* The store has answered: decide.  Without an alert there is no report, and
\* the decision is published at once; with one, the narrative is awaited.
DecideOn(i) ==
    LET decision == DecisionOf(i)
    IN  /\ ingests[i].pc = "evaluating"
        /\ calls[i].pc = "returned"
        /\ calls' = [calls EXCEPT ![i] = NoCall]
        /\ wasAmbiguous' = [wasAmbiguous EXCEPT ![ingests[i].session] = decision.ambiguous]
        /\ IF decision.alert = "none"
           THEN /\ published' = Append(published, decision)
                /\ End(i, "done")
           ELSE /\ ingests' = [ingests EXCEPT ![i] =
                     [pc |-> "narrating", session |-> decision.session, decision |-> decision]]
                /\ UNCHANGED << chain, published >>
        /\ UNCHANGED << memory, recovered, nextSequence, snapshots, faults, acknowledged, ledger >>

\* The narrative never fails.
Publish(i) ==
    /\ ingests[i].pc = "narrating"
    /\ published' = Append(published, ingests[i].decision)
    /\ End(i, "done")
    /\ UNCHANGED << storeVars, ledger, wasAmbiguous >>

\* The store threw: nothing is decided and nothing published.
StoreFails(i) ==
    /\ ingests[i].pc = "evaluating"
    /\ calls[i].pc \in { "failed", "collided" }
    /\ calls' = [calls EXCEPT ![i] = NoCall]
    /\ Reject(i)
    /\ UNCHANGED << memory, recovered, nextSequence, snapshots, faults, acknowledged,
                    ledger, wasAmbiguous, published >>

-----------------------------------------------------------------------------
(* Overrides, the store's own steps, and the loss of the process. *)

ApplyHumanOverride(c, s, op) ==
    /\ NewCall(c, s, op)
    /\ UNCHANGED orchVars

StoreStep(c) ==
    /\ \/ CallStep(c)
       \/ c \notin Ingests /\ Settle(c)
    /\ UNCHANGED orchVars

Restart(orphans) ==
    /\ Crash(orphans)
    /\ chain' = [s \in Sessions |-> << >>]
    /\ ingests' = [i \in Ingests |->
         IF ingests[i].pc \in { "new", "done", "rejected", "lost" }
         THEN ingests[i] ELSE [pc |-> "lost"]]
    /\ wasAmbiguous' = [s \in Sessions |-> FALSE]
    /\ UNCHANGED << ledger, published >>

IngestStep(i) ==
    \/ Start(i) \/ AppendNext(i) \/ AllAppended(i)
    \/ (\E score \in Scores : Score(i, score))
    \/ DecideOn(i) \/ Publish(i) \/ StoreFails(i)

\* Everything a request does once it is in the chain, and the overrides.
Serve ==
    \/ \E i \in Ingests : IngestStep(i) \/ LedgerFails(i) \/ LedgerReplyLost(i)
    \/ \E c \in Calls \ Ingests, s \in Sessions, op \in Overrides : ApplyHumanOverride(c, s, op)
    \/ \E c \in Calls : StoreStep(c)

Next ==
    \/ \E i \in Ingests, s \in Sessions, batch \in Batches, now \in Nows : Enqueue(i, s, batch, now)
    \/ Serve
    \/ \E orphans \in SUBSET Calls : Restart(orphans)

Spec == Init /\ [][Next]_vars

\* The event loop runs what is ready, and the database answers every query.
Fairness ==
    /\ \A i \in Ingests : WF_vars(IngestStep(i))
    /\ \A c \in Calls : WF_vars(calls[c].pc # "orphaned" /\ StoreStep(c))

FairSpec == Spec /\ Fairness

-----------------------------------------------------------------------------
(* Properties *)

Waiting   == { "queued", "appending", "listing", "evaluating", "narrating" }
Finished  == { "done", "rejected", "lost" }

\* Every variable has its type, and the chain of a session is exactly its
\* ingestions under way, of which only the first has left the queue.
OrchTypeOK ==
    /\ StoreTypeOK
    /\ \A i \in Ingests : ingests[i].pc \in {"new"} \cup Waiting \cup Finished
    /\ wasAmbiguous \in [Sessions -> BOOLEAN]
    /\ \A s \in Sessions :
          /\ IsInjective(chain[s])
          /\ ToSet(chain[s]) =
                { i \in Ingests : ingests[i].pc \in Waiting /\ ingests[i].session = s }
          /\ \A k \in 2..Len(chain[s]) : ingests[chain[s][k]].pc = "queued"

\* Later decisions know more: each decision of a session is taken on
\* everything the decisions published before it had read, and the batches of
\* two ingestions never mix in the ledger (the ordering the lock is for,
\* sessionOrchestrationService.ts:86).
DecisionsFollowTheLedger ==
    /\ \A j, k \in DOMAIN published :
          j < k /\ published[j].session = published[k].session =>
              ToSet(published[j].events) \subseteq ToSet(published[k].events)
    /\ \A s \in Sessions : \A a, b, c \in DOMAIN ledger[s] :
          a < b /\ b < c /\ ledger[s][a].ingest = ledger[s][c].ingest =>
              ledger[s][b].ingest = ledger[s][a].ingest

\* An urgent alert is never about something that can be forgotten: the
\* disqualification it announces is in the row the session would be recovered
\* from, and stays there.
UrgentAlertsAreOnFile ==
    \A k \in DOMAIN published :
        published[k].alert = "disqualified" =>
            Continues(LatestRecord(published[k].session), published[k].record)

UrgentAlerts(s) == { k \in DOMAIN published :
                       published[k].session = s /\ published[k].alert = "disqualified" }

\* Nobody is alarmed twice by one disqualification: the urgent alerts of a
\* session never outnumber the disqualification annotations on file, across
\* failures, overrides and restarts.
OneUrgentAlertEach ==
    \A s \in Sessions :
        Cardinality(UrgentAlerts(s)) <=
            IF LatestRecord(s) = NoRecord THEN 0
            ELSE Len(LatestRecord(s).disqualificationAnnotations)

\* No urgent alert without corroboration: change-points of two bundles are in
\* the ledger the alert refers to (changePointSignal.ts:47-52).
UrgentAlertsAreCorroborated ==
    \A k \in DOMAIN published :
        published[k].alert = "disqualified" =>
            Cardinality(FlaggedBundles(published[k].events)) >= 2

AtRest(s) == chain[s] = << >> /\ InFlightFor(s) = {}

\* And none forgotten: once two bundles are flagged in the ledger and the
\* session is at rest, the disqualification is on file, in whichever batches
\* and order the change-points came and whatever humans decided meanwhile.
CorroborationEscalates ==
    \A s \in Sessions :
        AtRest(s) /\ Cardinality(FlaggedBundles(ledger[s])) >= 2 =>
            /\ LatestRecord(s) # NoRecord
            /\ LatestRecord(s).disqualificationAnnotations # << >>

\* No silent change for the worse, or recovery: a decision on a tick that
\* moved the session to DISQUALIFIED, LOST_CONFIDENCE or RECOVERED carries
\* the alert for it, whatever else the posterior looks like.
MovesOfConcernAlert ==
    \A k \in DOMAIN published : published[k].transitioned =>
        /\ published[k].state = "DISQUALIFIED"    => published[k].alert = "disqualified"
        /\ published[k].state = "LOST_CONFIDENCE" => published[k].alert = "lost"
        /\ published[k].state = "RECOVERED"       => published[k].alert = "recovered"

\* Decision k carries a spell on: the one before it in its session is ambiguous.
GoesOn(k) ==
    \E j \in 1..k - 1 :
        /\ published[j].session = published[k].session
        /\ published[j].ambiguous
        /\ \A i \in j + 1..k - 1 : published[i].session # published[k].session

\* An ambiguous spell alerts once, on its first tick (decisionEngine.ts:95-104).
AmbiguitySpellAlertsOnce ==
    \A k \in DOMAIN published :
        published[k].alert = "ambiguous" <=> published[k].ambiguous /\ ~GoesOn(k)

\* Every ingestion ends, whatever happened to the ones before it: a failure
\* does not poison the chain.
EveryIngestSettles ==
    \A i \in Ingests : ingests[i].pc = "queued" ~> ingests[i].pc \in Finished

\* The evaluation of ingestion i has moved the session to DISQUALIFIED.
Escalated(i) ==
    /\ calls[i] # NoCall
    /\ calls[i].result # NoRecord
    /\ calls[i].result.state = "DISQUALIFIED"
    /\ Transitioned(i)

Announced(i) == \E k \in DOMAIN published :
                    published[k].ingest = i /\ published[k].alert = "disqualified"

\* No escalation is silent: every automatic disqualification ends in an urgent
\* alert or in an error for the caller that brought the evidence, who alone
\* can act on it then.
EscalationIsNeverSilent ==
    \A i \in Ingests : Escalated(i) ~> Announced(i) \/ ingests[i].pc \in { "rejected", "lost" }

\* docs/architecture.md:268: DISQUALIFIED is "the only state that triggers
\* mandatory, urgent human escalation", so every automatic disqualification
\* is announced urgently.
EscalationIsAnnounced == \A i \in Ingests : Escalated(i) ~> Announced(i)
=============================================================================
