---------------------------- MODULE ReviewConsole ----------------------------
(* A reviewer's page and the part of the HTTP interface it uses: the status
   request, the two posts and the event stream of api/httpServer.ts with the
   calls of SessionOrchestrationService behind them, and the hooks of the
   session workspace (dashboard/src). The pipeline is abstracted to its effect
   here: one more event in the ledger, a move of the state, a decision
   published. The stream of a page is replaced when the page turns to another
   session, and nothing else clears what it showed. *)
EXTENDS Integers, Sequences, SequencesExt, FiniteSets

CONSTANTS
    Interviews, NoSession,
    Overtaking,         \* BOOLEAN: an answer may overtake an earlier one
    MaxViews,           \* how often the reviewer selects a session
    MaxDecisions,       \* decisions of all sessions
    MaxTurns            \* overrides and disclosures submitted, requests that fail and
                        \* stream that break, all together

ASSUME ReviewAssumption == Overtaking \in BOOLEAN /\ NoSession \notin Interviews

VARIABLES
    decided,        \* the decisions of each session: number n was made on n events
    moved,          \* the moves of its lifecycle state
    disclosures,    \* sessions with a disclosure on file
    stream,         \* the page's event stream: whether the server has subscribed it, and
                    \* what it carries
    calls,          \* requests under way, in the order they were sent
    viewed, status, error, history,   \* the page: history holds the decisions it received
    missed,         \* the viewed session decided while its stream was down
    used            \* how much of each bound is used

serverVars == << decided, moved, disclosures >>
pageVars == << viewed, status, error, history >>
reviewVars == << serverVars, stream, calls, pageVars, missed, used >>

NoStatus == [session |-> NoSession, moves |-> 0, disclosed |-> FALSE]

NoStream == [subscribed |-> FALSE, queue |-> << >>]

ReviewInit ==
    /\ decided = [s \in Interviews |-> 0]
    /\ moved = [s \in Interviews |-> 0]
    /\ disclosures = {}
    /\ stream = NoStream
    /\ calls = << >>
    /\ viewed = NoSession
    /\ status = NoStatus
    /\ error = FALSE
    /\ history = << >>
    /\ missed = FALSE
    /\ used = [views |-> 0, turns |-> 0]

Call(kind, session) ==
    [kind |-> kind, session |-> session, step |-> "sent", disclosed |-> FALSE, moves |-> 0]

\* refresh, with the session it was created for.
Refresh(session) == Call("status", session)

Use(what, limit) ==
    /\ used[what] < limit
    /\ used' = [used EXCEPT ![what] = @ + 1]

\* handleSearch: the effects of both hooks run again. The old source is closed,
\* the decisions and the status stay.
View(session) ==
    /\ session # viewed
    /\ Use("views", MaxViews)
    /\ viewed' = session
    /\ calls' = Append(calls, Refresh(session))
    /\ stream' = NoStream
    /\ missed' = FALSE
    /\ UNCHANGED << serverVars, status, error, history >>

\* applyOverride and handleDisclosure of the workspace.
Submit(kind) ==
    /\ viewed # NoSession
    /\ Use("turns", MaxTurns)
    /\ calls' = Append(calls, Call(kind, viewed))
    /\ UNCHANGED << serverVars, stream, pageVars, missed >>

\* A decision received is only shown.
NothingMore(session) == << >>

\* refreshKey counts the decisions received: each asks for the status again.
AfterDecision(session) == << Refresh(session) >>

\* onmessage
Receive ==
    /\ stream.queue # << >>
    /\ history' = Append(history, Head(stream.queue))
    /\ calls' = calls \o AfterDecision(viewed)
    /\ stream' = [stream EXCEPT !.queue = Tail(@)]
    /\ UNCHANGED << serverVars, viewed, status, error, missed, used >>

\* handleSubscribeToSession
Subscribe ==
    /\ viewed # NoSession /\ ~stream.subscribed
    /\ stream' = [stream EXCEPT !.subscribed = TRUE]
    /\ UNCHANGED << serverVars, calls, pageVars, missed, used >>

\* The connection breaks with what it carries: its 'close' ends the subscription,
\* EventSource will connect again, and the server sends nothing twice.
Drop ==
    /\ stream.subscribed
    /\ Use("turns", MaxTurns)
    /\ stream' = NoStream
    /\ missed' = (missed \/ stream.queue # << >>)
    /\ UNCHANGED << serverVars, calls, pageVars >>

\* An ingestion of the session: handleIngest..., then the pipeline.
Ingest(session) ==
    /\ FoldFunction(+, 0, decided) < MaxDecisions
    /\ decided' = [decided EXCEPT ![session] = @ + 1]
    /\ moved' = [moved EXCEPT ![session] = @ + 1]
    /\ IF session = viewed /\ stream.subscribed
       THEN /\ stream' = [stream EXCEPT !.queue =
                            Append(@, [session |-> session, number |-> decided'[session]])]
            /\ UNCHANGED missed
       ELSE missed' = (missed \/ session = viewed) /\ UNCHANGED stream
    /\ UNCHANGED << disclosures, calls, pageVars, used >>

\* Which status requests may make a step now: the oldest, or any of them.
Proceeds(i) ==
    /\ calls[i].kind = "status"
    /\ Overtaking \/ \A j \in 1 .. i - 1 : calls[j].kind # "status"

\* handleGetStatus and getSessionStatus up to the audit entry.
ReadDisclosure(i) ==
    /\ Proceeds(i) /\ calls[i].step = "sent"
    /\ calls' = [calls EXCEPT ![i].step = "auditing",
                              ![i].disclosed = calls[i].session \in disclosures]
    /\ UNCHANGED << serverVars, stream, pageVars, missed, used >>

\* The audit entry is on file; then the state is read, and sent.
AuditAndAnswer(i) ==
    /\ Proceeds(i) /\ calls[i].step = "auditing"
    /\ calls' = [calls EXCEPT ![i].step = "answered", ![i].moves = moved[calls[i].session]]
    /\ UNCHANGED << serverVars, stream, pageVars, missed, used >>

\* A repository throws, or the server cannot be reached.
CallFails(i) ==
    /\ calls[i].step \in { "sent", "auditing" }
    /\ calls[i].kind = "status" => Proceeds(i)
    /\ Use("turns", MaxTurns)
    /\ calls' = [calls EXCEPT ![i].step = "failed"]
    /\ UNCHANGED << serverVars, stream, pageVars, missed >>

\* handleApplyHumanOverride and handleRecordAccommodationDisclosure.
HandlePost(i) ==
    /\ calls[i].kind # "status" /\ calls[i].step = "sent"
    /\ IF calls[i].kind = "override"
       THEN moved' = [moved EXCEPT ![calls[i].session] = @ + 1] /\ UNCHANGED disclosures
       ELSE disclosures' = disclosures \union { calls[i].session } /\ UNCHANGED moved
    /\ calls' = [calls EXCEPT ![i].step = "answered"]
    /\ UNCHANGED << decided, stream, pageVars, missed, used >>

\* The then and catch of refresh: whatever session is viewed by now.
ShowStatus(i) ==
    /\ Proceeds(i) /\ calls[i].step \in { "answered", "failed" }
    /\ IF calls[i].step = "answered"
       THEN /\ status' = [session |-> calls[i].session, moves |-> calls[i].moves,
                          disclosed |-> calls[i].disclosed]
            /\ error' = FALSE
       ELSE error' = TRUE /\ UNCHANGED status
    /\ calls' = RemoveAt(calls, i)
    /\ UNCHANGED << serverVars, stream, viewed, history, missed, used >>

\* When a post has succeeded, the refresh of the session it was submitted for is called
\* at once, and the new refreshKey makes the effect refresh the one viewed now.
PostDone(i) ==
    /\ calls[i].kind # "status" /\ calls[i].step \in { "answered", "failed" }
    /\ calls' = RemoveAt(calls, i)
                    \o (IF calls[i].step = "failed" THEN << >>
                        ELSE << Refresh(calls[i].session), Refresh(viewed) >>)
    /\ UNCHANGED << serverVars, stream, pageVars, missed, used >>

\* The events a decision was made on.
EventsOf(decision) == { << decision.session, n >> : n \in 1 .. decision.number }

\* Those beyond the number that the decision before it had.
NewEventsByCount(i) ==
    { event \in EventsOf(history[i]) : i > 1 => event[2] > history[i - 1].number }

\* buildTimeline: the events that decision i of the history adds, by their ids.
NewEvents(i) ==
    EventsOf(history[i]) \ (IF i = 1 THEN {} ELSE EventsOf(history[i - 1]))

Progress ==
    \/ Receive \/ Subscribe
    \/ \E i \in DOMAIN calls :
          \/ ReadDisclosure(i) \/ AuditAndAnswer(i) \/ HandlePost(i)
          \/ ShowStatus(i) \/ PostDone(i)

ReviewNext ==
    \/ \E session \in Interviews : View(session) \/ Ingest(session)
    \/ Submit("override") \/ Submit("disclosure")
    \/ Drop
    \/ \E i \in DOMAIN calls : CallFails(i)
    \/ Progress

\* Every request is answered and every message delivered in the end; nothing
\* makes the reviewer, a client or a failure act.
ReviewFairness == WF_reviewVars(Progress)

ReviewSpec == ReviewInit /\ [][ReviewNext]_reviewVars /\ ReviewFairness
----------------------------------------------------------------------------
\* Once nothing more happens, the workspace shows the state and the disclosure of
\* the session it is about, or an error: every decision it receives and every
\* override or disclosure it makes is followed by a status read after it. Two
\* gaps are left out: a decision published while the stream is down, which no
\* one sends again, and answers that overtake each other, as no hook cancels or
\* orders its requests.
WorkspaceSettles ==
    <>[](viewed = NoSession \/ missed \/ error
         \/ status = [session |-> viewed, moves |-> moved[viewed],
                      disclosed |-> viewed \in disclosures])

\* In a timeline, as long as it is about one session, every event of the ledger
\* that the last decision was made on is listed by exactly one of the decisions
\* received, also when some were lost with the stream.
EvidenceIsListedOnce ==
    \A last \in DOMAIN history :
        LET run == { i \in 1 .. last : \A j \in i .. last : history[j].session = history[last].session }
        IN \A event \in EventsOf(history[last]) :
               Cardinality({ i \in run : event \in NewEvents(i) }) = 1

\* What the workspace shows as its "Live session overview for the selected
\* interview" (SessionPanel.tsx) is a decision of that session.
DecisionIsOfTheViewedSession ==
    viewed # NoSession /\ history # << >> => Last(history).session = viewed
=============================================================================
