----------------------------- MODULE ClientAgent -----------------------------
(* The reporting of the browser extension (client-agent/src): startAgent of
   background.ts over one WindowedEventAggregator, the ConsentStore and the
   EventSender. Every interval a report asks the storage for the consent, takes
   the time when the answer is there, and counts the events of the window that
   ends then. The four aggregators are alike: one of them is modelled, its
   events recorded with the clock, which does not run backwards.  The page
   clock that dates keyboard anomalies is not modelled. *)
EXTENDS Integers, Sequences, SequencesExt, FiniteSets

CONSTANTS
    WindowMs,       \* REPORTING_WINDOW_MS, in ticks of the clock
    MaxAgentTime,   \* bound of the clock
    MaxRecords,     \* bound of the events
    MaxChoices      \* bound of the changes of consent

ASSUME AgentAssumption == WindowMs \in Nat \ {0}

VARIABLES
    clock,
    timestampsMs,   \* WindowedEventAggregator.timestampsMs
    consent,        \* the stored choice
    choices,        \* how often it was made
    intervals,      \* reports whose consent is being read, by the time they were due
    reports,        \* the reports, in the order they were made
    occurred        \* times of all events ever occurred (for the properties)

agentVars == << clock, timestampsMs, consent, choices, intervals, reports, occurred >>

Unread == "unread"

AgentInit ==
    /\ clock = 0
    /\ timestampsMs = << >>
    /\ consent = "unasked"
    /\ choices = 0
    /\ intervals = {}
    /\ reports = << >>
    /\ occurred = << >>

\* Time passes; setInterval starts a report at every multiple of the window,
\* also when an earlier one still waits for the storage.
Pass ==
    /\ clock < MaxAgentTime
    /\ clock' = clock + 1
    /\ intervals' = intervals \union
                       (IF clock' % WindowMs = 0 THEN { [due |-> clock', read |-> Unread] } ELSE {})
    /\ UNCHANGED << timestampsMs, consent, choices, reports, occurred >>

\* The listeners record whatever the consent is.
Record ==
    /\ Len(occurred) < MaxRecords
    /\ timestampsMs' = Append(timestampsMs, clock)
    /\ occurred' = Append(occurred, clock)
    /\ UNCHANGED << clock, consent, choices, intervals, reports >>

\* grant and decline of ConsentStore
ChooseConsent(choice) ==
    /\ choices < MaxChoices
    /\ choices' = choices + 1
    /\ consent' = choice
    /\ UNCHANGED << clock, timestampsMs, intervals, reports, occurred >>

\* The storage reads the choice for isGranted.
Read(interval) ==
    /\ interval.read = Unread
    /\ intervals' = (intervals \ { interval }) \union { [interval EXCEPT !.read = consent] }
    /\ UNCHANGED << clock, timestampsMs, consent, choices, reports, occurred >>

\* If the window held its cutoff.
OlderThanTheCutoff(at, nowMs) == at < nowMs - WindowMs

\* The cutoff itself is outside the window.
Outside(at, nowMs) == at <= nowMs - WindowMs

\* countInWindow drops the timestamps from the front up to the first it keeps.
Kept(nowMs) ==
    LET firstKept == SelectInSeq(timestampsMs, LAMBDA at : ~Outside(at, nowMs))
    IN IF firstKept = 0 THEN << >> ELSE SubSeq(timestampsMs, firstKept, Len(timestampsMs))

\* isGranted has answered: the rest of the callback up to the fetch. Whether the
\* orchestrator gets the report changes nothing here: a failed send is not repeated.
Report(interval) ==
    /\ interval.read # Unread
    /\ LET granted == interval.read = "granted"
       IN /\ timestampsMs' = IF granted THEN Kept(clock) ELSE timestampsMs
          /\ reports' = Append(reports, [due |-> interval.due, now |-> clock, granted |-> granted,
                                         count |-> IF granted THEN Len(timestampsMs') ELSE 0])
    /\ intervals' = intervals \ { interval }
    /\ UNCHANGED << clock, consent, choices, occurred >>

\* The storage fails: the rejection of the callback is nobody's.
StorageFails(interval) ==
    /\ interval.read = Unread
    /\ intervals' = intervals \ { interval }
    /\ UNCHANGED << clock, timestampsMs, consent, choices, reports, occurred >>

AgentNext ==
    \/ Pass \/ Record
    \/ ChooseConsent("granted") \/ ChooseConsent("declined")
    \/ \E interval \in intervals : Read(interval) \/ Report(interval) \/ StorageFails(interval)

AgentSpec == AgentInit /\ [][AgentNext]_agentVars
----------------------------------------------------------------------------
\* How many events occurred after one time and up to another.
Between(after, upTo) == Cardinality({ n \in DOMAIN occurred : after < occurred[n] /\ occurred[n] <= upTo })

\* Two reports made one window apart count, together, every event of their two
\* windows once: none at the border is counted twice or falls between them,
\* whatever the reports before them pruned, however the consent changed, and in
\* whatever order the storage answered. Only an event of the very instant of a
\* count may come after it, and so need not be counted.
ReportsTileTheirWindows ==
    \A i, j \in DOMAIN reports :
        (/\ reports[i].granted /\ reports[j].granted
         /\ reports[j].now = reports[i].now + WindowMs)
        => LET counted == reports[i].count + reports[j].count
               from == reports[i].now - WindowMs
           IN /\ counted >= Between(from, reports[i].now - 1) + Between(reports[i].now, reports[j].now - 1)
              /\ counted <= Between(from, reports[j].now)
=============================================================================
