----------------------------- MODULE Explanation -----------------------------
(* explanation/: the report that accompanies an alert and the prose around it.
   runPipeline builds the report from the persisted ledger at the time of the
   evaluation, while the posterior it explains was computed for the selected
   hypothesis. explanationEngine.ts sums up the ledger by its own loop, without
   the Fusion Engine's clamp. A narrative is the set of signal names it
   mentions. *)
EXTENDS CandidateConfidence

CONSTANTS
    MaxTopSignals,    \* DEFAULT_MAX_TOP_SIGNALS
    Narratives        \* what the provider may answer: sets of signal names

ASSUME ExplanationAssumption == MaxTopSignals \in Nat \ {0}

Missing(event) == event.healthStatus \in { "SERVICE_UNAVAILABLE", "NO_SIGNAL_DETECTED" }

\* Aged to the clock, not to the time of the evaluation.
AgedToTheClock(event, generatedAt) == SignalLogLikelihoodRatio(event) * DecayWeight(event.occurredAt, clock)

DecayedLogLikelihoodRatio(event, generatedAt) ==
    SignalLogLikelihoodRatio(event) * DecayWeight(event.occurredAt, generatedAt)

ContributingSignals(events, generatedAt) ==
    FoldLeft(LAMBDA found, event :
        LET adds == DecayedLogLikelihoodRatio(event, generatedAt)
        IN IF Missing(event) \/ adds = 0 THEN found
           ELSE Append(found, [signalName |-> event.signalName, adds |-> adds,
                               outcome |-> Classification(event)]),
        << >>, events)

\* buildReport: all contradictions and all that is missing, in whatever order,
\* and of all that contributes the strongest.
BuildReport(events, generatedAt) ==
    LET contributing == ContributingSignals(events, generatedAt)
        ranked == StrongestFirst(contributing)
    IN [contributing |-> contributing,
        topContributingSignals |->
            SubSeq(ranked, 1, IF Len(ranked) < MaxTopSignals THEN Len(ranked) ELSE MaxTopSignals),
        contradictoryEvidence |->
            { signal \in Range(ranked) : signal.outcome = "CONTRADICTS" },
        missingEvidence |-> { event \in Range(events) : Missing(event) }]

NamesIn(items) == { item.signalName : item \in items }

\* allowedSignalNames
Allowed(report) ==
    NamesIn(Range(report.topContributingSignals)) \union NamesIn(report.contradictoryEvidence)
        \union NamesIn(report.missingEvidence)

NoNarrative == { "no narrative" }

\* generateNarrative, for what the provider answers in each attempt (NoNarrative
\* when it throws, which ends it): the first answer that validateNarrative lets
\* pass, or null.
GenerateNarrative(report, answers) ==
    LET allowed == Allowed(report)
        judged == SelectInSeq(answers, LAMBDA answer : answer \subseteq allowed \/ answer = NoNarrative)
    IN IF judged = 0 THEN NoNarrative ELSE answers[judged]

Report == BuildReport(ledger, evaluatedAt)
----------------------------------------------------------------------------
\* The report "contributions stay consistent with that posterior's own math"
\* (explanationEngine.ts): with one hypothesis at most, what the report lists
\* adds up to the log odds the decision was made on, and it shows as
\* contradictory every event that lowered them, however many there are.
Explains(report, events) ==
    /\ Total(report.contributing) = LogOdds(events, evaluatedAt)
    /\ { events[i].signalName : i \in
             { j \in DOMAIN events : Contribution(events[j], evaluatedAt) < 0 } }
           = NamesIn(report.contradictoryEvidence)

ReportsExplainThePosterior == ~ManyHypotheses => Explains(Report, SelectedEvents)

\* A narrative that is shown, after whatever retries, names only signals that
\* the ledger holds, and none that was judged neutral.
NarrativesNameReportedEvidence ==
    LET report == Report IN
    \A first, second \in Narratives \union { NoNarrative } :
        LET shown == GenerateNarrative(report, << first, second >>)
        IN shown # NoNarrative =>
               \A name \in shown : \E i \in DOMAIN ledger :
                   /\ ledger[i].signalName = name
                   /\ Contribution(ledger[i], evaluatedAt) # 0 \/ ledger[i].healthStatus # "OK"

\* What is told about a score, by the contributors of the decision, by the report
\* and by the narrative, is what made it.
ScoresAreExplained ==
    ContributorsExplainTheScore /\ ReportsExplainThePosterior /\ NarrativesNameReportedEvidence
=============================================================================
