CONSTANTS
    NoRecord = NoRecord
    Sessions = {s1}
    Ingests = {i1, i2}
    Calls = {i1, i2, h1}
    Batches <- MCFewBatches
    Scores <- MCTwoScores
    Evaluations <- MCEvaluations
    Overrides <- MCFewOverrides
    Nows <- MCNows
    Overlap = "warm"
    MaxCalls = 1
    MaxFailures = 1
    MaxLostReplies = 1
    MaxCrashes = 1
    MaxOrphans = 1
SPECIFICATION FairSpec
INVARIANTS OrchTypeOK  UrgentAlertsAreOnFile OneUrgentAlertEach UrgentAlertsAreCorroborated
PROPERTIES EveryIngestSettles EscalationIsNeverSilent
CHECK_DEADLOCK FALSE
