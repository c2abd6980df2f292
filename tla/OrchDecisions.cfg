CONSTANTS
    NoRecord = NoRecord
    Sessions = {s1}
    Ingests = {i1, i2, i3}
    Calls = {i1, i2, i3, h1}
    Batches <- MCBatches
    Scores <- MCScores
    Evaluations <- MCEvaluations
    Overrides <- MCOverrides
    Nows <- MCNows
    Overlap = "none"
    MaxCalls = 1
    MaxFailures = 0
    MaxLostReplies = 0
    MaxCrashes = 0
    MaxOrphans = 0
SPECIFICATION Spec
INVARIANTS MovesOfConcernAlert AmbiguitySpellAlertsOnce CorroborationEscalates
CHECK_DEADLOCK FALSE
