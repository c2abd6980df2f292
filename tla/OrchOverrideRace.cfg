CONSTANTS
    NoRecord = NoRecord
    Sessions = {s1}
    Ingests = {i1, i2}
    Calls = {i1, i2, h1}
    Batches <- MCFewBatches
    Scores <- MCFewScores
    Evaluations <- MCEvaluations
    Overrides <- MCFewOverrides
    Nows <- MCNows
    Overlap = "warm"
    MaxCalls = 1
    MaxFailures = 0
    MaxLostReplies = 0
    MaxCrashes = 0
    MaxOrphans = 0
SPECIFICATION FairSpec
PROPERTY EscalationIsAnnounced
CHECK_DEADLOCK FALSE
