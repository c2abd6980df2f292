CONSTANTS
    NoRecord = NoRecord
    Nobody = Nobody
    Nothing = Nothing
    candidate = candidate
    standIn = standIn
    Sessions = {s1}
    Ingests = {i1, i2, i3}
    Calls = {i1, i2, i3}
    Batches <- MCBatches
    Scores <- MCScores
    Evaluations <- MCEvaluations
    Overrides = {}
    Nows <- MCNows
    People <- MCPeople
    Captures <- MCCaptures
    Alike <- MCAlike
    Unlike <- MCUnlike
    Overlap = "none"
    MaxCalls = 0
    MaxFailures = 0
    MaxLostReplies = 0
    MaxCrashes = 1
    MaxOrphans = 0
SPECIFICATION VisualAudioSpec
INVARIANTS CusumIsPagesTest DecidedDetectionsEscalate
SYMMETRY Requests
CHECK_DEADLOCK FALSE
