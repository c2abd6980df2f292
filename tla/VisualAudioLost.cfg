CONSTANTS
    NoRecord = NoRecord
    Nobody = Nobody
    Nothing = Nothing
    candidate = candidate
    standIn = standIn
    Sessions = {s1}
    Ingests = {i1, i2}
    Calls = {i1, i2}
    Batches <- MCBatches
    Scores <- MCScores
    Evaluations <- MCEvaluations
    Overrides = {}
    Nows <- MCNows
    People <- MCPeople
    Captures <- MCTwoCaptures
    Alike <- MCAlike
    Unlike <- MCUnlike
    Overlap = "none"
    MaxCalls = 0
    MaxFailures = 1
    MaxLostReplies = 0
    MaxCrashes = 0
    MaxOrphans = 0
SPECIFICATION VisualAudioSpec
INVARIANTS DetectionsAreLogged
SYMMETRY Requests
CHECK_DEADLOCK FALSE
