CONSTANTS
    NoRecord = NoRecord
    Sessions = {s1}
    Calls = {c1, c2}
    Evaluations <- MCEvaluations
    Overrides <- MCOverrides
    Nows <- MCNows
    Overlap = "any"
    MaxCalls = 4
    MaxFailures = 0
    MaxLostReplies = 0
    MaxCrashes = 1
    MaxOrphans = 0
SPECIFICATION StoreSpec
INVARIANT AcknowledgedChangesSurvive
CHECK_DEADLOCK FALSE
