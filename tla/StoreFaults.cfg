CONSTANTS
    NoRecord = NoRecord
    Sessions = {s1}
    Calls = {c1, c2}
    Evaluations <- MCEvaluations
    Overrides <- MCOverrides
    Nows <- MCNows
    Overlap = "warm"
    MaxCalls = 4
    MaxFailures = 1
    MaxLostReplies = 1
    MaxCrashes = 1
    MaxOrphans = 1
SPECIFICATION StoreSpec
INVARIANTS StoreTypeOK AcknowledgedChangesSurvive
PROPERTIES DurableTrailOnlyGrows OnlyOverridesLeaveDisqualified
CHECK_DEADLOCK FALSE
