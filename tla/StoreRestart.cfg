CONSTANTS
    NoRecord = NoRecord
    Sessions = {s1}
    Calls = {c1}
    Evaluations <- MCEvaluations
    Overrides <- MCOverrides
    Nows <- MCNows
    Overlap = "none"
    MaxCalls = 5
    MaxFailures = 0
    MaxLostReplies = 0
    MaxCrashes = 2
    MaxOrphans = 0
SPECIFICATION StoreSpec
INVARIANTS EveryChangeIsNumbered RestingMemoryIsDurable
PROPERTY DurableKeepsContract
CHECK_DEADLOCK FALSE
