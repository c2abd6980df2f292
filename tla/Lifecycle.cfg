CONSTANTS
    NoRecord = NoRecord
    Sessions = {s1}
    Posteriors <- MCPosteriors
    MaxLag = 1
    MaxClock = 2
    MaxAnnotations = 2
SPECIFICATION Spec
INVARIANTS TypeOK AuditTrailExplainsState TierSustainedByLatestEvidence
PROPERTIES ClimbDwellsInRealTime KeepsContract
