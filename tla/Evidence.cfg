CONSTANTS
    Horizon = 2
    MaxContributors = 3
    Candidates = {"alice", "bob", "nobody"}
    None = None
    Ats <- MCAts
    ClaimObservations <- MCClaims
    MetadataObservations <- MCMetadata
    DeviceObservations <- MCDevice
    LinguisticObservations <- MCLinguistic
    ElicitationObservations <- MCElicitation
    BiometricEvents <- MCBiometric
    KnownCandidateLists <- MCKnown
    Probability <- MCProbability
    Certain = 1000000
    MaxIngestions = 2
    MaxTopSignals = 2
    Narratives <- MCNarratives
    Names <- MCNames
    Addresses <- MCAddresses
    Aliases <- MCAliases
    Plus = 0
    NicknameGroups <- MCNicknameGroups
    Grid = 2
    MaxSamples = 5
SPECIFICATION Spec
INVARIANTS ScoresAreExplained ToleranceHasItsBounds DistancesAreEditDistances CalibrationIsIsotonic
PROPERTIES AbsenceIsNotEvidence 
CHECK_DEADLOCK FALSE
