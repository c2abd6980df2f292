CONSTANTS
    a = a
    b = b
    c = c
    Replicas = {a, b, c}
    Keys = {0, 1, 2, 3, 4, 5, 6, 7}
    VirtualNodes = 2
    NodeHash <- MCNodeHash
    KeyHash <- MCKeyHash
    Routers = {r1, r2}
    Sessions = {2}
    RoutingCalls = {c1, c2}
    Fleets <- MCFleets
    NoOwner = NoOwner
    MaxFleetChanges = 2
    MaxRegistryFailures = 1
    MaxExpiries = 1
    Runners = {m1, m2}
    MigrationLists <- MCMigrationLists
    MaxQueryFailures = 1
    MaxRunnerCrashes = 1
    Times = {1, 2}
    Bundles = {visual, device}
    EncryptedBundles = {visual}
    EncryptionKeys = {k1, k2}
    NoKey = NoKey
    MaxListLimit = 1
    MaxRows = 3
    Interviews = {s1, s2}
    NoSession = NoSession
    Overtaking = FALSE
    MaxViews = 2
    MaxDecisions = 2
    MaxTurns = 1
    WindowMs = 2
    MaxAgentTime = 5
    MaxRecords = 2
    MaxChoices = 2
SPECIFICATION Spec
INVARIANT DecisionIsOfTheViewedSession
CHECK_DEADLOCK FALSE
