SPECIFICATION Spec
CONSTANTS
    None = None
    a = a
    c1 = c1
    h1 = h1
    r1 = r1
    r2 = r2
    Nodes = {a}
    Configs <- OneConfig
    Hashes <- OneHash
    HashOf <- HashOfOne
    Replicas = {r1, r2}
    Requests <- TwoKinds
    Existing = {{"SysctlProfile"}, {"SysctlProfile", "ScriptProfile"}}
    MaxTries = 2
    MaxMoves = 2
INVARIANTS
    TypeOK
    ErroredPodsExact
    EntriesExplained
    MetricFollowsStatus
PROPERTIES
    ImplementsLedger
SYMMETRY ReplicaSymmetry
CHECK_DEADLOCK FALSE
