SPECIFICATION FairSpec
CONSTANTS
    None = None
    a = a
    b = b
    c1 = c1
    c2 = c2
    h1 = h1
    h2 = h2
    Nodes = {a}
    Configs <- TwoConfigs
    Hashes <- TwoHashes
    HashOf <- HashOfTwo
    EnvKinds = {"create", "edit", "restart", "delete", "error", "join"}
    MaxEnv = 3
    InitLabels = {"full", "gone"}
    DriftChecks = {FALSE}
    MaxPodsPerNode = 2
    MaxTries = 2
INVARIANTS
    SettledMatchesSpec
PROPERTIES
    RolloutCompletes
    Quiescence
    DeletionCompletes
CHECK_DEADLOCK FALSE
