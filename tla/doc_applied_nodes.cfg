SPECIFICATION Spec
CONSTANTS
    None = None
    a = a
    b = b
    c1 = c1
    c2 = c2
    h1 = h1
    h2 = h2
    Nodes = {a}
    Configs <- TwoConfigs
    Hashes <- TwoHashes
    HashOf <- HashOfTwo
    EnvKinds = {"create", "edit"}
    MaxEnv = 2
    InitLabels = {"full"}
    DriftChecks = {FALSE}
    MaxPodsPerNode = 2
    MaxTries = 5
INVARIANTS
    AppliedNodesAtHash
CHECK_DEADLOCK FALSE
