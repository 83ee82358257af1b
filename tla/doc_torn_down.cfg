SPECIFICATION FairSpec
CONSTANTS
    None = None
    a = a
    b = b
    c1 = c1
    c2 = c2
    h1 = h1
    h2 = h2
    Nodes = {a}
    Configs <- TwoConfigs
    Hashes <- TwoHashes
    HashOf <- HashOfTwo
    EnvKinds = {"create", "delete"}
    MaxEnv = 3
    InitLabels = {"full"}
    DriftChecks = {FALSE}
    MaxPodsPerNode = 2
    MaxTries = 5
PROPERTIES
    TornDownOnceReported
CHECK_DEADLOCK FALSE
