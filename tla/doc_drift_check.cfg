SPECIFICATION FairSpec
CONSTANTS
    None = None
    a = a
    b = b
    c1 = c1
    c2 = c2
    h1 = h1
    h2 = h2
    Nodes = {a}
    Configs <- OneConfig
    Hashes <- OneHash
    HashOf <- HashOfOne
    EnvKinds = {"create"}
    MaxEnv = 1
    InitLabels = {"full"}
    DriftChecks = {TRUE}
    MaxPodsPerNode = 2
    MaxTries = 2
PROPERTIES
    DriftCheckRuns
CHECK_DEADLOCK FALSE
