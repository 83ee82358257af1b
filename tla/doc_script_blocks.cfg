SPECIFICATION ScriptSpec
CONSTANTS
    None = None
    a = a
    b = b
    h1 = h1
    h2 = h2
    Nodes = {a}
    ScriptSpecs <- OddSpecs
    Configs <- OddConfigs
    Hashes <- TwoHashes
    HashOf <- HashOfOdd
    EnvKinds = {"create"}
    MaxEnv = 1
    InitLabels = {"full"}
    DriftChecks = {FALSE}
    MaxPodsPerNode = 1
    MaxTries = 1
INVARIANTS
    ScriptsSplitBackApart
CHECK_DEADLOCK FALSE
