SPECIFICATION Spec
CONSTANTS
    None = None
    a = a
    b = b
    c1 = c1
    c2 = c2
    h1 = h1
    h2 = h2
    Nodes = {a, b}
    Configs <- OneConfig
    Hashes <- OneHash
    HashOf <- HashOfOne
    EnvKinds = {"create", "join", "relabel", "schedule", "error", "resync"}
    MaxEnv = 3
    InitLabels = {"full", "gone"}
    DriftChecks = {FALSE}
    MaxPodsPerNode = 1
    MaxTries = 1
SYMMETRY NodeSymmetry
INVARIANTS
    SettledMatchesSpec
    CompleteIsCounted
CHECK_DEADLOCK FALSE
