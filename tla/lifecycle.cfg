SPECIFICATION Spec
CONSTANTS
    None = None
    a = a
    b = b
    c1 = c1
    c2 = c2
    h1 = h1
    h2 = h2
    Nodes = {a}
    Configs <- TwoConfigs
    Hashes <- TwoHashes
    HashOf <- HashOfTwo
    EnvKinds = {"create", "edit", "delete", "error", "restart", "fail", "crash", "reboot", "lose", "remove", "join"}
    MaxEnv = 3
    InitLabels = {"full"}
    DriftChecks = {TRUE, FALSE}
    MaxPodsPerNode = 2
    MaxTries = 1
INVARIANTS
    TypeOK
    NothingOrphaned
    DaemonSetHasConfigMap
    AppliedWasWritten
PROPERTIES
    ReportsAreNotOverwritten
    TeardownIsEarned
CHECK_DEADLOCK FALSE
