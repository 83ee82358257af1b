SPECIFICATION ScriptSpec
CONSTANTS
    None = None
    a = a
    b = b
    h1 = h1
    h2 = h2
    Nodes = {a}
    ScriptSpecs <- PlainSpecs
    Configs <- PlainConfigs
    Hashes <- TwoHashes
    HashOf <- HashOfPlain
    EnvKinds = {"create", "edit", "delete", "fail", "crash", "lose", "restart", "error", "join", "relabel"}
    MaxEnv = 3
    InitLabels = {"full", "gone"}
    DriftChecks = {FALSE}
    MaxPodsPerNode = 2
    MaxTries = 1
INVARIANTS
    ScriptTypeOK
    AppliedRanScripts
    ScriptsSplitBackApart
    NothingOrphaned
    DaemonSetHasConfigMap
    CompleteIsCounted
    ScriptSettledMatchesSpec
PROPERTIES
    ReportsAreNotOverwritten
CHECK_DEADLOCK FALSE
