SPECIFICATION Spec
CONSTANTS
    w1 = w1
    w2 = w2
    Workers = {w1, w2}
    Files <- SomeFiles
    Ifaces = {"eth0", "eth0.7"}
    Dotted = {"eth0.7"}
    IfaceBases = {"rp_filter"}
    PlainBases = {"rmem"}
    Values <- AllValues
    Default <- Zero
    MaxEnv = 2
SYMMETRY WorkerSymmetry
INVARIANTS
    TypeOK
    
    
    DriftIsReal
PROPERTIES
    AggregatesOnlyByName
CHECK_DEADLOCK FALSE
