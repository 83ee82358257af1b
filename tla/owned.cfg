SPECIFICATION Spec
CONSTANTS
    None = None
    Contents = {c1, c2}
    Moves = {"create", "edit", "schedule", "rollout", "delete", "touch", "byHand", "restart", "error"}
    MaxMoves = 4
INVARIANTS
    TypeOK
    DaemonSetHasOwnConfigMap
    SettledAsWanted
PROPERTIES
    Converges
CHECK_DEADLOCK FALSE
