CONSTANTS
    Conns = {c1}
    Exits = {"signal"}
    LockTaken = FALSE
SPECIFICATION Spec
INVARIANT RulesGone
CHECK_DEADLOCK FALSE
