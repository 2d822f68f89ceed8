CONSTANTS
    Conns = {c1}
    Exits = {"signal"}
    LockTaken = TRUE
SPECIFICATION FairSpec
PROPERTY TerminationEnds
CHECK_DEADLOCK FALSE
