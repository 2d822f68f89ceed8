CONSTANTS
    Addrs = {a1, a2}
    Convs = {c1, c2}
    Acceptors = {t1}
    None = None
    ACCEPT_BACKLOG = 2
    strict_source = FALSE
    MaxSessions = 3
    Collisions = TRUE
SPECIFICATION Spec
SYMMETRY Symmetry
INVARIANTS LiveReachable
