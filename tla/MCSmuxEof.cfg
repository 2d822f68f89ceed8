CHECK_DEADLOCK FALSE
CONSTANTS
    Streams = {s1}
    MaxFrames = 2
    Sizes = {1, 2}
    MaxReceiveBuffer = 2
    ACCEPT_BACKLOG = 1
    SessionEnds = FALSE
    KeepAlive = FALSE
    AtomicPoll = FALSE
SPECIFICATION Spec
SYMMETRY Symmetry
INVARIANTS EofMeansDrained
