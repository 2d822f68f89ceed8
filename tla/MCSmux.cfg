CHECK_DEADLOCK FALSE
CONSTANTS
    MaxReceiveBuffer = 2
    ACCEPT_BACKLOG = 1
    Streams = {s1, s2}
    Frames = 1
    Sizes = {1}
    Lone = {s3}
    LoneFrames = 2
    LoneSizes = {1, 2}
    Sids = {"s1", "s2"}
    Ctrl = {"s1"}
    Half = 4
    LastId = 2
    MAX_SHAPER_SIZE = 2
SPECIFICATION Spec
SYMMETRY Symmetry
INVARIANTS Typed Conserved EofMeansDrained NoLostWakeup HalfCloseEnds FinLast
