CHECK_DEADLOCK FALSE
CONSTANTS
    close_wait = 1
    socket_stall = 2
    watch = 1
    Cap = 2
    OutCap = 1
    Quarter = 1
    MaxSent = 2
    first_polled = "up"
    Half = 8
    Writers = {w1}
    Lengths = {1, 3}
    Total = 10
    frame_size = 2
    max_stream_buffer = 4
    INITIAL_PEER_WINDOW = 1
    Begins = {0, 9, 10, 11, 12, 13, 14, 15}
    Sids = {"s1", "s2"}
    Ctrl = {}
    LastId = 2
    MAX_SHAPER_SIZE = 2
    Slices = {1, 3}
    MaxBytes = 4
    QppSlices = {1, 2, 5}
    QppBytes = 7
    MaxFlush = 2
    PAD_SWITCH = 4
    MAX_BLOCK_SIZE = 2
SPECIFICATION FairSpec
INVARIANTS Typed CleanEndComplete Patience BytesIntact WindowKept
PROPERTIES PipeEnds WritesEnd
