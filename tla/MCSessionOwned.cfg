CONSTANTS
    Writers = {w1}
    Readers = {}
    MaxWrites = 2
    MaxMsgs = 0
    SndWnd = 2
    DEV_BACKLOG = 2
    OUTPUT_ROOM = 2
    MAX_BATCH_SIZE = 2
    write_delay = TRUE
    own_conn = TRUE
    SocketFails = FALSE
    AtomicSelect = TRUE
SPECIFICATION Spec
INVARIANTS FinalFlushSent
