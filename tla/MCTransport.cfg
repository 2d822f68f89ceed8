CONSTANTS
    Half = 4
    InitSn = 6
    RcvWnds = {1, 2}
    Frgs = {0, 1}
    FrgMod = 2
    WndMod = 4
    AckBatch = 1
    AckMax = 2
    Values = {"a", "b"}
    Default = "none"
    RINGBUFFER_MIN = 3
    RINGBUFFER_EXP = 6
    MaxSize = 9
    HeapHalf = 6
    Classes = {0, 1}
    HeapMax = 6
    SortSize = 6
    SortKeys = {15, 0, 2, 4, 6, 9}
    SortHalf = 8
    Spared = 2
    MAX_INSERTION = 2
    SHORTEST_MEDIAN = 4
    SHORTEST_NINTHER = 5
    SHORTEST_SHIFTING = 4
    MAX_STEPS = 2
    BalanceShare = 3
    Bits = 4
    GENERATING_POLYNOMIAL = 3
    ds = 2
    ps = 2
    Bytes = {0, 9}
    INVERSION_CACHE_MAX = 2
    BURST = 4
    Limits = {0, 2, 3}
    Batches = {1, 3, 7}
    MaxTime = 6
    data_shards = 2
    parity_shards = 1
    SeqLimit = 31
    MAX_SHARD_SETS = 2
    Delay = 8
    Silence = 9
    InFlight = 2
    Addrs = {a1, a2}
    Convs = {c1, c2}
    Acceptors = {t1, t2}
    None = None
    ACCEPT_BACKLOG = 2
    MaxSessions = 3
    Writers = {w1}
    Readers = {r}
    MaxWrites = 3
    MaxMsgs = 1
    SndWnd = 3
    DEV_BACKLOG = 2
    OUTPUT_ROOM = 2
    MAX_BATCH_SIZE = 2
    write_delay = TRUE
SPECIFICATION MCSpec
SYMMETRY Symmetry
INVARIANTS Typed InOrder NoStall OrderKept RecoversRight Paced Routing NoLostWakeup NothingDropped
PROPERTIES IsFifo
