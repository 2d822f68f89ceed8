CHECK_DEADLOCK FALSE
CONSTANTS
    Conns = {1, 2}
    MaxDials = 2
    RrWrap = 3
    Backlog = 1
    GivenUp = {1}
    RawConns = {c1}
    Exits = {"signal", "fatal", "abort"}
    LockTaken = TRUE
    Peers = {"p", "q"}
    Connecting = {"p"}
    Reals = {1, 2}
    Handles = {1}
    SeqMod = 3
    EXPIRE = 1
    ORPHAN_EXPIRE = 0
    MESSAGE_BACKLOG = 1
    Writers = {w1, w2}
    MaxWrites = 2
    SndWnd = 1
    DEV_BACKLOG = 2
    OUTPUT_ROOM = 2
    MAX_BATCH_SIZE = 2
    PeerData = 2
    PeerParity = 1
    OwnData = 3
    OwnParity = 1
    SeqLimit = 15
    MAX_AUTO_TUNE_SAMPLES = 6
    TuneLimit = 5
    InFlight = 2
    MaxFaults = 2
SPECIFICATION FairSpec
INVARIANTS Typed NoneDropped RulesOwned FlowsSound
PROPERTIES Settles TerminationEnds ClosesEnd WritesEnd FollowsPeer
