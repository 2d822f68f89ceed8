CONSTANTS
    Half = 3
    InitSn = 5
    SndWnds = {2}
    RmtWnds = {2}
    InitRmtWnd = 1
    Regular = {TRUE}
    Options <- ManualMode
    RtoValues = {1}
    FastackMax = 2
    Mss = 16
    ThreshMin = 2
    ThreshInit = 2
    ProbeInit = 2
    ProbeLimit = 3
    QueueMax = 1
    MaxTime = 1
    Drift = 1
SPECIFICATION Spec
INVARIANTS TypeOK AckIndexNeverMisses SkipIsNoOp CwndOpen
PROPERTIES UnaAdvances ArqSpec
