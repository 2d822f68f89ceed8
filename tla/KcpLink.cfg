CONSTANTS
    Half = 4
    InitSn = 7
    RcvWnds = {1, 2}
    FrgMod = 2
    WndMod = 4
    AckBatch = 1
    AckMax = 1
    InitRmtWnd = 2
    Total = 2
    FwdMax = 2
    BwdMax = 1
SPECIFICATION FairSpec
INVARIANT AckSound
PROPERTY StreamDelivers
