\* What the threads must get done, when every datagram arrives.
CONSTANTS
    NMgmt = 4
    NCtnt = 2
    OriginUrl = {oy, os}
    NormalUrl = {b}
    SegsOf <- SegsBoth
    AdvUrl = {}
    PathPrefix <- PrefixPair
    DiskFiles = {pa2}
    RenameMayFail = TRUE
    UdpMayLose = FALSE
    WalkMeetsNew = FALSE
    MaxFaults = 2
    MaxInflight = 2
    MaxRestarts = 0
    yh = yh
    sh = sh
    oy = oy
    os = os
    a = a
    a2 = a2
    b = b
    f = f
    adv = adv
    pa = pa
    pa2 = pa2
    pb = pb
    pf = pf
    px = px
    pv = pv
    NoUrl = NoUrl
    NoPath = NoPath
    Url <- MCUrl
    YkUrl = {yh, oy, a, a2, b}
    SohuUrl = {sh, os}
    FileUrl = {f}
    LongUrl = {}
    Path <- MCPath
    LocalPathOf <- MCLocalPathOf
    HasVid <- MCHasVid
    YoukuHome = yh
    SohuHome = sh
    FileKind <- MCFileKind
    StdPath <- MCStdPath
    RecoverUrl <- MCRecoverUrl
    DupOf <- MCDupOf
SPECIFICATION HCFairSpec
PROPERTIES
    RequestAnswered
    StoredGetsNotified
    RetrySucceeds
