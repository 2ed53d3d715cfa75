\* The resource-list thread is telling the Snooping Module a loaded URL while the main thread takes that loaded over.
CONSTANTS
    NMgmt = 3
    NCtnt = 3
    OriginUrl = {oy}
    NormalUrl = {}
    SegsOf <- SegsTwo
    AdvUrl = {}
    PathPrefix <- NoPrefix
    DiskFiles = {pa2}
    RenameMayFail = FALSE
    UdpMayLose = FALSE
    WalkMeetsNew = FALSE
    MaxFaults = 1
    MaxInflight = 2
    MaxRestarts = 0
    yh = yh
    sh = sh
    oy = oy
    os = os
    a = a
    a2 = a2
    b = b
    f = f
    adv = adv
    pa = pa
    pa2 = pa2
    pb = pb
    pf = pf
    px = px
    pv = pv
    NoUrl = NoUrl
    NoPath = NoPath
    Url <- MCUrl
    YkUrl = {yh, oy, a, a2, b}
    SohuUrl = {sh, os}
    FileUrl = {f}
    LongUrl = {}
    Path <- MCPath
    LocalPathOf <- MCLocalPathOf
    HasVid <- MCHasVid
    YoukuHome = yh
    SohuHome = sh
    FileKind <- MCFileKind
    StdPath <- MCStdPath
    RecoverUrl <- MCRecoverUrl
    DupOf <- MCDupOf
SPECIFICATION HCSpec
CHECK_DEADLOCK FALSE
INVARIANTS
    NotifyMeansTold
