\* The client is restarted once, with downloads under way and two files of one video.
CONSTANTS
    NMgmt = 3
    NCtnt = 3
    OriginUrl = {oy}
    NormalUrl = {}
    SegsOf <- SegsTwo
    AdvUrl = {}
    PathPrefix <- NoPrefix
    DiskFiles = {pa2, pb}
    RenameMayFail = FALSE
    UdpMayLose = FALSE
    WalkMeetsNew = TRUE
    MaxFaults = 1
    MaxInflight = 2
    MaxRestarts = 1
    yh = yh
    sh = sh
    oy = oy
    os = os
    a = a
    a2 = a2
    b = b
    f = f
    adv = adv
    pa = pa
    pa2 = pa2
    pb = pb
    pf = pf
    px = px
    pv = pv
    NoUrl = NoUrl
    NoPath = NoPath
    Url <- MCUrl
    YkUrl = {yh, oy, a, a2, b}
    SohuUrl = {sh, os}
    FileUrl = {f}
    LongUrl = {}
    Path <- MCPath
    LocalPathOf <- MCLocalPathOf
    HasVid <- MCHasVid
    YoukuHome = yh
    SohuHome = sh
    FileKind <- MCFileKind
    StdPath <- MCStdPath
    RecoverUrl <- MCRecoverUrl
    DupOf <- MCDupOf
SPECIFICATION HCSpec
INVARIANTS
    StoredHasFile
PROPERTIES
    ListDiscipline
