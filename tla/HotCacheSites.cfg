\* A Youku and a Sohu origin and a DOWN request, with too few slots; datagrams may be lost.
CONSTANTS
    NMgmt = 4
    NCtnt = 3
    OriginUrl = {os, oy}
    NormalUrl = {b}
    SegsOf <- SegsBoth
    AdvUrl = {adv}
    PathPrefix <- NoPrefix
    DiskFiles = {pf, px, pv}
    RenameMayFail = FALSE
    UdpMayLose = TRUE
    WalkMeetsNew = FALSE
    MaxFaults = 1
    MaxInflight = 2
    MaxRestarts = 0
    yh = yh
    sh = sh
    oy = oy
    os = os
    a = a
    a2 = a2
    b = b
    f = f
    adv = adv
    pa = pa
    pa2 = pa2
    pb = pb
    pf = pf
    px = px
    pv = pv
    NoUrl = NoUrl
    NoPath = NoPath
    Url <- MCUrl
    YkUrl = {yh, oy, a, a2, b}
    SohuUrl = {sh, os}
    FileUrl = {f}
    LongUrl = {}
    Path <- MCPath
    LocalPathOf <- MCLocalPathOf
    HasVid <- MCHasVid
    YoukuHome = yh
    SohuHome = sh
    FileKind <- MCFileKind
    StdPath <- MCStdPath
    RecoverUrl <- MCRecoverUrl
    DupOf <- MCDupOf
SPECIFICATION HCSpec
CHECK_DEADLOCK FALSE
INVARIANTS
    HCTypeOK
    StoredHasFile
    RedirectServable
PROPERTIES
    ListDiscipline
