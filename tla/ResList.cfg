\* One thread, every sequence of calls.
CONSTANTS
    NMgmt = 2
    NCtnt = 3
    yk = yk
    sohu = sohu
    file = file
    odd = odd
    long = long
    p = p
    NoUrl = NoUrl
    NoPath = NoPath
    Url <- MCUrl
    YkUrl = {yk}
    SohuUrl = {sohu, long}
    FileUrl = {file}
    LongUrl = {long}
    Path = {p}
    LocalPathOf <- MCLocalPathOf
    HasVid <- MCHasVid
SPECIFICATION Spec
CONSTRAINT FewFlags
INVARIANTS
    TypeOK
    FreeListsOK
    FamilyOK
    RemovalOK
PROPERTY ParsedKept
