\* The pure parts on all short names, lines and lists.
CONSTANTS
    PathMax = 10
    UrlMax = 9
    StreamTypeTotal = 4
    StreamSegsMax = 2
    FileUrlMax = 3
    FlvHeaderLen = 2
    MaxName = 10
    MaxLine = 15
    MaxPage = 7
    Seeds = {0, 1599, 9999999}
SPECIFICATION Spec
CHECK_DEADLOCK FALSE
INVARIANTS
    LoadedKeepsPath
    RecoveredUrl
    FoundAgain
    StatusLineRead
    PlaylistRead
    FileIdsDiffer
    FileIdExample
    M3u8FilesAsked
    FlvServed
