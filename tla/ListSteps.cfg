\* The calls as the code makes them, access by access and without a lock.
CONSTANTS
    N = 2
    Worker = {ngx}
    MaxCalls = 5
    MaxRetries = 1
    ngx = ngx
SPECIFICATION LSSpec
INVARIANTS
    LSTypeOK
    QuietSound
CHECK_DEADLOCK FALSE
