\* What callers rely on, against the calls as the code makes them.
CONSTANTS
    N = 2
    Worker = {ngx}
    MaxCalls = 5
    MaxRetries = 1
    ngx = ngx
SPECIFICATION LSSpec
PROPERTIES
    CallsAreAtomic
