SPECIFICATION NSpec
CONSTANTS
    r1 = r1
    r2 = r2
    pa = pa
    named = named
    addr1 = addr1
    addr2 = addr2
    NoHost = NoHost
    Request = {r1, r2}
    Worker <- MCSlot
    Slot <- MCSlot
    Path = {pa}
    Host = {named, addr1, addr2}
    NamedHost = {named}
    RenameMayFail = TRUE
    MaxBody = 1
    FirstDelay = 50
    KillDelay = 60
    Settings <- MCSettings
INVARIANTS NTypeOK OwnHost TableKnowsWorkers MasterLast
PROPERTIES KeepsPromise LostOnlyWithWorker Stops MutexComesBack WorkersComeBack
CHECK_DEADLOCK FALSE
