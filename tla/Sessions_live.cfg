SPECIFICATION FairSpec
CONSTANTS
    main = main
    other = other
    Threads = {main, other}
    MainThread = main
    None = None
    MaxPersistedSessions = 1
    MaxSessions = 2
    MaxCount = 1
    MaxRelaunches = 1
INVARIANTS TypeOK ActiveExact SessionsKept NoStaleCrashData
PROPERTY ActiveReleased
CHECK_DEADLOCK FALSE
