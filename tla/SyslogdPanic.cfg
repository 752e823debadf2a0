CONSTANTS
    Writer = {w1, w2}
    Daemon = syslogd
    Length = 2
    MaxMessages = 1
    Size = 3
    ChunkSize = 2
    NULL = NULL
SPECIFICATION Spec
INVARIANT PanicFindsLockFree
CHECK_DEADLOCK FALSE
