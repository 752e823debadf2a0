CONSTANTS
    Writer = {w1, w2}
    Daemon = syslogd
    Length = 3
    MaxMessages = 2
    Size = 4
    ChunkSize = 2
    NULL = NULL
    MaxInterrupts = 1
    MaxCommands = 2
    MaxChanges = 1
    Driver = {c1}
    MaxRefs = 2
    MaxPools = 2
SPECIFICATION DriversSpec
INVARIANTS MessagesWhole LoopHonest ModulesCounted ObjectsCounted
PROPERTIES QueueIsPrinted PanicIsShown EverythingServed WaitsEnd
CHECK_DEADLOCK FALSE
