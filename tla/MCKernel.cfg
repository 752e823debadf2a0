SPECIFICATION KernelSpec
CONSTANTS
    Thread = {"t1", "t2"}
    Process = {"p1", "p2"}
    Mover = {"t1"}
    Name = {"a", "b"}
    Path <- Paths
    Flags = {{"O_RDONLY"}, {"O_WRONLY", "O_CREAT"}, {"O_RDWR", "O_CREAT", "O_EXCL"}}
    Fd = {0}
    MaxNodes = 4
    MaxCalls = 4
    LinkCalls = 2
    Owner = {o1, o2, o3}
    Line = {19}
    Master = 10
    Slave = 18
    PublicBegin = 30
    PublicEnd = 31
    Space = 2
    MaxRegistrations = 3
    Nil = Nil
    File = {f1, f2}
    Access = {{}, {"reads"}, {"reads", "writes"}}
    Byte = {0, 1}
    Junk = 2
    PageSize = 2
    Chunk = 2
    Word = 1024
    MaxSize = 4
    NULL = NULL
    Nothing = Nothing
INVARIANTS
    NamespaceConsistent
    WritesKept
    LinkedRight
    DivisionExact
    BootTimeWasShown
    DevicesDriven
PROPERTIES
    InterruptsDelivered
CHECK_DEADLOCK FALSE
