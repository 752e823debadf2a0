SPECIFICATION MemorySpec
CONSTANTS
    NULL = NULL
    Caller = {boot, t1, t2}
    Boot = boot
    WordBits = 3
    Words = 3
    MaxPages = 3
    Directory = 1
    Trampolines = 2
    TrampolinePages = 2
    Thread = {t1, t2}
    Process = {p1, p2}
    Description = {d1, d2, d3, d4}
    TinyMax = 1
    SmallMax = 2
    MediumMax = 3
    SmallPages = 1
    MediumPages = 1
    PageSize = 10
    ChunkMax = 4
    Extra = 1
    Align = 2
    Threshold = 2
    SizeT = 11
    Base = {100, 200}
INVARIANTS
    PagesExact
    HeapConsistent
    MappingsKept
    RequestsSound
    MappingsPrivate
    BlocksKeepContents
PROPERTIES
    LockReleased
CHECK_DEADLOCK FALSE
