CONSTANTS
    Process = {k}
    Thread = {kerneld, t1, t2}
    KProc = k
    Kerneld = kerneld
    WantedTicks = 1
    MaxSleep = 2
    NULL = NULL
SPECIFICATION IoSpec
INVARIANT KernelBlocksCountAlarm
