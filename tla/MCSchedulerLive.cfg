CONSTANTS
    Process = {k, p1, p2}
    Thread = {kerneld, t1, t2}
    KProc = k
    Kerneld = kerneld
    WantedTicks = 2
    MaxSleep = 1
    NULL = NULL
SPECIFICATION Spec
PROPERTIES ScheduleReturns EveryRunnableRuns SleepersWake JoinersWoken
