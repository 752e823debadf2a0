CONSTANTS
    Thread = {m, t1, t2, t3, t4}
    Main = m
    NULL = NULL
SPECIFICATION Spec
INVARIANT ListHoldsLiveThreads
