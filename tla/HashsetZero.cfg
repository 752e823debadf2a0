\* Node ids of a file system: the root's id is 0, which is the NULL key
CONSTANTS
    Key = {0, 5, 11, 12}
    Data = {1, 2}
    NULL = 0
    Hash <- HashInteger
    Capacities <- FirstCapacities
    MaxCounts <- FirstMaxCounts
    Word = 65536
    MaxBuckets = 6
SPECIFICATION IdSpec
INVARIANT CountIsContent
