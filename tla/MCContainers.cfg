CONSTANTS
    Byte = {b1, b2}
    Size = 3
    MaxOut = 4
    NULL = NULL
    MaxBuckets = 6
    TreeKeys = {1, 2, 3, 4, 5, 6, 7}
    ArrayObjects = {1, 2, 3}
    MaxCount = 8
SPECIFICATION ContainersSpec
CONSTRAINT FewReads
INVARIANTS
    TablesFindEntries
    TreeConsistent
    SequencesInOrder
PROPERTIES IsBoundedLog ImplementsDictionary OneObjectMoves ImplementsVector
CHECK_DEADLOCK FALSE
