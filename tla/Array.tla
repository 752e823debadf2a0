-------------------------------- MODULE Array -------------------------------
(***************************************************************************)
(* sys/container/array.c: an array that grows and shrinks its allocation,  *)
(* and its sort: quicksort down to a depth, heap sort below it, and an     *)
(* insertion sort over the result.  Indices count from 0, as in the code.  *)
(* Writers hold a lock of the array's owner, so each operation is one      *)
(* step.                                                                   *)
(* An assertion that fails stops the kernel, so assertions are guards, and *)
(* halloc() panics instead of returning NULL.  The places from count on    *)
(* are never read: what they hold is not told apart from fresh memory.     *)
(***************************************************************************)
EXTENDS Integers, FiniteSets, SequencesExt

CONSTANTS
    Object,      \* objects, ordered by the comparator as numbers
    Junk,        \* what fresh memory holds
    MaxCount     \* bound: objects in the array

ArrayAssumption == Object \subseteq Int /\ Junk \notin Object /\ MaxCount \in Nat

VARIABLES
    data,        \* array->data: its allocation
    count        \* array->count

vars == <<data, count>>

(* array->space *)
SpaceOf(a) == Cardinality(DOMAIN a)
space == SpaceOf(data)

Fresh(n) == [i \in 0..n - 1 |-> Junk]

(* halloc() of n places, memcpy() of the first c, hfree() of the old *)
Moved(a, c, n) == [i \in 0..n - 1 |-> IF i < c THEN a[i] ELSE Junk]

(* A mutant: the array grows when it is too late. *)
GrownLate(a, c) == IF c > SpaceOf(a) THEN Moved(a, c, SpaceOf(a) * 2) ELSE a

(* __array_resizeToNextStepIfNeeded(), with the allocationStep that        *)
(* array_create() sets and nothing changes                                 *)
Grown(a, c) == IF c >= SpaceOf(a) - 1 THEN Moved(a, c, SpaceOf(a) * 2) ELSE a

(* A mutant: the array shrinks too late. *)
CollapsedLate(a, c) == IF c < SpaceOf(a) \div 8 THEN Moved(a, c, SpaceOf(a) \div 2) ELSE a

(* __array_collapseIfNeeded() *)
Collapsed(a, c) == IF c < SpaceOf(a) \div 2 THEN Moved(a, c, SpaceOf(a) \div 2) ELSE a

-----------------------------------------------------------------------------
(* __array_exchangeObjects() *)
Exchanged(a, i, j) == [a EXCEPT ![i] = a[j], ![j] = a[i]]

(* __array_isSorted(): what it looks at is in descending order *)
LooksSorted(a, begin, end) == \A i \in begin..end - 2 : a[i] >= a[i + 1]

(* __array_heapSortEx() *)
RECURSIVE Sifted(_, _, _, _)
Sifted(a, index, length, temp) ==
    LET left  == index * 2 + 1
        child == IF left + 1 < length /\ a[left] < a[left + 1] THEN left + 1 ELSE left
    IN IF left < length /\ temp < a[child]
       THEN Sifted([a EXCEPT ![index] = a[child]], child, length, temp)
       ELSE [a EXCEPT ![index] = temp]

(* __array_heapSort(): its two loops *)
RECURSIVE Heaped(_, _, _)
Heaped(a, index, length) ==
    IF index = 0 THEN a ELSE Heaped(Sifted(a, index - 1, length, a[index - 1]), index - 1, length)

RECURSIVE HeapTaken(_, _)
HeapTaken(a, length) ==
    IF length <= 1 THEN a
    ELSE LET b == Exchanged(a, 0, length - 1)
         IN HeapTaken(Sifted(b, 0, length - 1, b[0]), length - 1)

HeapSorted(a, length) == HeapTaken(Heaped(a, length \div 2, length), length)

(* __array_quickSortPartition(): the pivot is moved to begin, and all that *)
(* is not above the last object in front of it                             *)
PivotIndex(a, begin, end) ==
    LET middle == (begin + end) \div 2
        pivot  == IF a[middle] >= a[begin] THEN middle ELSE begin
    IN IF a[pivot] >= a[end] THEN end ELSE pivot

RECURSIVE Partitioned(_, _, _, _)
Partitioned(a, begin, end, pivot) ==
    IF begin >= end THEN [a |-> Exchanged(a, pivot, end), pivot |-> pivot]
    ELSE IF a[begin] <= a[end]
         THEN Partitioned(Exchanged(a, pivot, begin), begin + 1, end, pivot + 1)
         ELSE Partitioned(a, begin + 1, end, pivot)

(* __array_quickSort() *)
RECURSIVE QuickSorted(_, _, _, _)
QuickSorted(a, begin, end, depth) ==
    IF begin >= end \/ (depth > 0 /\ LooksSorted(a, begin, end)) THEN a
    ELSE IF depth = 0 THEN HeapSorted(a, end - begin + 1)
    ELSE LET p == Partitioned(Exchanged(a, PivotIndex(a, begin, end), begin), begin, end, begin)
         IN QuickSorted(QuickSorted(p.a, begin, p.pivot - 1, depth - 1),
                        p.pivot + 1, end, depth - 1)

(* the inner loop of __array_insertionSort() *)
RECURSIVE Placed(_, _, _)
Placed(a, j, temp) ==
    IF j >= 1 /\ a[j - 1] > temp
    THEN Placed([a EXCEPT ![j] = a[j - 1]], j - 1, temp)
    ELSE [a EXCEPT ![j] = temp]

RECURSIVE InsertionSorted(_, _, _)
InsertionSorted(a, i, c) ==
    IF i >= c THEN a ELSE InsertionSorted(Placed(a, i, a[i]), i + 1, c)

(* __array_logBase2() *)
RECURSIVE LogBase2(_)
LogBase2(n) == IF n <= 1 THEN 0 ELSE 1 + LogBase2(n \div 2)

(* A mutant: the first object is not sorted. *)
SortedFromSecond(a, c) ==
    InsertionSorted(IF c > 5 THEN QuickSorted(a, 0, c - 1, 2 * LogBase2(c)) ELSE a, 2, c)

(* array_sort() *)
Sorted(a, c) ==
    InsertionSorted(IF c > 5 THEN QuickSorted(a, 0, c - 1, 2 * LogBase2(c)) ELSE a, 1, c)

-----------------------------------------------------------------------------
(* array_create() *)
Init == data = Fresh(5) /\ count = 0

AddObject(x) ==
    /\ count < MaxCount
    /\ data' = [Grown(data, count) EXCEPT ![count] = x]
    /\ count' = count + 1

Inserted(a, x, index) ==
    [i \in DOMAIN a |-> IF i = index THEN x ELSE IF i > index /\ i <= count THEN a[i - 1] ELSE a[i]]

InsertObject(x, index) ==
    /\ count < MaxCount
    /\ index < count
    /\ data' = Inserted(Grown(data, count), x, index)
    /\ count' = count + 1

(* the objects behind the index move down by one *)
Without(a, index) ==
    [i \in DOMAIN a |-> IF i < index THEN a[i] ELSE IF i < count - 1 THEN a[i + 1] ELSE Junk]

RemoveObjectAtIndex(index) ==
    /\ index < count
    /\ data' = Collapsed(Without(data, index), count - 1)
    /\ count' = count - 1

(* array_indexOfObject() *)
Indices(x) == {i \in 0..count - 1 : data[i] = x}

(* array_removeObject() of an object that is in the array *)
RemoveObject(x) ==
    /\ Indices(x) # {}
    /\ RemoveObjectAtIndex(Min(Indices(x)))

RemoveAllObjects == data' = Fresh(5) /\ count' = 0

Sort == data' = Sorted(data, count) /\ UNCHANGED count

Next ==
    \/ \E x \in Object : AddObject(x) \/ RemoveObject(x)
    \/ \E index \in 0..MaxCount - 1 :
          RemoveObjectAtIndex(index) \/ \E x \in Object : InsertObject(x, index)
    \/ RemoveAllObjects
    \/ Sort

Spec == Init /\ [][Next]_vars

-----------------------------------------------------------------------------
TypeOK ==
    /\ DOMAIN data = 0..space - 1
    /\ count \in 0..MaxCount
    /\ \A i \in DOMAIN data : IF i < count THEN data[i] \in Object ELSE data[i] = Junk

(* There is room for one more object than the array holds, whatever was    *)
(* added, removed and collapsed before: the writes of array_addObject()    *)
(* and array_insertObject() stay inside the allocation, and it never gets  *)
(* so small that doubling it does not help.                                *)
RoomForOne == count < space

(* array_removeAllObjects() and a collapse give memory back: an array that *)
(* was shrunk to a count does not keep several times what it needs.        *)
SpaceInProportion == space <= 5 \/ space <= 4 * (count + 1)

(* The array is a sequence of objects: every operation does to it what its *)
(* name says, a move to a larger or smaller allocation changes nothing,    *)
(* and array_sort() leaves the same objects in ascending order, for every  *)
(* content, although its quicksort and heap sort do not sort by themselves.*)
V == INSTANCE Vector WITH list <- [i \in 1..count |-> IF i <= space THEN data[i - 1] ELSE Junk]
ImplementsVector == V!Spec
=============================================================================
