------------------------------- MODULE IOArray -------------------------------
(***************************************************************************)
(* libio's IOArray: a sequence of objects that it retains, in memory that  *)
(* grows and shrinks by _changeSize.  Allocation does not fail.            *)
(***************************************************************************)
EXTENDS Integers, FiniteSets, SequencesExt

CONSTANTS
    Object,
    ChangeSizes,    \* what users set _changeSize to
    InitialSizes,   \* capacities of init() and initWithCapacity()
    InitialChange,  \* _changeSize of a new array
    Word,           \* 2^32
    MaxCount,       \* bound: objects in the array
    NULL

IOArrayAssumption ==
    /\ NULL \notin Object
    /\ (ChangeSizes \cup InitialSizes \cup {InitialChange}) \subseteq Nat \ {0}
    /\ Word \in Nat

VARIABLES
    objects,    \* _objects, the memory: _capacity places
    count,      \* _count
    changeSize, \* _changeSize
    refs,       \* references the array has, per object
    content,    \* the objects users put into it, in order
    displaced,  \* removeObject() left an object twice and lost the last
    outside     \* a place outside the memory was written

vars == <<objects, count, changeSize, refs, content, displaced, outside>>

Capacity == Len(objects)

Init ==
    /\ \E n \in InitialSizes : objects = [i \in 1..n |-> NULL]
    /\ count = 0
    /\ changeSize = InitialChange
    /\ refs = [o \in Object |-> 0]
    /\ content = <<>>
    /\ displaced = FALSE
    /\ outside = FALSE

(* IOArray::resize(): new memory with the objects.                         *)
Resize(memory, size) == [i \in 1..size |-> IF i <= count THEN memory[i] ELSE NULL]

(* A mutant: a full array is taken for one with room. *)
IsFullLate == count > Capacity

IsFull == count >= Capacity

Room == IF IsFull THEN Resize(objects, Capacity + changeSize) ELSE objects

(* IOArray::insertObject() before index, from 1; addObject() is the one    *)
(* behind the last.                                                        *)
InsertObject(object, index) ==
    /\ count < MaxCount
    /\ outside' = (count + 1 > Len(Room))
    /\ objects' = IF outside' THEN Room
                  ELSE [i \in DOMAIN Room |->
                          IF i = index THEN object
                          ELSE IF i \in index + 1..count + 1 THEN Room[i - 1]
                          ELSE Room[i]]
    /\ count' = count + 1
    /\ refs' = [refs EXCEPT ![object] = @ + 1]
    /\ content' = InsertAt(content, index, object)
    /\ UNCHANGED <<changeSize, displaced>>

(* IOArray::removeObject(): its loop moves one object, again and again.    *)
Moved(index) ==
    IF index < count THEN [objects EXCEPT ![index] = objects[index + 1]] ELSE objects

(* The difference wraps around if there are fewer places than twice        *)
(* _changeSize.                                                            *)
Shrinks(n) == (Capacity - 2 * changeSize) % Word > n

Shrunk(memory, n) ==
    IF Shrinks(n) THEN [i \in 1..n + changeSize |-> IF i <= n THEN memory[i] ELSE NULL]
    ELSE memory

RemoveObject(index) ==
    /\ index \in 1..count
    /\ refs' = [refs EXCEPT ![objects[index]] = @ - 1]
    /\ count' = count - 1
    /\ objects' = Shrunk(Moved(index), count - 1)
    /\ content' = RemoveAt(content, index)
    /\ displaced' = (index < count - 1)
    /\ UNCHANGED <<changeSize, outside>>

(* removeObject() of an object removes the first that is equal.            *)
IndexOfObject(object) ==
    LET hits == {i \in 1..count : objects[i] = object}
    IN  IF hits = {} THEN 0 ELSE CHOOSE i \in hits : \A j \in hits : i <= j

(* IOArray::removeAllObjects(); free() releases the same.                  *)
RemoveAllObjects ==
    /\ count > 0
    /\ refs' = [o \in Object |-> refs[o] - Cardinality({i \in 1..count : objects[i] = o})]
    /\ objects' = [i \in 1..changeSize |-> NULL]
    /\ count' = 0
    /\ content' = <<>>
    /\ UNCHANGED <<changeSize, displaced, outside>>

SetChangeSize(n) ==
    /\ n # changeSize
    /\ changeSize' = n
    /\ UNCHANGED <<objects, count, refs, content, displaced, outside>>

Next ==
    /\ ~displaced
    /\ ~outside
    /\ \/ \E o \in Object : \/ \E i \in 1..count + 1 : InsertObject(o, i)
                            \/ RemoveObject(IndexOfObject(o))
       \/ \E i \in 1..count : RemoveObject(i)
       \/ RemoveAllObjects
       \/ \E n \in ChangeSizes : SetChangeSize(n)

Spec == Init /\ [][Next]_vars

-----------------------------------------------------------------------------
(* The array holds what was put into it, in order, and one reference for   *)
(* each, in memory that is large enough, whatever _changeSize is set to on *)
(* the way, until an object is removed that has two behind it: then the    *)
(* count alone is right.                                                   *)
HoldsWhatWasPut ==
    /\ ~outside
    /\ count = Len(content)
    /\ count <= Capacity
    /\ ~displaced => /\ SubSeq(objects, 1, count) = content
                     /\ \A o \in Object :
                          refs[o] = Cardinality({i \in DOMAIN content : content[i] = o})

=============================================================================
