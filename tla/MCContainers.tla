---------------------------- MODULE MCContainers ----------------------------
(***************************************************************************)
(* The containers of sys/container and the collections of libio, side by   *)
(* side.  They share no state, so a behaviour uses one of them, which Init *)
(* chooses, and the others stay as they were created (an idle ring buffer  *)
(* with one content of memory): the states add up instead of multiplying.  *)
(***************************************************************************)
EXTENDS Ringbuffer, TLC

CONSTANTS
    NULL,
    MaxOut,      \* bound: bytes read from the ring buffer
    MaxBuckets,  \* bound: buckets of the hash set, removed ones included
    TreeKeys,    \* keys of the tree, as the numbers that order them
    ArrayObjects,\* objects of the array, as the numbers that order them
    MaxCount     \* bound: objects in the array

VARIABLES
    used,              \* the container of this behaviour
    buckets, entries,  \* the hash set
    root, nodes,       \* the tree
    data, objects,     \* the array
    list, order, lost, \* the list
    pointers, dictBuckets, dictCount, dictUsers, dictRefs, content, dictDangling, dictPanicked,
                       \* IODictionary
    setBuckets, setCount, setUsers, setRefs, members, setDangling,
                       \* IOSet
    memory, length, changeSize, arrayRefs, sequence, displaced, outside,
                       \* IOArray
    chain, known, loads, loaded, parent, row, dictClass, pending, shuffled, panicked
                       \* the classes of libio

(* hash_cstring() of five names in a directory: some share a chain at one  *)
(* capacity and are apart at the next.                                     *)
NameHash == ("a" :> 0) @@ ("b" :> 5) @@ ("c" :> 11) @@ ("d" :> 12) @@ ("e" :> 16)

Set == INSTANCE Hashset WITH
    Key <- DOMAIN NameHash, Data <- {"o1", "o2"}, Hash <- NameHash,
    Capacities <- <<5, 11, 23>>, MaxCounts <- <<4, 8, 17>>, Word <- 65536,
    count <- entries

Tree == INSTANCE ATree WITH Key <- TreeKeys

Array == INSTANCE Array WITH Object <- ArrayObjects, Junk <- 0, count <- objects

List == INSTANCE List WITH Entry <- {"e1", "e2", "e3", "e4"}

(* Four keys, of which two are equal, and two share a chain at one capacity*)
(* of the first three rows, scaled down.                                   *)
KeyValue == ("k1" :> 0) @@ ("k1b" :> 0) @@ ("k2" :> 3) @@ ("k3" :> 2)
ValueHash == (0 :> 0) @@ (3 :> 3) @@ (2 :> 2)
IOCapacities == <<2, 3, 5>>
IOMaxCounts == <<2, 3, 4>>

Dict == INSTANCE IODictionary WITH
    Key <- DOMAIN KeyValue, KeyName <- KeyValue, Object <- {"o1", "o2"}, Hash <- ValueHash,
    Capacities <- IOCapacities, MaxCounts <- IOMaxCounts, MaxBuckets <- 4,
    buckets <- dictBuckets, count <- dictCount, users <- dictUsers, refs <- dictRefs,
    dangling <- dictDangling, panicked <- dictPanicked

IOs == INSTANCE IOSet WITH
    Object <- DOMAIN KeyValue, Value <- KeyValue, Hash <- ValueHash,
    Capacities <- IOCapacities, MaxCounts <- IOMaxCounts, MaxBuckets <- 4, Word <- 16,
    MaxUsers <- 2,
    buckets <- setBuckets, count <- setCount, users <- setUsers, refs <- setRefs,
    dangling <- setDangling

IOa == INSTANCE IOArray WITH
    Object <- {"k1", "k2"}, ChangeSizes <- {1, 2, 3}, InitialSizes <- {1, 2, 6},
    InitialChange <- 2, MaxCount <- 6, Word <- 32,
    objects <- memory, count <- length, refs <- arrayRefs, content <- sequence

(* Three classes of libio, and two modules with a class each.              *)
SuperClass ==
    ("IOObject" :> NULL) @@ ("IOString" :> "IOObject") @@ ("IOService" :> "IOObject")
    @@ ("Family" :> "IOService") @@ ("Driver" :> "Family")
LibraryOf ==
    [c \in DOMAIN SuperClass |-> IF c \in {"Family", "Driver"} THEN c ELSE "libio"]

Symbols == INSTANCE Classes WITH
    Class <- DOMAIN SuperClass, String <- "IOString", Super <- SuperClass,
    Library <- LibraryOf, MaxCounts <- <<3, 6, 7>>, MaxLoads <- 2

ASSUME ContainersAssumption ==
    /\ Set!HashsetAssumption
    /\ Tree!ATreeAssumption
    /\ Array!ArrayAssumption
    /\ Dict!IODictionaryAssumption
    /\ IOs!IOSetAssumption
    /\ IOa!IOArrayAssumption
    /\ Symbols!ClassesAssumption

setVars == <<buckets, entries>>
treeVars == <<root, nodes>>
arrayVars == <<data, objects>>
listVars == <<list, order, lost>>
dictVars == <<pointers, dictBuckets, dictCount, dictUsers, dictRefs, content, dictDangling,
              dictPanicked>>
ioSetVars == <<setBuckets, setCount, setUsers, setRefs, members, setDangling>>
ioArrayVars == <<memory, length, changeSize, arrayRefs, sequence, displaced, outside>>
kernelVars == <<vars, setVars, treeVars, arrayVars, listVars>>
classVars == <<chain, known, loads, loaded, parent, row, dictClass, pending, shuffled, panicked>>
ioVars == <<dictVars, ioSetVars, ioArrayVars, classVars>>
allVars == <<used, kernelVars, ioVars>>

ContainersInit ==
    /\ used \in {"ring buffer", "hash set", "tree", "array", "list",
                  "IODictionary", "IOSet", "IOArray", "classes"}
    /\ Init
    /\ used # "ring buffer" => buffer = [i \in 0..Size - 1 |-> CHOOSE b \in Byte : TRUE]
    /\ Set!Init
    /\ Tree!Init
    /\ Array!Init
    /\ List!Init
    /\ Dict!Init
    /\ used # "IODictionary" => ~pointers
    /\ IOs!Init
    /\ IOa!Init
    /\ used # "IOArray" => Len(memory) = 1
    /\ Symbols!Init

UseRingbuffer ==
    /\ used = "ring buffer"
    /\ Next
    /\ UNCHANGED <<used, setVars, treeVars, arrayVars, listVars, ioVars>>

UseHashset ==
    /\ used = "hash set"
    /\ Set!Next
    /\ UNCHANGED <<used, vars, treeVars, arrayVars, listVars, ioVars>>

UseTree ==
    /\ used = "tree"
    /\ Tree!Next
    /\ UNCHANGED <<used, vars, setVars, arrayVars, listVars, ioVars>>

UseArray ==
    /\ used = "array"
    /\ Array!Next
    /\ UNCHANGED <<used, vars, setVars, treeVars, listVars, ioVars>>

UseList ==
    /\ used = "list"
    /\ List!Next
    /\ UNCHANGED <<used, vars, setVars, treeVars, arrayVars, ioVars>>

UseIODictionary ==
    /\ used = "IODictionary"
    /\ Dict!Next
    /\ UNCHANGED <<used, kernelVars, ioSetVars, ioArrayVars, classVars>>

UseIOSet ==
    /\ used = "IOSet"
    /\ IOs!Next
    /\ UNCHANGED <<used, kernelVars, dictVars, ioArrayVars, classVars>>

UseIOArray ==
    /\ used = "IOArray"
    /\ IOa!Next
    /\ UNCHANGED <<used, kernelVars, dictVars, ioSetVars, classVars>>

UseClasses ==
    /\ used = "classes"
    /\ Symbols!Next
    /\ UNCHANGED <<used, kernelVars, dictVars, ioSetVars, ioArrayVars>>

ContainersNext ==
    \/ UseRingbuffer \/ UseHashset \/ UseTree \/ UseArray \/ UseList
    \/ UseIODictionary \/ UseIOSet \/ UseIOArray \/ UseClasses

ContainersSpec == ContainersInit /\ [][ContainersNext]_allVars

FewReads == Len(out) <= MaxOut

-----------------------------------------------------------------------------
(* The properties of a container are about the behaviours in which it is   *)
(* used.                                                                   *)

(* The hash tables find what was put into them, through rehashes and empty *)
(* buckets: hashset_count() is the number of keys that                     *)
(* hashset_objectForKey() finds and an iteration meets each once;          *)
(* IODictionary finds what was set for a key and retains it; IOSet         *)
(* contains what was added, until an object that is in it is freed; and    *)
(* IODatabase finds the classes that are loaded.                           *)
TablesFindEntries ==
    /\ used = "hash set" => Set!TypeOK /\ Set!CountIsContent /\ Set!IterationComplete
    /\ used = "IODictionary" => Dict!FindsWhatWasSet /\ Dict!EntriesRetained
    /\ used = "IOSet" => IOs!ContainsWhatWasAdded
    /\ used = "classes" => Symbols!ClassesFound

(* The hash set is a dictionary through rehashes and reused buckets.       *)
ImplementsDictionary == Set!ImplementsDictionary

(* The rotations of atree_insert() and atree_remove() keep the levels that *)
(* bound the height of the tree, and its keys in order; atree_destroy()    *)
(* frees every node once; and an iteration meets the objects in order, and *)
(* then the root's again.                                                  *)
TreeConsistent ==
    used = "tree" =>
        Tree!TypeOK /\ Tree!WellFormed /\ Tree!DestroyFreesAll /\ Tree!IterationInOrder

(* An insert adds and a removal takes one object; the others all stay.     *)
OneObjectMoves == Tree!OneObjectMoves

(* Lists and arrays hold what was put into them in order, in memory that   *)
(* has room for it: no write of array_addObject(), array_insertObject() or *)
(* IOArray::insertObject() leaves the allocation, and a shrinking array    *)
(* gives its space back.                                                   *)
SequencesInOrder ==
    /\ used = "array" => Array!TypeOK /\ Array!RoomForOne /\ Array!SpaceInProportion
    /\ used = "list" => List!ListInOrder
    /\ used = "IOArray" => IOa!HoldsWhatWasPut

(* The array is a sequence, and array_sort() sorts it.                     *)
ImplementsVector == Array!ImplementsVector
=============================================================================
