------------------------------ MODULE Hashset -------------------------------
(***************************************************************************)
(* sys/container/hashset.c: a hash table with chained buckets that grows   *)
(* and shrinks along a table of capacities.  A removed entry leaves its    *)
(* bucket in the chain, with key and data NULL, until the next rehash.     *)
(* A directory's lock is held around each operation on its children, so    *)
(* each is one step.  halloc() panics instead of returning NULL, so the    *)
(* branches for that are not reachable.                                    *)
(***************************************************************************)
EXTENDS Naturals, FiniteSets, SequencesExt

CONSTANTS
    Key,         \* the keys in use; an integer key may be 0, which is NULL
    Data,        \* the objects
    NULL,
    Hash,        \* set->hashFunction
    Capacities,  \* hashet_capacity, its first rows
    MaxCounts,   \* hashset_maxCount, the same rows
    Word,        \* size_t counts modulo this
    MaxBuckets   \* bound: buckets in the table, removed ones included

(* what the code's tables, hashes and NULL satisfy *)
HashsetAssumption ==
    /\ NULL \notin Data
    /\ Hash \in [Key -> Nat]
    /\ Len(Capacities) = Len(MaxCounts)
    /\ \A i \in 1..Len(Capacities) :
          /\ Capacities[i] \in Nat \ {0} /\ MaxCounts[i] \in Nat
          /\ i > 1 => Capacities[i - 1] < Capacities[i]
    /\ MaxBuckets < Word

VARIABLES
    buckets,     \* set->buckets: the chain at each index, its head first
    count        \* set->count

vars == <<buckets, count>>

Bucket(key, data) == [key |-> key, data |-> data]

Removed == Bucket(NULL, NULL)

CapacityOf(table) == Cardinality(DOMAIN table)

Index(key) == Hash[key] % CapacityOf(buckets)

(* every bucket, in the order of the indices and of the overflow links *)
InOrder(table) == FlattenSeq([i \in 1..CapacityOf(table) |-> table[i - 1]])

-----------------------------------------------------------------------------
(* the buckets of a chain that the comparison of hashset_findBucket1()     *)
(* takes for the key's: strcmp() tells a NULL key from every string        *)
Matches(chain, key) == {i \in 1..Len(chain) : chain[i].key = key}

Found(chain, key) == Min(Matches(chain, key))

(* hashset_objectForKey() *)
ObjectForKey(key) ==
    LET chain == buckets[Index(key)]
    IN IF Matches(chain, key) = {} THEN NULL ELSE chain[Found(chain, key)].data

(* what hashset_rehash() carries over, in the order it meets it; it frees  *)
(* the buckets without a key                                               *)
Kept(table) == SelectSeq(InOrder(table), LAMBDA b : b.key # NULL)

(* hashset_rehash(): a bucket becomes the head of its new chain *)
Rehashed(table, capacity) ==
    [i \in 0..capacity - 1 |->
        Reverse(SelectSeq(Kept(table), LAMBDA b : Hash[b.key] % capacity = i))]

Row(table) == CHOOSE i \in 1..Len(Capacities) : Capacities[i] = CapacityOf(table)

(* hashset_expandIfNeeded(), which leaves the last row alone *)
Expanded(table, n) ==
    IF Row(table) < Len(Capacities) /\ n >= MaxCounts[Row(table)]
    THEN Rehashed(table, Capacities[Row(table) + 1]) ELSE table

(* hashset_shrinkIfNeeded(), which leaves the first and last rows alone *)
Shrunk(table, n) ==
    IF Row(table) \in 2..Len(Capacities) - 1 /\ n <= MaxCounts[Row(table) - 1]
    THEN Rehashed(table, Capacities[Row(table) - 1]) ELSE table

-----------------------------------------------------------------------------
(* hashset_create() for the smallest capacity *)
Init ==
    /\ buckets = [i \in 0..Capacities[1] - 1 |-> <<>>]
    /\ count = 0

(* The table after hashset_findBucket2() returned a bucket without data    *)
(* (a new one, or a removed one that a NULL key matches) and it was filled *)
Filled(key, data) ==
    LET i == Index(key)
    IN IF Matches(buckets[i], key) = {}
       THEN [buckets EXCEPT ![i] = <<Bucket(key, data)>> \o @]
       ELSE [buckets EXCEPT ![i][Found(buckets[i], key)].data = data]

(* A mutant: a key that is there is replaced by a new bucket. *)
SetObjectForKeyReplaces(key, data) ==
    /\ Len(InOrder(buckets)) < MaxBuckets
    /\ count' = (count + IF ObjectForKey(key) = NULL THEN 1 ELSE 0) % Word
    /\ buckets' = Expanded(Filled(key, data), count')

(* hashset_setObjectForKey() of an object: nothing happens to a key that   *)
(* has one                                                                 *)
SetObjectForKey(key, data) ==
    /\ Len(InOrder(buckets)) < MaxBuckets
    /\ ObjectForKey(key) = NULL
    /\ count' = (count + 1) % Word
    /\ buckets' = Expanded(Filled(key, data), count')

(* A mutant: a removal is not counted. *)
DecrementedNot(n) == n

Decremented(n) == (n + Word - 1) % Word

(* hashset_removeObjectForKey(), and hashset_setObjectForKey() of NULL *)
RemoveObjectForKey(key) ==
    LET i == Index(key)
    IN /\ Matches(buckets[i], key) # {}
       /\ count' = Decremented(count)
       /\ buckets' = Shrunk([buckets EXCEPT ![i][Found(buckets[i], key)] = Removed],
                            count')

(* the same of a key that is not found *)
RemoveMissingKey(key) ==
    /\ Matches(buckets[Index(key)], key) = {}
    /\ UNCHANGED vars

Next ==
    \E key \in Key :
        \/ RemoveObjectForKey(key)
        \/ RemoveMissingKey(key)
        \/ \E data \in Data : SetObjectForKey(key, data)

Spec == Init /\ [][Next]_vars

-----------------------------------------------------------------------------
(* The hash set of the nodes of a file system, whose keys are their ids:   *)
(* 0 is the id of the root and, as a pointer, NULL.                        *)

(* hash_integer() takes no two ids to one hash, and 0 to 0: an id is named *)
(* by its hash                                                             *)
HashInteger == [id \in Key |-> id]

FirstCapacities == <<5, 11, 23>>
FirstMaxCounts == <<4, 8, 17>>

(* ffs.c: vfs_instanceCreate() makes the root first.  It is never removed, *)
(* and only nodes in the table are.                                        *)
IdInit ==
    /\ \E root \in Data :
          buckets = [i \in 0..Capacities[1] - 1 |->
                       IF i = Hash[NULL] THEN <<Bucket(NULL, root)>> ELSE <<>>]
    /\ count = 1

IdNext ==
    \E key \in Key \ {NULL} :
        \/ ObjectForKey(key) # NULL /\ RemoveObjectForKey(key)
        \/ \E data \in Data : SetObjectForKey(key, data)

IdSpec == IdInit /\ [][IdNext]_vars

-----------------------------------------------------------------------------
(* hashset_iteratorGetNextObject(): the rest of the chain it stopped in,   *)
(* then the chains from the index on.  The result is the object (NULL at   *)
(* the end) and the iterator's new place.                                  *)
WithData(chain) == {i \in 1..Len(chain) : chain[i].data # NULL}

Place(chain, index) ==
    LET i == Min(WithData(chain))
    IN [object |-> chain[i].data, rest |-> SubSeq(chain, i + 1, Len(chain)), index |-> index]

(* A mutant: the next chain is the same one. *)
GetNextObjectSameIndex(rest, index) ==
    LET later == {j \in index..CapacityOf(buckets) - 1 : WithData(buckets[j]) # {}}
    IN IF WithData(rest) # {} THEN Place(rest, index)
       ELSE IF later # {} THEN Place(buckets[Min(later)], Min(later))
       ELSE [object |-> NULL, rest |-> <<>>, index |-> index]

GetNextObject(rest, index) ==
    LET later == {j \in index..CapacityOf(buckets) - 1 : WithData(buckets[j]) # {}}
    IN IF WithData(rest) # {} THEN Place(rest, index)
       ELSE IF later # {} THEN Place(buckets[Min(later)], Min(later) + 1)
       ELSE [object |-> NULL, rest |-> <<>>, index |-> index]

(* the first n calls of iterator_nextObject(), which fetch one by one *)
RECURSIVE Iterated(_, _, _)
Iterated(rest, index, n) ==
    LET next == GetNextObject(rest, index)
    IN IF n = 0 \/ next.object = NULL THEN <<>>
       ELSE <<next.object>> \o Iterated(next.rest, next.index, n - 1)

-----------------------------------------------------------------------------
TypeOK ==
    /\ CapacityOf(buckets) \in ToSet(Capacities)
    /\ DOMAIN buckets = 0..CapacityOf(buckets) - 1
    /\ \A i \in DOMAIN buckets : ToSet(buckets[i]) \subseteq
          [key : Key \cup {NULL}, data : Data \cup {NULL}]
    /\ count \in 0..Word - 1

(* hashset_count() is the number of keys that hashset_objectForKey() finds *)
(* an object for, however often the table grew, shrank and was left with   *)
(* removed buckets in between.                                             *)
CountIsContent == count = Cardinality({k \in Key : ObjectForKey(k) # NULL})

(* An iteration over the set meets every object as often as it was set for *)
(* a key, in hashset_iteratorGetNextObject()'s steps: no chain twice, none *)
(* left out, none of the removed buckets.                                  *)
IterationComplete ==
    LET objects == Iterated(<<>>, 0, MaxBuckets + 1)
    IN \A d \in Data :
         Cardinality({i \in 1..Len(objects) : objects[i] = d})
           = Cardinality({k \in Key : ObjectForKey(k) = d})

(* The hash set implements a dictionary: setting and removing a key change *)
(* what is found for that key only, and rehashing changes nothing.         *)
D == INSTANCE Dictionary WITH map <- [k \in Key |-> ObjectForKey(k)]
ImplementsDictionary == D!Spec
=============================================================================
