---------------------------- MODULE IODictionary ----------------------------
(***************************************************************************)
(* libio's IODictionary and __IOPointerDictionary: a hash table of keys    *)
(* and objects that it retains.  A removed entry leaves an empty bucket    *)
(* in its chain until the next rehash.  Allocation does not fail:          *)
(* kern_alloc() panics, and clears what it returns.                        *)
(***************************************************************************)
EXTENDS Integers, FiniteSets, SequencesExt

CONSTANTS
    Key,            \* key objects; equal ones have the same name
    KeyName,        \* what isEqual() compares
    Object,
    Hash,           \* of names
    Capacities,     \* __IODictionaryCapacity, its first rows
    MaxCounts,      \* __IODictionaryMaxCount, the same rows
    MaxBuckets,     \* bound: buckets in the table, empty ones included
    NULL

IODictionaryAssumption ==
    /\ NULL \notin Key \cup Object
    /\ Key \cap Object = {}
    /\ \A k \in Key : Hash[KeyName[k]] \in Nat
    /\ Len(Capacities) = Len(MaxCounts)

VARIABLES
    pointers,   \* it is an __IOPointerDictionary, which retains no objects
    buckets,    \* _buckets
    count,      \* _count
    users,      \* references that users have, per key and object
    refs,       \* _retainCount of all keys and objects
    content,    \* what was set, per name
    dangling,   \* a key or object was freed and is used
    panicked

vars == <<pointers, buckets, count, users, refs, content, dangling, panicked>>

Names == {KeyName[k] : k \in Key}
Things == Key \cup Object
Bucket(key, object) == [key |-> key, object |-> object]
Empty == Bucket(NULL, NULL)

Capacity(table) == Cardinality(DOMAIN table)
InOrder(table) == FlattenSeq([i \in 1..Capacity(table) |-> table[i - 1]])

Init ==
    /\ pointers \in BOOLEAN
    /\ buckets = [i \in 0..Capacities[1] - 1 |-> <<>>]
    /\ count = 0
    /\ users = [x \in Things |-> 1]
    /\ refs = [x \in Things |-> 1]
    /\ content = [n \in Names |-> NULL]
    /\ dangling = FALSE
    /\ panicked = FALSE

-----------------------------------------------------------------------------
(* IODictionary::findBucket1(): the first bucket of the chain whose key is *)
(* equal, or 0.                                                            *)
IndexOf(key, capacity) == Hash[KeyName[key]] % capacity

FindBucket1(key) ==
    LET chain == buckets[IndexOf(key, Capacity(buckets))]
        hits == {i \in DOMAIN chain : chain[i].key # NULL /\ KeyName[chain[i].key] = KeyName[key]}
    IN  IF hits = {} THEN 0 ELSE CHOOSE i \in hits : \A j \in hits : i <= j

(* IODictionary::findBucket2(): a new bucket, which has the key but no     *)
(* object, becomes the head of the chain.                                  *)
FindBucket2(key) ==
    IF FindBucket1(key) # 0 THEN [table |-> buckets, at |-> FindBucket1(key)]
    ELSE [table |-> [buckets EXCEPT ![IndexOf(key, Capacity(buckets))]
                       = <<Bucket(key, NULL)>> \o @],
          at |-> 1]

(* A mutant: buckets are moved by the capacity before. *)
RehashByOldCapacity(table, capacity) ==
    LET kept == SelectSeq(InOrder(table), LAMBDA b : b.key # NULL)
    IN  [i \in 0..capacity - 1 |->
           Reverse(SelectSeq(kept, LAMBDA b : IndexOf(b.key, Capacity(table)) % capacity = i))]

(* IODictionary::rehash(): a bucket becomes the head of its new chain, and *)
(* empty ones are deleted.                                                 *)
Rehash(table, capacity) ==
    LET kept == SelectSeq(InOrder(table), LAMBDA b : b.key # NULL)
    IN  [i \in 0..capacity - 1 |->
           Reverse(SelectSeq(kept, LAMBDA b : IndexOf(b.key, capacity) = i))]

Row(table) == CHOOSE i \in DOMAIN Capacities : Capacities[i] = Capacity(table)

(* IODictionary::expandIfNeeded(), which leaves the last row alone.        *)
ExpandIfNeeded(table, n) ==
    IF Row(table) < Len(Capacities) /\ n >= MaxCounts[Row(table)]
    THEN Rehash(table, Capacities[Row(table) + 1]) ELSE table

(* IODictionary::shrinkIfNeeded(), which leaves the first and last alone.  *)
ShrinkIfNeeded(table, n) ==
    IF Row(table) \in 2..Len(Capacities) - 1 /\ n <= MaxCounts[Row(table) - 1]
    THEN Rehash(table, Capacities[Row(table) - 1]) ELSE table

-----------------------------------------------------------------------------
Retained(r, x) == IF x \notin Things THEN r ELSE [r EXCEPT ![x] = @ + 1]
Released(r, x) == IF x \notin Things THEN r ELSE [r EXCEPT ![x] = @ - 1]

(* What the bucket had is released before what it gets is retained.        *)
SetReferences(old, key, object) ==
    LET r == IF old.object = NULL THEN refs ELSE Released(Released(refs, old.object), old.key)
    IN  [refs |-> Retained(Retained(r, object), key),
         dangling |-> r[key] <= 0 \/ r[object] <= 0]

(* A mutant: the key is retained again. *)
SetPointerReferencesLeak(old, key) ==
    [refs |-> Retained(refs, key), dangling |-> FALSE]

(* The pointer dictionary retains the key before, and no object.           *)
SetPointerReferences(old, key) ==
    LET r == IF old.object = NULL THEN Retained(refs, key) ELSE Released(Retained(refs, key), old.key)
    IN  [refs |-> r, dangling |-> FALSE]

(* setObjectForKey() and setPointerForKey(), of an object: the user has a  *)
(* reference to the key, or it is the dictionary's own.                    *)
SetObjectForKey(key, object) ==
    LET b == FindBucket2(key)
        i == IndexOf(key, Capacity(buckets))
        old == b.table[i][b.at]
        r == IF pointers THEN SetPointerReferences(old, key) ELSE SetReferences(old, key, object)
        n == IF old.object = NULL THEN count + 1 ELSE count
    IN
    /\ refs[key] > 0 /\ refs[object] > 0
    /\ Len(InOrder(buckets)) < MaxBuckets
    /\ refs' = r.refs
    /\ dangling' = r.dangling
    /\ count' = n
    /\ buckets' = ExpandIfNeeded([b.table EXCEPT ![i][b.at] = Bucket(key, object)], n)
    /\ content' = [content EXCEPT ![KeyName[key]] = object]
    /\ UNCHANGED <<pointers, users, panicked>>

(* setPointerForKey() of 0 calls removeObjectForKey(), which panics in a   *)
(* pointer dictionary.                                                     *)
SetZeroForKey(key) ==
    /\ pointers
    /\ refs[key] > 0
    /\ panicked' = TRUE
    /\ UNCHANGED <<pointers, buckets, count, users, refs, content, dangling>>

(* removeObjectForKey(), also by setObjectForKey() of 0, and               *)
(* removePointerForKey(): the one releases key and object, the other the   *)
(* key.                                                                    *)
RemoveObjectForKey(key) ==
    LET i == IndexOf(key, Capacity(buckets))
        at == FindBucket1(key)
        old == buckets[i][at]
    IN
    /\ refs[key] > 0
    /\ at # 0
    /\ refs' = IF pointers THEN Released(refs, old.key)
               ELSE Released(Released(refs, old.key), old.object)
    /\ count' = count - 1
    /\ buckets' = ShrinkIfNeeded([buckets EXCEPT ![i][at] = Empty], count - 1)
    /\ content' = [content EXCEPT ![KeyName[key]] = NULL]
    /\ UNCHANGED <<pointers, users, dangling, panicked>>

(* free(): every key, and every object unless they are pointers.           *)
FreeReferences ==
    LET all == InOrder(buckets)
        keys(k) == Cardinality({i \in DOMAIN all : all[i].key = k})
        objects(o) == Cardinality({i \in DOMAIN all : all[i].key # NULL /\ all[i].object = o})
    IN  [x \in Things |-> refs[x] - (IF x \in Key THEN keys(x)
                                     ELSE IF pointers THEN 0 ELSE objects(x))]

Free ==
    /\ InOrder(buckets) # <<>>
    /\ refs' = FreeReferences
    /\ buckets' = [i \in 0..Capacities[1] - 1 |-> <<>>]
    /\ count' = 0
    /\ content' = [n \in Names |-> NULL]
    /\ UNCHANGED <<pointers, users, dangling, panicked>>

(* A user gives its reference up: the dictionary may have the last.        *)
UserReleases(x) ==
    /\ users[x] > 0
    /\ pointers => x \in Key
    /\ users' = [users EXCEPT ![x] = @ - 1]
    /\ refs' = Released(refs, x)
    /\ UNCHANGED <<pointers, buckets, count, content, dangling, panicked>>

Next ==
    /\ ~dangling /\ ~panicked
    /\ \/ \E key \in Key :
            \/ SetZeroForKey(key)
            \/ RemoveObjectForKey(key)
            \/ \E object \in Object : SetObjectForKey(key, object)
       \/ Free
       \/ \E x \in Things : UserReleases(x)

Spec == Init /\ [][Next]_vars

-----------------------------------------------------------------------------
(* objectForKey(), pointerForKey() *)
ObjectForKey(key) ==
    IF FindBucket1(key) = 0 THEN NULL
    ELSE buckets[IndexOf(key, Capacity(buckets))][FindBucket1(key)].object

(* IODictionaryIterator: nextObject() until it returns 0, which it also    *)
(* does at an empty bucket.                                                *)
Iterated ==
    LET all == InOrder(buckets)
        ends == {i \in DOMAIN all : all[i].object = NULL}
    IN  IF ends = {} THEN all
        ELSE SubSeq(all, 1, (CHOOSE i \in ends : \A j \in ends : i <= j) - 1)

(* The dictionary finds for each key what was last set for an equal one,   *)
(* and counts those names, through rehashes and empty buckets; an          *)
(* iteration meets each of them once if no bucket is empty, and never one  *)
(* that was removed.                                                       *)
FindsWhatWasSet ==
    /\ \A key \in Key : ObjectForKey(key) = content[KeyName[key]]
    /\ count = Cardinality({n \in Names : content[n] # NULL})
    /\ \A i, j \in DOMAIN Iterated :
         KeyName[Iterated[i].key] = KeyName[Iterated[j].key] => i = j
    /\ (\A i \in DOMAIN InOrder(buckets) : InOrder(buckets)[i] # Empty) =>
         Len(Iterated) = count

(* A key or object has the references of its users, and one for each entry *)
(* it is in: none is freed while an entry has it, and all are released     *)
(* with the dictionary.  This holds until an entry's own object or key is  *)
(* set for it again and its only reference was the entry's: it is released *)
(* before it is retained.                                                  *)
EntriesRetained ==
    LET all == InOrder(buckets)
        inKeys(x) == Cardinality({i \in DOMAIN all : all[i].key = x})
        inObjects(x) == IF pointers THEN 0
                        ELSE Cardinality({i \in DOMAIN all : all[i].object = x})
    IN  ~dangling => \A x \in Things : refs[x] = users[x] + inKeys(x) + inObjects(x)

=============================================================================
