-------------------------------- MODULE IOSet --------------------------------
(***************************************************************************)
(* libio's IOSet: a hash table of objects.  It differs from IODictionary   *)
(* in that a new bucket has its object from the beginning, so that         *)
(* addObject() takes it for one it replaces: the set holds no reference to *)
(* an object it got into a new bucket, and does not count it.              *)
(***************************************************************************)
EXTENDS Integers, FiniteSets, SequencesExt

CONSTANTS
    Object,
    Value,          \* per object: what isEqual() compares
    Hash,           \* of values
    Capacities,     \* __IOSetCapacity, its first rows
    MaxCounts,      \* __IOSetMaxCount, the same rows
    Word,           \* 2^32
    MaxBuckets,     \* bound: buckets of the set, empty ones included
    MaxUsers,       \* bound: references of the users to one object
    NULL

IOSetAssumption ==
    /\ NULL \notin Object
    /\ \A o \in Object : Hash[Value[o]] \in Nat
    /\ Len(Capacities) = Len(MaxCounts)
    /\ Word > MaxCounts[Len(MaxCounts)]

VARIABLES
    buckets,    \* _buckets: the objects of a chain, NULL in an empty bucket
    count,      \* _count
    users,      \* references that users have, per object
    refs,       \* _retainCount of the objects
    members,    \* the values that were added and not removed
    dangling    \* an object that is in the set was freed

vars == <<buckets, count, users, refs, members, dangling>>

Capacity(table) == Cardinality(DOMAIN table)
InOrder(table) == FlattenSeq([i \in 1..Capacity(table) |-> table[i - 1]])

Init ==
    /\ buckets = [i \in 0..Capacities[1] - 1 |-> <<>>]
    /\ count = 0
    /\ users = [o \in Object |-> 1]
    /\ refs = [o \in Object |-> 1]
    /\ members = {}
    /\ dangling = FALSE

-----------------------------------------------------------------------------
IndexOf(object, capacity) == Hash[Value[object]] % capacity

(* IOSet::findBucket1(): its position in the chain, or 0.                  *)
FindBucket1(object) ==
    LET chain == buckets[IndexOf(object, Capacity(buckets))]
        hits == {i \in DOMAIN chain : chain[i] # NULL /\ Value[chain[i]] = Value[object]}
    IN  IF hits = {} THEN 0 ELSE CHOOSE i \in hits : \A j \in hits : i <= j

(* IOSet::findBucket2(): a new bucket at the head of the chain.            *)
FindBucket2(object) ==
    IF FindBucket1(object) # 0 THEN [table |-> buckets, at |-> FindBucket1(object)]
    ELSE [table |-> [buckets EXCEPT ![IndexOf(object, Capacity(buckets))] = <<object>> \o @],
          at |-> 1]

(* A mutant: the chains are those of the old capacity. *)
RehashByOldCapacity(table, capacity) ==
    LET kept == SelectSeq(InOrder(table), LAMBDA o : o # NULL)
    IN  [i \in 0..capacity - 1 |->
           Reverse(SelectSeq(kept, LAMBDA o : IndexOf(o, Capacity(table)) = i))]

(* IOSet::rehash()                                                         *)
Rehash(table, capacity) ==
    LET kept == SelectSeq(InOrder(table), LAMBDA o : o # NULL)
    IN  [i \in 0..capacity - 1 |->
           Reverse(SelectSeq(kept, LAMBDA o : IndexOf(o, capacity) = i))]

Row(table) == CHOOSE i \in DOMAIN Capacities : Capacities[i] = Capacity(table)

(* IOSet::expandIfNeeded() and IOSet::shrinkIfNeeded()                     *)
ExpandIfNeeded(table, n) ==
    IF Row(table) < Len(Capacities) /\ n >= MaxCounts[Row(table)]
    THEN Rehash(table, Capacities[Row(table) + 1]) ELSE table

ShrinkIfNeeded(table, n) ==
    IF Row(table) \in 2..Len(Capacities) - 1 /\ n <= MaxCounts[Row(table) - 1]
    THEN Rehash(table, Capacities[Row(table) - 1]) ELSE table

-----------------------------------------------------------------------------
Dangles(table, r) ==
    \E i \in DOMAIN InOrder(table) : InOrder(table)[i] # NULL /\ r[InOrder(table)[i]] <= 0

(* IOSet::addObject(): the object is retained, the one in the bucket       *)
(* released, which is the same one if the bucket is new.  The set counts   *)
(* one less and one more.                                                  *)
AddObject(object) ==
    LET b == FindBucket2(object)
        i == IndexOf(object, Capacity(buckets))
        old == b.table[i][b.at]
        retained == [refs EXCEPT ![object] = @ + 1]
    IN
    /\ refs[object] > 0
    /\ Len(InOrder(buckets)) < MaxBuckets
    /\ refs' = [retained EXCEPT ![old] = @ - 1]
    /\ buckets' = ExpandIfNeeded([b.table EXCEPT ![i][b.at] = object], count)
    /\ members' = members \cup {Value[object]}
    /\ dangling' = Dangles(buckets', refs')
    /\ UNCHANGED <<count, users>>

(* IOSet::removeObject()                                                   *)
RemoveObject(object) ==
    LET i == IndexOf(object, Capacity(buckets))
        at == FindBucket1(object)
        n == (count - 1) % Word
    IN
    /\ refs[object] > 0
    /\ at # 0
    /\ refs' = [refs EXCEPT ![buckets[i][at]] = @ - 1]
    /\ count' = n
    /\ buckets' = ShrinkIfNeeded([buckets EXCEPT ![i][at] = NULL], n)
    /\ members' = members \ {Value[object]}
    /\ dangling' = Dangles(buckets', refs')
    /\ UNCHANGED users

(* IOSet::removeAllObjects(), and free().                                  *)
RemoveAllObjects ==
    /\ InOrder(buckets) # <<>>
    /\ refs' = [o \in Object |-> IF Contains(InOrder(buckets), o) THEN refs[o] - 1 ELSE refs[o]]
    /\ buckets' = [i \in 0..Capacities[1] - 1 |-> <<>>]
    /\ count' = 0
    /\ members' = {}
    /\ UNCHANGED <<users, dangling>>

(* A user retains or releases an object of its own.                        *)
UserRetains(o) ==
    /\ users[o] > 0 /\ refs[o] > 0
    /\ users[o] < MaxUsers
    /\ users' = [users EXCEPT ![o] = @ + 1]
    /\ refs' = [refs EXCEPT ![o] = @ + 1]
    /\ UNCHANGED <<buckets, count, members, dangling>>

UserReleases(o) ==
    /\ users[o] > 0 /\ refs[o] > 0
    /\ users' = [users EXCEPT ![o] = @ - 1]
    /\ refs' = [refs EXCEPT ![o] = @ - 1]
    /\ dangling' = Dangles(buckets, refs')
    /\ UNCHANGED <<buckets, count, members>>

Next ==
    /\ ~dangling
    /\ \/ \E o \in Object :
            AddObject(o) \/ RemoveObject(o) \/ UserRetains(o) \/ UserReleases(o)
       \/ RemoveAllObjects

Spec == Init /\ [][Next]_vars

-----------------------------------------------------------------------------
(* IOSet::containsObject()                                                 *)
ContainsObject(object) == FindBucket1(object) # 0

(* As long as no object in it was freed, the set contains an object if and *)
(* only if an equal one was added and not removed, in one bucket, though   *)
(* its count wraps around below zero with the first removal, so that every *)
(* later addition makes the table larger.                                  *)
ContainsWhatWasAdded ==
    ~dangling =>
      LET all == InOrder(buckets) IN
      /\ \A o \in Object : ContainsObject(o) <=> Value[o] \in members
      /\ \A i, j \in DOMAIN all :
           all[i] # NULL /\ all[j] # NULL /\ Value[all[i]] = Value[all[j]] => i = j

=============================================================================
