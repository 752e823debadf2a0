------------------------------- MODULE Objects -------------------------------
(***************************************************************************)
(* The objects of libio: retain(), release() and autorelease() of          *)
(* IOObject.cpp, the nested pools of IOAutoreleasePool.cpp, and the threads*)
(* that have them, from IOThread::detach() to the end of threadEntry().    *)
(*                                                                         *)
(* A count changes under the object's lock and is one step.  free() of an  *)
(* object releases or autoreleases what it owns; that, and the release of  *)
(* everything in a pool, takes a step for each object.                     *)
(***************************************************************************)
EXTENDS Integers, FiniteSets, SequencesExt, FiniteSetsExt

CONSTANTS
    Thread,
    Object,
    Owning,     \* sets of [by, owned, later]; later if free() autoreleases
    MaxRefs,    \* bound: references to one object
    MaxPools,   \* bound: pools of a thread
    NULL

ObjectsAssumption ==
    /\ Owning \subseteq SUBSET [by : Object, owned : Object, later : BOOLEAN]
    /\ MaxRefs \in Nat /\ MaxPools \in Nat

VARIABLES
    owns,       \* the references objects have to objects, of Owning
    rc,         \* _retainCount; 0 after free()
    holds,      \* per thread and object: the references the thread has
    at,         \* per thread: new, created, entering, running or ended
    assigned,   \* the threads whose _id is assigned
    seen,       \* per thread: the _id that threadEntry() read
    dict,       \* __IOThreadDictionary, from ids to threads
    pools,      \* per thread: the pools from _topPool, the top last
    todo,       \* per thread: the objects it is about to release, in order
    drain,      \* per thread: the pool it frees
    leaked,     \* per object: autoreleases with no pool
    fault       \* a NULL pointer was followed, or panic()

vars == <<owns, rc, holds, at, assigned, seen, dict, pools, todo, drain, leaked, fault>>

Init ==
    /\ owns \in Owning
    /\ \E t \in Thread : holds = [u \in Thread |-> [o \in Object |-> IF u = t THEN 1 ELSE 0]]
    /\ rc = [o \in Object |-> 1 + Cardinality({e \in owns : e.owned = o})]
    /\ at = [t \in Thread |-> "new"]
    /\ assigned = {}
    /\ seen = [t \in Thread |-> NULL]
    /\ dict = [t \in Thread |-> NULL]
    /\ pools = [t \in Thread |-> <<>>]
    /\ todo = [t \in Thread |-> <<>>]
    /\ drain = [t \in Thread |-> NULL]
    /\ leaked = [o \in Object |-> 0]
    /\ fault = FALSE

-----------------------------------------------------------------------------
(* IOThread::detach(): the thread exists, and may run, before its id is    *)
(* assigned.  threadEntry() reads the id and then waits for the lock that  *)
(* detach() holds.                                                         *)
Detach(t) ==
    /\ at[t] = "new"
    /\ at' = [at EXCEPT ![t] = "created"]
    /\ UNCHANGED <<owns, rc, holds, assigned, seen, dict, pools, todo, drain, leaked, fault>>

Detached(t) ==
    /\ at[t] # "new" /\ t \notin assigned
    /\ assigned' = assigned \cup {t}
    /\ UNCHANGED <<owns, rc, holds, at, seen, dict, pools, todo, drain, leaked, fault>>

EnterThread(t) ==
    /\ at[t] = "created"
    /\ at' = [at EXCEPT ![t] = "entering"]
    /\ seen' = [seen EXCEPT ![t] = IF t \in assigned THEN t ELSE NULL]
    /\ UNCHANGED <<owns, rc, holds, assigned, dict, pools, todo, drain, leaked, fault>>

MayRegister(t) == t \in assigned

RegisterThread(t) ==
    /\ at[t] = "entering"
    /\ MayRegister(t)
    /\ at' = [at EXCEPT ![t] = "running"]
    /\ dict' = IF seen[t] = NULL THEN dict ELSE [dict EXCEPT ![seen[t]] = t]
    /\ UNCHANGED <<owns, rc, holds, assigned, seen, pools, todo, drain, leaked, fault>>

(* IOThread::currentThread(), by the id of the thread that runs.           *)
CurrentThread(t) == dict[t]

-----------------------------------------------------------------------------
(* IOObject::autorelease() and IOAutoreleasePool::addObject(), of several  *)
(* objects: to the top pool, and into nowhere if there is none.            *)
Autoreleased(t, s) ==
    IF s = <<>> THEN UNCHANGED <<pools, leaked, fault>>
    ELSE IF CurrentThread(t) = NULL
    THEN fault' = TRUE /\ UNCHANGED <<pools, leaked>>
    ELSE /\ IF pools[t] = <<>>
            THEN /\ leaked' = [o \in Object |->
                                 leaked[o] + Cardinality({i \in DOMAIN s : s[i] = o})]
                 /\ UNCHANGED pools
            ELSE /\ pools' = [pools EXCEPT ![t][Len(pools[t])] = @ \o s]
                 /\ UNCHANGED leaked
         /\ UNCHANGED fault

Owned(o, later) == {e.owned : e \in {f \in owns : f.by = o /\ f.later = later}}

(* IOObject::release() of the next object; at zero free() releases what it *)
(* owns, and autoreleases the others.                                      *)
Frees(o) == rc[o] = 1

ReleaseNext(t) ==
    LET o == Head(todo[t]) IN
    /\ todo[t] # <<>>
    /\ rc' = [rc EXCEPT ![o] = @ - 1]
    /\ todo' = [todo EXCEPT ![t] =
                  (IF Frees(o) THEN SetToSeq(Owned(o, FALSE)) ELSE <<>>) \o Tail(@)]
    /\ Autoreleased(t, IF Frees(o) THEN SetToSeq(Owned(o, TRUE)) ELSE <<>>)
    /\ UNCHANGED <<owns, holds, at, assigned, seen, dict, drain>>

Idle(t) == at[t] = "running" /\ todo[t] = <<>> /\ drain[t] = NULL

Retain(t, o) ==
    /\ Idle(t)
    /\ holds[t][o] > 0 /\ rc[o] < MaxRefs
    /\ holds' = [holds EXCEPT ![t][o] = @ + 1]
    /\ rc' = [rc EXCEPT ![o] = @ + 1]
    /\ UNCHANGED <<owns, at, assigned, seen, dict, pools, todo, drain, leaked, fault>>

Release(t, o) ==
    /\ Idle(t)
    /\ holds[t][o] > 0
    /\ holds' = [holds EXCEPT ![t][o] = @ - 1]
    /\ todo' = [todo EXCEPT ![t] = <<o>>]
    /\ UNCHANGED <<owns, rc, at, assigned, seen, dict, pools, drain, leaked, fault>>

Autorelease(t, o) ==
    /\ Idle(t)
    /\ holds[t][o] > 0
    /\ holds' = [holds EXCEPT ![t][o] = @ - 1]
    /\ Autoreleased(t, <<o>>)
    /\ UNCHANGED <<owns, rc, at, assigned, seen, dict, todo, drain>>

(* One thread passes its reference on to another.                          *)
Pass(t, u, o) ==
    /\ Idle(t)
    /\ holds[t][o] > 0
    /\ holds' = [holds EXCEPT ![t][o] = @ - 1, ![u][o] = @ + 1]
    /\ UNCHANGED <<owns, rc, at, assigned, seen, dict, pools, todo, drain, leaked, fault>>

-----------------------------------------------------------------------------
(* IOAutoreleasePool::init(): without a current thread the owner is NULL   *)
(* and free() follows it.                                                  *)
NewPool(t) ==
    /\ Idle(t)
    /\ Len(pools[t]) < MaxPools
    /\ IF CurrentThread(t) = NULL
       THEN fault' = TRUE /\ UNCHANGED pools
       ELSE pools' = [pools EXCEPT ![t] = Append(@, <<>>)] /\ UNCHANGED fault
    /\ UNCHANGED <<owns, rc, holds, at, assigned, seen, dict, todo, drain, leaked>>

(* IOAutoreleasePool::free() of the top pool.  With a previous one, this   *)
(* becomes the top and gets what is autoreleased from now on; without, the *)
(* pool stays in place to catch it, until nothing more comes.              *)
BeginDrain(t) ==
    IF Len(pools[t]) = 1
    THEN /\ drain' = [drain EXCEPT ![t] = [rest |-> <<>>, last |-> TRUE]]
         /\ UNCHANGED pools
    ELSE /\ drain' = [drain EXCEPT ![t] = [rest |-> Last(pools[t]), last |-> FALSE]]
         /\ pools' = [pools EXCEPT ![t] = Front(@)]

FreePool(t) ==
    /\ Idle(t)
    /\ pools[t] # <<>>
    /\ BeginDrain(t)
    /\ UNCHANGED <<owns, rc, holds, at, assigned, seen, dict, todo, leaked, fault>>

(* Of another pool than the top: panic().                                  *)
FreeLowerPool(t) ==
    /\ Idle(t)
    /\ Len(pools[t]) > 1
    /\ fault' = TRUE
    /\ UNCHANGED <<owns, rc, holds, at, assigned, seen, dict, pools, todo, drain, leaked>>

DrainNext(t) ==
    /\ drain[t] # NULL /\ todo[t] = <<>>
    /\ drain[t].rest # <<>>
    /\ todo' = [todo EXCEPT ![t] = <<Head(drain[t].rest)>>]
    /\ drain' = [drain EXCEPT ![t].rest = Tail(@)]
    /\ UNCHANGED <<owns, rc, holds, at, assigned, seen, dict, pools, leaked, fault>>

(* A mutant: what was added while draining is forgotten. *)
CaughtNothing(t) == FALSE

(* while(_count)                                                           *)
CaughtMore(t) == drain[t].last /\ pools[t][1] # <<>>

Drained(t) ==
    /\ drain[t] # NULL /\ todo[t] = <<>>
    /\ drain[t].rest = <<>>
    /\ IF CaughtMore(t)
       THEN /\ drain' = [drain EXCEPT ![t].rest = pools[t][1]]
            /\ pools' = [pools EXCEPT ![t][1] = <<>>]
       ELSE /\ drain' = [drain EXCEPT ![t] = NULL]
            /\ pools' = IF drain[t].last THEN [pools EXCEPT ![t] = <<>>] ELSE pools
    /\ UNCHANGED <<owns, rc, holds, at, assigned, seen, dict, todo, leaked, fault>>

(* The end of threadEntry() and IOThread::free(): the thread is no longer  *)
(* the current one; its top pool is released, the pools below are not.     *)
EndThread(t) ==
    /\ Idle(t)
    /\ at' = [at EXCEPT ![t] = "ended"]
    /\ dict' = IF seen[t] = NULL THEN dict ELSE [dict EXCEPT ![seen[t]] = NULL]
    /\ IF pools[t] = <<>> THEN UNCHANGED <<pools, drain>> ELSE BeginDrain(t)
    /\ UNCHANGED <<owns, rc, holds, assigned, seen, todo, leaked, fault>>

Work(t) == ReleaseNext(t) \/ DrainNext(t) \/ Drained(t)

Next ==
    /\ ~fault
    /\ \E t \in Thread :
         \/ Detach(t) \/ Detached(t) \/ EnterThread(t) \/ RegisterThread(t) \/ EndThread(t)
         \/ NewPool(t) \/ FreePool(t) \/ FreeLowerPool(t)
         \/ Work(t)
         \/ \E o \in Object :
              \/ Retain(t, o) \/ Release(t, o) \/ Autorelease(t, o)
              \/ \E u \in Thread \ {t} : Pass(t, u, o)

Spec == Init /\ [][Next]_vars

(* Kernel threads are scheduled in turn.                                   *)
FairSpec == Spec /\ \A t \in Thread : WF_vars(~fault /\ Work(t))

-----------------------------------------------------------------------------
Times(s, o) == Cardinality({i \in DOMAIN s : s[i] = o})
InPools(t, o) == Times(FlattenSeq(pools[t]), o)
InDrain(t, o) == IF drain[t] = NULL THEN 0 ELSE Times(drain[t].rest, o)

(* The count of an object is the number of references to it: of threads,   *)
(* of objects that are not freed, of pools, and of the releases that are   *)
(* under way.  So no object is freed while one has it, however pools nest  *)
(* and free() of one object autoreleases another, and none is released     *)
(* twice or never, but those autoreleased with no pool.                    *)
CountsExact ==
    \A o \in Object :
      ~fault => rc[o] = leaked[o]
               + Cardinality({e \in owns : e.owned = o /\ rc[e.by] > 0})
               + FoldSet(LAMBDA t, n : n + holds[t][o] + InPools(t, o) + InDrain(t, o)
                                         + Times(todo[t], o), 0, Thread)

(* A thread that runs is the current thread to itself, and only it is,     *)
(* unless it read its id before detach() assigned it.                      *)
ThreadsKnown ==
    \A t \in Thread :
      /\ at[t] = "running" /\ seen[t] # NULL => CurrentThread(t) = t
      /\ dict[t] \in {NULL, t}

(* A pool that is freed is empty in the end, although what it releases may *)
(* put more into it.                                                       *)
PoolsDrain == \A t \in Thread : drain[t] # NULL ~> (drain[t] = NULL \/ fault)

=============================================================================
