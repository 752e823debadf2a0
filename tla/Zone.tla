-------------------------------- MODULE Zone --------------------------------
(***************************************************************************)
(* The allocator of the C library: lib/libc/sys/zone.c and malloc.c.       *)
(*                                                                         *)
(* zone.c is the kernel's heap.c built for user space, on mmap() and       *)
(* munmap() and with assert() defined away, so what it does to one zone is *)
(* an operator of Heap.  Threads of a process are preempted everywhere;    *)
(* _zone_alloc(), _zone_free() and __heap_sizeForPointer() hold heap->lock *)
(* and are one step each, realloc() is a step for each of its calls.       *)
(***************************************************************************)
EXTENDS Integers, Sequences, FiniteSetsExt, SequencesExt

CONSTANTS
    Thread,
    MaxBlocks,  \* bound: blocks the program owns at one time
    Size, TinyMax, SmallMax, MediumMax, SmallPages, MediumPages, PageSize,
    ChunkMax, Extra, Align, Entries, MaxAllocations, Threshold, SizeT, Base

VARIABLES
    created,  \* __malloc_zone is set
    zones,    \* the list from __malloc_zone->firstZone
    live,     \* the blocks the program owns, with what it wrote to them
    mem,      \* what the bytes of the mapped zones hold
    call,     \* per thread: the realloc() it is in
    crashed   \* the process followed MAP_FAILED or NULL

vars == <<created, zones, live, mem, call, crashed>>

H == INSTANCE Heap WITH panicked <- crashed

Idle == [step |-> "none"]
Nothing == [pointer |-> 0, size |-> 0, holds |-> 0]
Address == UNION {b..b + H!LargestZone - 1 : b \in Base}

Init ==
    /\ created = FALSE
    /\ zones = <<>>
    /\ live = {}
    /\ mem = [a \in Address |-> 0]
    /\ call = [t \in Thread |-> Idle]
    /\ crashed = FALSE

Holds(pointer, n, value) ==
    [a \in Address |-> IF a \in H!Span(pointer, n) THEN value ELSE mem[a]]

(* __heap_createZoneForSize(), of memory that mmap() has mapped at base.   *)
CreateZoneForSize(size, base) == H!CreateZone(size, base)

(* __heap_zoneForSize(): the zone it finds, 0 if it has to create one.     *)
ZoneForSize(size) ==
    LET usable == {z \in 1..Len(zones) : H!Usable(zones[z], size)} IN
    IF usable = {} THEN 0 ELSE Min(usable)

(* __heap_useAllocation() of the first entry that fits.                    *)
FirstFit(zone, size) == Min({k \in 1..Entries : H!Fits(zone.table[k], size)})
HeapUseAllocation(zone, k, size) == H!UseAllocation(zone, k, size)

(* _zone_alloc(): [zones, pointer] for each outcome, none without memory.  *)
ZoneAlloc(size) ==
    LET z == ZoneForSize(size) IN
    IF z # 0
    THEN LET k == FirstFit(zones[z], size) IN
         {[zones |-> [zones EXCEPT ![z] = HeapUseAllocation(@, k, size)],
           pointer |-> zones[z].table[k].pointer]}
    ELSE {[zones |-> <<HeapUseAllocation(CreateZoneForSize(size, b), 1, size)>> \o zones,
           pointer |-> b] : b \in H!Vacant}

(* __heap_findZoneWithAllocation() and                                     *)
(* __heap_zoneFindAllocationWithPointer().                                 *)
FindZoneWithAllocation(pointer) ==
    {z \in 1..Len(zones) : H!HasPointer(zones[z], pointer)
                           /\ H!UsedAt(zones[z], pointer) # {}}

(* __heap_sizeForPointer(): the bytes of the entry, not those asked for.   *)
SizeForPointer(pointer) ==
    LET found == FindZoneWithAllocation(pointer) IN
    IF found = {} THEN 0
    ELSE zones[Min(found)].table[Min(H!UsedAt(zones[Min(found)], pointer))].size

HeapFreeAllocation(zone, k) == H!FreeAllocation(zone, k)
HeapZoneDefragment(zone) == H!Defragment(zone)
HeapDestroyZone(z) == RemoveAt(zones, z)

(* _zone_free(): the zones after it, for a pointer that is found.          *)
ZoneFree(pointer) ==
    LET z == Min(FindZoneWithAllocation(pointer)) IN
    IF H!IsLast(zones[z]) THEN HeapDestroyZone(z)
    ELSE [zones EXCEPT ![z] =
            HeapZoneDefragment(HeapFreeAllocation(@, Min(H!UsedAt(@, pointer))))]

Ready(t) == ~crashed /\ call[t] = Idle
Owned == Cardinality(live) + Cardinality({t \in Thread : call[t] # Idle})

-----------------------------------------------------------------------------
(* _malloc_getZone() of the first call, under its own lock.                *)
GetZone(t) ==
    /\ Ready(t)
    /\ ~created
    /\ created' = TRUE
    /\ UNCHANGED <<zones, live, mem, call, crashed>>

(* malloc() and calloc(); the program fills the block, with zeroes first   *)
(* in calloc().                                                            *)
Malloc(t, size) ==
    /\ Ready(t) /\ created
    /\ Owned < MaxBlocks
    /\ \E a \in ZoneAlloc(size) :
         /\ zones' = a.zones
         /\ live' = live \cup {[pointer |-> a.pointer, size |-> size, holds |-> t]}
         /\ mem' = Holds(a.pointer, size, t)
    /\ UNCHANGED <<created, call, crashed>>

(* mmap() fails: the assertion is not there, and MAP_FAILED is written to. *)
MallocFails(t, size) ==
    /\ Ready(t) /\ created
    /\ ZoneAlloc(size) = {}
    /\ crashed' = TRUE
    /\ UNCHANGED <<created, zones, live, mem, call>>

(* Nobody relies on what freed bytes hold, so they are set to zero.        *)
Free(t, b) ==
    /\ Ready(t) /\ created
    /\ live' = live \ {b}
    /\ crashed' = (FindZoneWithAllocation(b.pointer) = {})
    /\ zones' = IF crashed' THEN zones ELSE ZoneFree(b.pointer)
    /\ mem' = Holds(b.pointer, b.size, 0)
    /\ UNCHANGED <<created, call>>

(* realloc() of a block that is the caller's own, or of NULL.              *)
ReallocSize(t, b, size) ==
    /\ Ready(t) /\ created
    /\ b \in live \/ Owned < MaxBlocks
    /\ live' = live \ {b}
    /\ call' = [call EXCEPT ![t] = [step |-> "alloc", old |-> b, size |-> size,
                                    oldSize |-> SizeForPointer(b.pointer)]]
    /\ UNCHANGED <<created, zones, mem, crashed>>

ReallocAlloc(t) ==
    LET c == call[t] IN
    /\ ~crashed /\ c.step = "alloc"
    /\ c.oldSize > 0
    /\ \E a \in ZoneAlloc(c.size) :
         /\ zones' = a.zones
         /\ call' = [call EXCEPT ![t] = [step |-> "copy", old |-> c.old, size |-> c.size,
                                         oldSize |-> c.oldSize, new |-> a.pointer]]
    /\ UNCHANGED <<created, live, mem, crashed>>

ReallocAllocFails(t) ==
    /\ ~crashed /\ call[t].step = "alloc"
    /\ call[t].oldSize > 0
    /\ ZoneAlloc(call[t].size) = {}
    /\ crashed' = TRUE
    /\ UNCHANGED <<created, zones, live, mem, call>>

(* realloc() of what the allocator does not know, NULL too, returns NULL.  *)
ReallocUnknown(t) ==
    /\ ~crashed /\ call[t].step = "alloc"
    /\ call[t].oldSize = 0
    /\ call' = [call EXCEPT ![t] = Idle]
    /\ UNCHANGED <<created, zones, live, mem, crashed>>

(* A mutant: the length of the old block, even if the new one is shorter. *)
CopyLengthOld(c) == c.oldSize

CopyLength(c) == Min({c.size, c.oldSize})

ReallocCopy(t) ==
    LET c == call[t] IN
    /\ ~crashed /\ c.step = "copy"
    /\ mem' = [a \in Address |-> IF a \in H!Span(c.new, CopyLength(c))
                                 THEN mem[c.old.pointer + a - c.new] ELSE mem[a]]
    /\ call' = [call EXCEPT ![t].step = "free"]
    /\ UNCHANGED <<created, zones, live, crashed>>

(* The old block is freed, and the program fills what the block has grown. *)
ReallocFree(t) ==
    LET c == call[t]
        kept == Min({c.size, c.old.size})
    IN
    /\ ~crashed /\ c.step = "free"
    /\ zones' = ZoneFree(c.old.pointer)
    /\ live' = live \cup {[pointer |-> c.new, size |-> c.size, holds |-> c.old.holds]}
    /\ mem' = [a \in Address |->
                 CASE a \in H!Span(c.new + kept, c.size - kept) -> c.old.holds
                   [] a \in H!Span(c.old.pointer, c.old.size) -> 0
                   [] OTHER -> mem[a]]
    /\ call' = [call EXCEPT ![t] = Idle]
    /\ UNCHANGED <<created, crashed>>

Halted == crashed /\ UNCHANGED vars

Next ==
    \/ \E t \in Thread :
         \/ GetZone(t)
         \/ \E s \in Size : Malloc(t, s) \/ MallocFails(t, s)
         \/ \E b \in live : Free(t, b)
         \/ \E b \in live \cup {Nothing}, s \in Size : ReallocSize(t, b, s)
         \/ ReallocAlloc(t) \/ ReallocAllocFails(t) \/ ReallocUnknown(t)
         \/ ReallocCopy(t) \/ ReallocFree(t)
    \/ Halted

Spec == Init /\ [][Next]_vars

-----------------------------------------------------------------------------
(* What the program wrote to a block is there until it frees the block,    *)
(* whatever other threads allocate, free and move meanwhile, and realloc() *)
(* carries it along; and the allocator knows every block it gave away, so  *)
(* that the process only dies of a lack of memory.                         *)
BlocksKeepContents ==
    /\ \A b \in live : \A a \in H!Span(b.pointer, b.size) : mem[a] = b.holds
    /\ \A b \in live : FindZoneWithAllocation(b.pointer) # {}
    /\ \A t \in Thread : call[t].step = "alloc" => call[t].oldSize >= call[t].old.size
    /\ crashed => H!Vacant = {}

=============================================================================
