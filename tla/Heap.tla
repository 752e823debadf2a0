--------------------------------- MODULE Heap ---------------------------------
(***************************************************************************)
(* sys/memory/heap.c: the kernel heap.  A zone is a run of pages with, in  *)
(* its first page, a table of entries that cut the rest into allocations.  *)
(* halloc() and hfree() hold heap->lock from beginning to end and nothing  *)
(* else touches the zones, so each is one action.  The sizes of the code   *)
(* are constants, so that a small instance has all of its cases.           *)
(***************************************************************************)
EXTENDS Integers, Sequences, FiniteSets, FiniteSetsExt, SequencesExt

CONSTANTS
    Size,        \* the sizes that are asked for
    TinyMax,     \* 64, 256, 2048: the limits of __heap_zoneTypeForSize()
    SmallMax,
    MediumMax,
    SmallPages,  \* 5
    MediumPages, \* 20
    PageSize,    \* VM_PAGE_SIZE
    ChunkMax,    \* UINT8_MAX, the largest tiny allocation
    Extra,       \* kHeapAllocationExtraPadding
    Align,       \* 4: the padding is size % 4
    Entries,     \* the entries between firstAllocation and lastAllocation
    MaxAllocations,
    Threshold,   \* the changeThreshold of __heap_zoneDefragment()
    SizeT,       \* 2^32: size_t and uint32_t are numbers modulo SizeT
    Base         \* where mm_alloc() may map a zone

Required(size) == size + (size % Align) + Extra

PageCount(size) == (size + PageSize - 1) \div PageSize

ZoneTypeForSize(size) ==
    CASE size > MediumMax -> "large"
      [] size <= MediumMax /\ size > SmallMax -> "medium"
      [] size <= SmallMax /\ size > TinyMax -> "small"
      [] size <= TinyMax -> "tiny"

PagesForSize(size) ==
    LET type == ZoneTypeForSize(size)
    IN CASE type = "tiny"   -> 1
         [] type = "small"  -> SmallPages
         [] type = "medium" -> MediumPages
         [] type = "large"  -> PageCount(size)

LargestZone == Max({PagesForSize(s) * PageSize : s \in Size})

HeapAssumption ==
    /\ Size \subseteq Nat \ {0}
    /\ \A s \in Size : s <= TinyMax => Required(s) <= ChunkMax
    /\ \A s \in Size : s <= MediumMax => Required(s) <= PagesForSize(s) * PageSize
    /\ PageSize <= Entries * ChunkMax
    /\ Entries <= MaxAllocations
    /\ \A a, b \in Base : a # b => a - b >= LargestZone \/ b - a >= LargestZone

VARIABLES
    zones,    \* the list that starts at heap->firstZone
    live,     \* the blocks halloc() has returned and hfree() has not got back
    panicked  \* an assert() or panic() has stopped the kernel

vars == <<zones, live, panicked>>

Init ==
    /\ zones = <<>>
    /\ live = {}
    /\ panicked = FALSE

Entry(type, size, pointer) == [type |-> type, size |-> size, pointer |-> pointer]

Unused == Entry("unused", 0, 0)

(* A tiny zone starts as chunks of ChunkMax bytes, the others as one.      *)
FirstChunks(type, begin, bytes) ==
    LET chunk == IF type = "tiny" THEN ChunkMax ELSE bytes
    IN [k \in 1..Entries |->
          IF (k - 1) * chunk < bytes
          THEN Entry("free", Min({chunk, bytes - (k - 1) * chunk}), begin + (k - 1) * chunk)
          ELSE Unused]

(* __heap_createZoneForSize() *)
CreateZone(size, base) ==
    LET type  == ZoneTypeForSize(size)
        bytes == PagesForSize(size) * PageSize
        table == FirstChunks(type, base, bytes)
        n     == Cardinality({k \in 1..Entries : table[k].type = "free"})
    IN [type |-> type, begin |-> base, end |-> base + bytes, freeSize |-> bytes,
        allocations |-> n, freeAllocations |-> n, changes |-> 0, table |-> table]

EntriesWith(zone, P(_)) == {k \in 1..Entries : P(zone.table[k])}

UnusedEntries(zone) == EntriesWith(zone, LAMBDA e : e.type = "unused")

Fits(entry, size) == entry.type = "free" /\ entry.size >= Required(size)

(* the search of __heap_zoneForSize() in one zone *)
Usable(zone, size) ==
    /\ zone.type = ZoneTypeForSize(size)
    /\ zone.type # "large"
    /\ zone.freeSize >= size
    /\ zone.allocations < MaxAllocations
    /\ \E k \in 1..Entries : Fits(zone.table[k], size)

(* A mutant: the rest keeps the size of the whole entry. *)
RestWhole(entry, size) == Entry("free", entry.size, entry.pointer + Required(size))

Rest(entry, size) ==
    Entry("free", entry.size - Required(size), entry.pointer + Required(size))

(* A mutant: an entry is counted without a split. *)
AddedAlways(split) == 1
(* A mutant: an entry is not counted after a split. *)
AddedNever(split) == 0

Added(split) == IF split THEN 1 ELSE 0

(* __heap_useAllocation(): take entry k, and give what it has too much to  *)
(* the first unused entry, if there is one.                                *)
UseAllocation(zone, k, size) ==
    LET entry  == zone.table[k]
        spare  == UnusedEntries(zone)
        split  == entry.size > Required(size) /\ spare # {}
    IN [zone EXCEPT
          !.table = IF split
                    THEN [@ EXCEPT ![k] = Entry("used", Required(size), entry.pointer),
                                   ![Min(spare)] = Rest(entry, size)]
                    ELSE [@ EXCEPT ![k].type = "used"],
          !.allocations = @ + Added(split),
          !.freeAllocations = @ + Added(split) - 1]

(* halloc() in the first zone of the list that has room *)
HallocInZone(size) ==
    \E z \in 1..Len(zones) :
        /\ Usable(zones[z], size)
        /\ \A y \in 1..z - 1 : ~ Usable(zones[y], size)
        /\ LET k == Min(EntriesWith(zones[z], LAMBDA e : Fits(e, size)))
           IN /\ zones' = [zones EXCEPT ![z] = UseAllocation(@, k, size)]
              /\ live' = live \cup {[pointer |-> zones[z].table[k].pointer, size |-> size]}
        /\ UNCHANGED panicked

NoZoneFor(size) == \A z \in 1..Len(zones) : ~ Usable(zones[z], size)

Vacant == {b \in Base : \A z \in 1..Len(zones) : zones[z].begin # b}

(* halloc() in a fresh zone, which becomes the first of the list *)
HallocInNewZone(size) ==
    /\ NoZoneFor(size)
    /\ \E b \in Vacant :
          /\ zones' = <<UseAllocation(CreateZone(size, b), 1, size)>> \o zones
          /\ live' = live \cup {[pointer |-> b, size |-> size]}
    /\ UNCHANGED panicked

(* halloc() without memory for the zone: assert(zone) *)
HallocFails(size) ==
    /\ NoZoneFor(size)
    /\ Vacant = {}
    /\ panicked' = TRUE
    /\ UNCHANGED <<zones, live>>

(* A mutant: the first block of a zone is not found. *)
HasPointerAfter(zone, pointer) == zone.begin < pointer /\ pointer < zone.end

(* __heap_findZoneWithAllocation() *)
HasPointer(zone, pointer) == zone.begin <= pointer /\ pointer < zone.end

UsedAt(zone, pointer) ==
    EntriesWith(zone, LAMBDA e : e.pointer = pointer /\ e.type = "used")

(* __heap_freeAllocation() *)
FreeAllocation(zone, k) ==
    [zone EXCEPT !.table[k].type = "free",
                 !.freeSize = (@ + zone.table[k].size) % SizeT,
                 !.freeAllocations = @ + 1,
                 !.changes = (@ + 1) % SizeT]

(* __heap_zoneDefragment().  The search for the neighbour of a free entry  *)
(* returns used entries only, and the loop stops at a neighbour that is    *)
(* not free: no entries are ever joined, and the reset is all that is left *)
Defragment(zone) ==
    IF zone.changes >= Threshold /\ zone.freeAllocations >= 2
    THEN [zone EXCEPT !.changes = 0]
    ELSE zone

(* the last used entry of a zone: the zone is unlinked and unmapped *)
DestroyZone(z) == zones' = RemoveAt(zones, z)

(* A mutant: a zone goes with its last block but one. *)
IsLastButOne(zone) == zone.allocations <= zone.freeAllocations + 2
(* A mutant: a zone stays when its last block goes. *)
IsLastNever(zone) == zone.allocations = zone.freeAllocations

IsLast(zone) == zone.allocations = zone.freeAllocations + 1

(* hfree() of a block that halloc() has returned *)
Hfree(block) ==
    LET z == Min({y \in 1..Len(zones) : HasPointer(zones[y], block.pointer)} \cup {Len(zones) + 1})
        k == IF z > Len(zones) THEN {} ELSE UsedAt(zones[z], block.pointer)
    IN /\ live' = live \ {block}
       /\ panicked' = (k = {})
       /\ IF k = {} THEN UNCHANGED zones
          ELSE IF IsLast(zones[z]) THEN DestroyZone(z)
          ELSE zones' = [zones EXCEPT ![z] = Defragment(FreeAllocation(@, Min(k)))]

Halted == panicked /\ UNCHANGED vars

Next ==
    \/ /\ ~ panicked
       /\ \/ \E s \in Size : HallocInZone(s) \/ HallocInNewZone(s) \/ HallocFails(s)
          \/ \E b \in live : Hfree(b)
    \/ Halted

Spec == Init /\ [][Next]_vars

-----------------------------------------------------------------------------
ZoneIndex == 1..Len(zones)

Taken(entry) == entry.type # "unused"

EntryOK(e) ==
    /\ e.type \in {"free", "used", "unused"}
    /\ e.size \in Nat
    /\ e.pointer \in Nat

(* The counters of a zone stay within its table, and its entries within    *)
(* the zone.                                                               *)
TypeOK ==
    /\ panicked \in BOOLEAN
    /\ \A b \in live : b.size \in Size /\ b.pointer \in Nat
    /\ \A z \in ZoneIndex :
          /\ zones[z].type \in {"tiny", "small", "medium", "large"}
          /\ zones[z].begin \in Base
          /\ zones[z].freeSize \in 0..SizeT - 1
          /\ zones[z].changes \in 0..SizeT - 1
          /\ zones[z].allocations \in 1..Entries
          /\ zones[z].freeAllocations \in 0..Entries
          /\ \A k \in 1..Entries : EntryOK(zones[z].table[k])

Span(pointer, size) == pointer..pointer + size - 1

(* Every block that is out lies whole in the used entry it was cut from:   *)
(* no two of them share a byte, and none is in a zone that was unmapped.   *)
LiveBlocksIntact ==
    \A b \in live :
        /\ \E z \in ZoneIndex, k \in 1..Entries :
              /\ zones[z].table[k].type = "used"
              /\ zones[z].table[k].pointer = b.pointer
              /\ b.size <= zones[z].table[k].size
        /\ \A c \in live \ {b} : Span(b.pointer, b.size) \cap Span(c.pointer, c.size) = {}

(* The entries in use tile the zone: splitting one loses and repeats no    *)
(* byte.                                                                   *)
EntriesTileZone ==
    \A z \in ZoneIndex :
        LET table == zones[z].table
            taken == EntriesWith(zones[z], Taken)
        IN /\ UNION {Span(table[k].pointer, table[k].size) : k \in taken}
                = Span(zones[z].begin, zones[z].end - zones[z].begin)
           /\ \A k, m \in taken :
                 k # m => Span(table[k].pointer, table[k].size)
                            \cap Span(table[m].pointer, table[m].size) = {}

(* allocations and freeAllocations count the entries, so that hfree()      *)
(* destroys a zone exactly when its last used entry goes.                  *)
CountersExact ==
    \A z \in ZoneIndex :
        /\ zones[z].allocations = Cardinality(EntriesWith(zones[z], Taken))
        /\ zones[z].freeAllocations
             = Cardinality(EntriesWith(zones[z], LAMBDA e : e.type = "free"))

(* A zone without a block that is out is not kept.                         *)
NoIdleZone ==
    \A z \in ZoneIndex :
        \E b \in live : zones[z].begin <= b.pointer /\ b.pointer < zones[z].end

(* hfree() of a block that halloc() returned never panics: only running    *)
(* out of memory stops the kernel here.                                    *)
FreeFindsBlock == panicked => Vacant = {}
=============================================================================
