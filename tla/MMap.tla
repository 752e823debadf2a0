-------------------------------- MODULE MMap --------------------------------
(***************************************************************************)
(* The memory mappings of processes: mmap(), munmap() and mprotect() of    *)
(* sys/syscall/scmmap.c, and what process_fork() and process_destroy() do  *)
(* with them.  The calls run under the lock of the list of mappings.       *)
(*                                                                         *)
(* Addresses and lengths are in pages.  Physical pages and the pages of an *)
(* address space are numbers of one set, for munmap() takes one for the    *)
(* other; the memory of the machine is 1..Frames.                          *)
(***************************************************************************)
EXTENDS Integers, Sequences, FiniteSetsExt

CONSTANTS
    Process,
    Description,  \* the mmap_description_t that may be allocated
    Frames,       \* physical pages of the machine
    Tables,       \* VM_DIRECTORY_LENGTH
    TableLength,  \* VM_PAGETABLE_LENGTH
    Hints,        \* the addresses passed to mmap()
    MaxLength,    \* bound: pages of one mapping
    MaxCalls,     \* bound: system calls
    NULL

MMapAssumption ==
    /\ Tables \in Nat \ {0} /\ TableLength \in Nat \ {0}
    /\ Frames \in 0..Tables * TableLength - 1
    /\ MaxLength \in Nat \ {0}
    /\ Hints \subseteq 1..Tables * TableLength - 1

VARIABLES
    alive,     \* the processes
    mappings,  \* per process: process->mappings
    held,      \* the processes whose list stays locked
    desc,      \* the descriptions, NULL where there is none
    tables,    \* per process: the page tables that are present
    map,       \* per process and page: the physical page and its protection
    free,      \* the physical pages that are free
    stray,     \* a munmap() freed physical pages that were not the mapping's
    overlaid,  \* a mmap() took pages that were mapped
    calls,     \* system calls so far
    broken     \* a length fell below zero, or a pointer leads nowhere

vars == <<alive, mappings, held, desc, tables, map, free, stray, overlaid, calls, broken>>

Pages == Tables * TableLength - 1
Page == 1..Pages
Protection == {"r", "rw"}
Run(p, n) == p..p + n - 1

(* sys/container/list.c.                                                   *)
L == INSTANCE List WITH Entry <- Description, list <- NULL, order <- <<>>, lost <- FALSE

(* list_remove(): list_removeSoft(), and the entry is freed.               *)
ListRemove(l, d) ==
    LET r == L!RemoveSoft(l, d) IN
    [r EXCEPT !.next = [@ EXCEPT ![d] = NULL], !.prev = [@ EXCEPT ![d] = NULL]]

Init ==
    /\ alive = {CHOOSE p \in Process : TRUE}
    /\ mappings = [p \in Process |-> L!Empty]
    /\ held = {}
    /\ desc = [d \in Description |-> NULL]
    /\ tables = [p \in Process |-> {}]
    /\ map = [p \in Process |-> [v \in Page |-> NULL]]
    /\ free = 1..Frames
    /\ stray = FALSE /\ overlaid = FALSE /\ calls = 0 /\ broken = FALSE

FirstRun(S, n) ==
    LET starts == {p \in S : Run(p, n) \subseteq S} IN
    IF starts = {} THEN 0 ELSE Min(starts)

(* vm_alloc() and vm_allocLimit() of a process: the search of vmemory.c,   *)
(* in the directory of the process.                                        *)
VM == INSTANCE VMemory WITH
    Thread <- {}, Frame <- {}, Cleared <- TableLength, KernelPages <- {}, Trampoline <- 0,
    TrampolinePages <- 0, StackLimit <- 1, MaxPages <- MaxLength, MaxGiven <- 0,
    present <- tables, created <- TRUE, lock <- NULL, call <- <<>>, given <- {},
    raced <- FALSE, covered <- {}, panicked <- FALSE

FreePages(p, n, limit) == VM!FindFreePages({p}, n, limit, Pages)

(* The description that list_addBack() allocates.                          *)
Spare == CHOOSE d \in Description : desc[d] = NULL
HasSpare(n) == Cardinality({d \in Description : desc[d] = NULL}) >= n

Zeroed == [process |-> NULL, vaddress |-> 0, paddress |-> 0, length |-> 0, protection |-> "r",
           next |-> NULL, prev |-> NULL]

(* The system calls of a process that nobody left waiting for its list.    *)
MayCall(p) == p \in alive /\ p \notin held

Mapped(p, d) ==
    [v \in Page |-> IF v \in Run(d.vaddress, d.length)
                    THEN [frame |-> d.paddress + v - d.vaddress, protection |-> d.protection]
                    ELSE map[p][v]]

Cleared(p, d) == [v \in Page |-> IF v \in Run(d.vaddress, d.length) THEN NULL ELSE map[p][v]]

-----------------------------------------------------------------------------
(* _sc_mmap() of anonymous private memory.  A length or an address that is *)
(* not aligned is refused with the description already in the list.        *)
MmapMisaligned(p) ==
    /\ MayCall(p)
    /\ HasSpare(1)
    /\ mappings' = [mappings EXCEPT ![p] = L!InsertBack(@, Spare)]
    /\ desc' = [desc EXCEPT ![Spare] = [Zeroed EXCEPT !.process = p]]
    /\ UNCHANGED <<alive, held, tables, map, free, stray, overlaid, broken>>

(* A failed mmap(), by its flags or for want of memory, removes the        *)
(* description again.                                                      *)
MmapFailed(p) ==
    /\ MayCall(p)
    /\ HasSpare(1)
    /\ mappings' = [mappings EXCEPT ![p] = ListRemove(L!InsertBack(@, Spare), Spare)]
    /\ UNCHANGED <<alive, held, desc, tables, map, free, stray, overlaid, broken>>

(* Where the search of mmap() begins: at the address it is given, and at   *)
(* the lower limit if there are no pages behind that.                      *)
Limit(p, n, address) ==
    IF address # 0 /\ FreePages(p, n, address) # 0 THEN address ELSE VM!LowerLimit

WithTables(p, page, n) == [tables EXCEPT ![p] = @ \cup {VM!TableOf(v) : v \in Run(page, n)}]

(* The search began inside an absent table and took pages that were not    *)
(* free.                                                                   *)
Overlays(p, n, limit, page) ==
    /\ VM!Midway({p}, n, limit)
    /\ \E v \in Run(page, n) : map[p][v] # NULL

Mmap(p) ==
    \E n \in 1..MaxLength, prot \in Protection, address \in {0} \cup Hints :
      LET frame == FirstRun(free, n)
          limit == Limit(p, n, address)
          page == FreePages(p, n, limit)
          new == [Zeroed EXCEPT !.process = p, !.length = n, !.protection = prot,
                                !.vaddress = page, !.paddress = frame]
      IN
      /\ MayCall(p)
      /\ HasSpare(1)
      /\ frame # 0 /\ page # 0
      /\ mappings' = [mappings EXCEPT ![p] = L!InsertBack(@, Spare)]
      /\ desc' = [desc EXCEPT ![Spare] = new]
      /\ tables' = WithTables(p, page, n)
      /\ map' = [map EXCEPT ![p] = Mapped(p, new)]
      /\ free' = free \ Run(frame, n)
      /\ overlaid' = Overlays(p, n, limit, page)
      /\ UNCHANGED <<alive, held, stray, broken>>

(* The kernel has no room to clear the memory: what mmap() mapped is       *)
(* unmapped again.                                                         *)
MmapUndone(p) ==
    \E n \in 1..MaxLength, address \in {0} \cup Hints :
      LET limit == Limit(p, n, address)
          page == FreePages(p, n, limit)
      IN
      /\ MayCall(p)
      /\ HasSpare(1)
      /\ FirstRun(free, n) # 0 /\ page # 0
      /\ mappings' = [mappings EXCEPT ![p] = ListRemove(L!InsertBack(@, Spare), Spare)]
      /\ tables' = WithTables(p, page, n)
      /\ map' = [map EXCEPT ![p] = Cleared(p, [vaddress |-> page, length |-> n])]
      /\ overlaid' = Overlays(p, n, limit, page)
      /\ UNCHANGED <<alive, held, desc, free, stray, broken>>

-----------------------------------------------------------------------------
(* A mutant: the rest keeps the physical address of the whole. *)
SplitSameAddress(s, d, n) ==
    LET old == s.desc[d]
        new == CHOOSE e \in Description : s.desc[e] = NULL
    IN
    IF old.length = n THEN s
    ELSE [desc |-> [s.desc EXCEPT
                      ![new] = [old EXCEPT !.vaddress = @ + n, !.length = @ - n, !.prev = NULL],
                      ![d].length = n, ![d].next = new],
          list |-> L!InsertBack(s.list, new)]

(* mmap_splitDescription() of description d at its start, on a state       *)
(* [desc, list]: the rest of the mapping becomes the next fragment.  The   *)
(* other two cases of the function need an address above the start, which  *)
(* its callers never pass; one below the start wraps a length.             *)
Split(s, d, n) ==
    LET old == s.desc[d]
        new == CHOOSE e \in Description : s.desc[e] = NULL
    IN
    IF old.length = n THEN s
    ELSE [desc |-> [s.desc EXCEPT
                      ![new] = [old EXCEPT !.vaddress = @ + n, !.paddress = @ + n,
                                           !.length = @ - n, !.prev = NULL],
                      ![d].length = n, ![d].next = new],
          list |-> L!InsertBack(s.list, new)]

(* mmap_joinDescription() of d with the fragment behind it.                *)
Join(s, d) ==
    LET joined == s.desc[d].next IN
    [desc |-> [s.desc EXCEPT ![d].next = s.desc[joined].next,
                             ![d].length = @ + s.desc[joined].length,
                             ![joined] = NULL],
     list |-> ListRemove(s.list, joined)]

(* The fragments behind d up to the one that holds the last of the pages   *)
(* that are left.                                                          *)
Fragments(d, left) ==
    LET walk[i \in 0..Cardinality(Description)] ==
          IF i = 0 THEN [at |-> desc[d].next, left |-> left, steps |-> 1]
          ELSE LET w == walk[i - 1] IN
               IF w.at = NULL THEN w
               ELSE IF w.left <= desc[w.at].length THEN w
               ELSE [at |-> desc[w.at].next, left |-> w.left - desc[w.at].length,
                     steps |-> w.steps + 1]
    IN  walk[Cardinality(Description)]

(* mmap_tryJoinFragments(): the last fragment is split behind as many      *)
(* pages as are too many, not behind those that are needed.                *)
TryJoin(s, d, left) ==
    LET f == Fragments(d, left)
        overflow == desc[f.at].length - f.left
        start == IF overflow > 0 THEN Split(s, f.at, overflow) ELSE s
        join[i \in 0..f.steps] == IF i = 0 THEN start ELSE Join(join[i - 1], d)
    IN  join[f.steps]

(* The search of _sc_munmap() and _sc_mprotect() follows the fragments of  *)
(* the first mapping.                                                      *)
Matches(d, address) == desc[d].vaddress >= address

Searched(p) ==
    LET first == mappings[p].first
        walk[i \in 1..Cardinality(Description)] ==
          IF i = 1 THEN first
          ELSE IF walk[i - 1] = NULL THEN NULL ELSE desc[walk[i - 1]].next
    IN  [i \in 1..Cardinality(Description) |-> walk[i]]

Found(p, address) ==
    LET searched == Searched(p)
        at == {i \in DOMAIN searched : searched[i] # NULL /\ Matches(searched[i], address)}
    IN  IF at = {} THEN NULL ELSE searched[Min(at)]

(* The pages of [address, address + n) that lie behind description d.      *)
Beyond(d, address, n) == address + n - (desc[d].vaddress + desc[d].length)

(* The call has to join fragments to description d, and they do not reach. *)
TooShort(d, address, n) ==
    Beyond(d, address, n) > 0 /\ Fragments(d, Beyond(d, address, n)).at = NULL

(* The descriptions and the list after the fragments are joined.           *)
Joined(p, d, address, n) ==
    LET s == [desc |-> desc, list |-> mappings[p]] IN
    IF Beyond(d, address, n) > 0 THEN TryJoin(s, d, Beyond(d, address, n)) ELSE s

(* The description is cut in two without a length that wraps around, and   *)
(* splits and joins find the list, which the copy of a fork does not know. *)
CanCut(p, d, address, n) ==
    LET j == Joined(p, d, address, n).desc[d] IN
    /\ j.length = n \/ (j.vaddress = address /\ j.length > n)
    /\ Beyond(d, address, n) > 0 \/ j.length # n => desc[d].process # NULL

Cut(p, d, address, n) == Split(Joined(p, d, address, n), d, n)

(* What munmap() and mprotect() of n pages at address do before they       *)
(* differ: EINVAL without a match; the list stays locked if the fragments  *)
(* do not reach far enough; the third ends in a length below zero or a     *)
(* NULL pointer.                                                           *)
NotFound(p) ==
    /\ MayCall(p)
    /\ \E address \in Page : Found(p, address) = NULL
    /\ UNCHANGED <<alive, mappings, held, desc, tables, map, free, stray, overlaid, broken>>

StaysLocked(p) ==
    \E address \in Page, n \in 1..MaxLength :
      LET d == Found(p, address) IN
      /\ MayCall(p)
      /\ d # NULL
      /\ TooShort(d, address, n)
      /\ held' = held \cup {p}
      /\ UNCHANGED <<alive, mappings, desc, tables, map, free, stray, overlaid, broken>>

Breaks(p) ==
    \E address \in Page, n \in 1..MaxLength :
      LET d == Found(p, address) IN
      /\ MayCall(p)
      /\ d # NULL
      /\ HasSpare(2)
      /\ ~TooShort(d, address, n)
      /\ ~CanCut(p, d, address, n)
      /\ broken' = TRUE
      /\ UNCHANGED <<alive, mappings, held, desc, tables, map, free, stray, overlaid>>

(* A description that was freed is still the next fragment of another.     *)
Dangling(descriptions) ==
    \E e \in Description :
       /\ descriptions[e] # NULL
       /\ descriptions[e].next # NULL
       /\ descriptions[descriptions[e].next] = NULL

(* _sc_munmap(): the physical pages that are freed have the numbers of the *)
(* pages that were mapped.                                                 *)
FreedFrames(d) == Run(d.vaddress, d.length)

Munmap(p) ==
    \E address \in Page, n \in 1..MaxLength :
      LET d == Found(p, address)
          s == Cut(p, d, address, n)
      IN
      /\ MayCall(p)
      /\ d # NULL
      /\ HasSpare(2)
      /\ ~TooShort(d, address, n)
      /\ CanCut(p, d, address, n)
      /\ map' = [map EXCEPT ![p] = Cleared(p, s.desc[d])]
      /\ free' = free \cup FreedFrames(s.desc[d])
      /\ desc' = [s.desc EXCEPT ![d] = NULL]
      /\ mappings' = [mappings EXCEPT ![p] = ListRemove(s.list, d)]
      /\ stray' = (FreedFrames(s.desc[d]) # Run(s.desc[d].paddress, n))
      /\ broken' = Dangling(desc')
      /\ UNCHANGED <<alive, held, tables, overlaid>>

Mprotect(p) ==
    \E address \in Page, n \in 1..MaxLength, prot \in Protection :
      LET d == Found(p, address)
          s == Cut(p, d, address, n)
          new == [s.desc[d] EXCEPT !.protection = prot]
      IN
      /\ MayCall(p)
      /\ d # NULL
      /\ HasSpare(2)
      /\ ~TooShort(d, address, n)
      /\ CanCut(p, d, address, n)
      /\ map' = [map EXCEPT ![p] = Mapped(p, new)]
      /\ desc' = [s.desc EXCEPT ![d] = new]
      /\ mappings' = [mappings EXCEPT ![p] = s.list]
      /\ UNCHANGED <<alive, held, tables, free, stray, overlaid, broken>>

-----------------------------------------------------------------------------
(* mmap_copyMappings() of a fork: what the search meets is copied, one     *)
(* description for each, with new physical pages of the same length.       *)
ToCopy(p) == SelectSeq(Searched(p), LAMBDA d : d # NULL)

Fork(p) ==
    \E child \in Process \ alive :
      LET source == ToCopy(p)
          copy[i \in 0..Len(source)] ==
            IF i = 0 THEN [desc |-> desc, list |-> L!Empty, free |-> free]
            ELSE LET c == copy[i - 1]
                     from == desc[source[i]]
                     new == CHOOSE e \in Description : c.desc[e] = NULL
                     frame == FirstRun(c.free, from.length)
                 IN  [desc |-> [c.desc EXCEPT ![new] =
                                 [from EXCEPT !.paddress = frame, !.process = NULL,
                                              !.next = NULL, !.prev = NULL]],
                      list |-> L!InsertBack(c.list, new),
                      free |-> c.free \ Run(frame, from.length)]
          last == copy[Len(source)]
          copies == {d \in Description : desc[d] = NULL /\ last.desc[d] # NULL}
      IN
      /\ MayCall(p)
      /\ HasSpare(Len(source))
      /\ \A d \in copies : last.desc[d].paddress # 0
      /\ alive' = alive \cup {child}
      /\ desc' = last.desc
      /\ mappings' = [mappings EXCEPT ![child] = last.list]
      /\ free' = last.free
      /\ map' = [map EXCEPT ![child] = [v \in Page |->
                   LET d == {e \in copies : v \in Run(last.desc[e].vaddress, last.desc[e].length)}
                   IN  IF d = {} THEN NULL
                       ELSE LET e == CHOOSE e \in d : TRUE IN
                            [frame |-> last.desc[e].paddress + v - last.desc[e].vaddress,
                             protection |-> last.desc[e].protection]]]
      /\ tables' = [tables EXCEPT ![child] =
                      {VM!TableOf(v) : v \in {w \in Page : map'[child][w] # NULL}}]
      /\ UNCHANGED <<held, stray, overlaid, broken>>

(* process_destroy() frees the pages of the first mapping and of its       *)
(* fragments, and list_destroy() the descriptions it can walk to.          *)
Exit(p) ==
    LET gone == {d \in Description : \E i \in DOMAIN Searched(p) : Searched(p)[i] = d}
        listed == {L!Walk(mappings[p].next, mappings[p].first, Cardinality(Description))[i] :
                     i \in 1..Len(L!Walk(mappings[p].next, mappings[p].first,
                                         Cardinality(Description)))}
    IN
    /\ p \in alive
    /\ free' = free \cup UNION {Run(desc[d].paddress, desc[d].length) : d \in gone}
    /\ desc' = [d \in Description |-> IF d \in listed THEN NULL ELSE desc[d]]
    /\ mappings' = [mappings EXCEPT ![p] = L!Empty]
    /\ map' = [map EXCEPT ![p] = [v \in Page |-> NULL]]
    /\ alive' = alive \ {p}
    /\ held' = held \ {p}
    /\ tables' = [tables EXCEPT ![p] = {}]
    /\ UNCHANGED <<stray, overlaid, broken>>

Next ==
    /\ ~broken /\ ~stray /\ ~overlaid
    /\ calls < MaxCalls /\ calls' = calls + 1
    /\ \E p \in Process :
         \/ Mmap(p) \/ MmapFailed(p) \/ MmapUndone(p) \/ MmapMisaligned(p)
         \/ Munmap(p) \/ Mprotect(p) \/ NotFound(p) \/ StaysLocked(p) \/ Breaks(p)
         \/ Fork(p) \/ Exit(p)

Spec == Init /\ [][Next]_vars

-----------------------------------------------------------------------------
(* The descriptions of a process: those its mappings lead to, by the links *)
(* of the list and of the fragments.                                       *)
Members(p) ==
    LET reached[i \in 0..Cardinality(Description)] ==
          IF i = 0 THEN {mappings[p].first} \ {NULL}
          ELSE LET before == reached[i - 1] IN
               before \cup (UNION {{mappings[p].next[d], desc[d].next} :
                                     d \in {e \in before : desc[e] # NULL}} \ {NULL})
    IN  {d \in reached[Cardinality(Description)] : desc[d] # NULL}

(* A process reads and writes its own memory: every page of a mapping is   *)
(* mapped to the mapping's own physical page with the mapping's            *)
(* protection, through splits, joins and forks, and no physical page is in *)
(* two mappings or also free.  This holds until a munmap() frees the wrong *)
(* pages, or a mmap() with an address inside an absent table, too short    *)
(* for its length, covers pages behind it, as in VMemory; the physical     *)
(* pages are kept apart after the latter as well.                          *)
MappingsPrivate ==
    LET D == UNION {Members(p) : p \in alive}
        frames(d) == Run(desc[d].paddress, desc[d].length)
    IN
    /\ stray \/ overlaid \/ \A p \in alive : \A d \in Members(p) :
         \A v \in Run(desc[d].vaddress, desc[d].length) :
            map[p][v] = [frame |-> desc[d].paddress + v - desc[d].vaddress,
                         protection |-> desc[d].protection]
    /\ stray \/ \A d \in D :
         /\ frames(d) \cap free = {}
         /\ \A e \in D \ {d} : frames(d) \cap frames(e) = {}
=============================================================================
