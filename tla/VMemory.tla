------------------------------ MODULE VMemory ------------------------------
(***************************************************************************)
(* sys/memory/vmemory.c: the page directories.  There is the kernel's and  *)
(* one of a process, "user".  A directory is a set of page tables that are *)
(* present and a function from pages to what is mapped there.              *)
(*                                                                         *)
(* The callers are threads.  __vm_spinlock is held from the search for     *)
(* free pages to the mapping, so a call is these two steps; to work on the *)
(* user directory a call first maps that directory into the kernel, in a   *)
(* critical section of its own.  vm_createDirectory() maps without the     *)
(* lock.  The pages that are mapped and unmapped within one critical       *)
(* section, to reach a page table, only need that there is a free one.     *)
(***************************************************************************)
EXTENDS Integers, FiniteSets

CONSTANTS
    Thread,
    Frame,        \* the physical pages that are mapped
    Tables,       \* VM_DIRECTORY_LENGTH
    TableLength,  \* VM_PAGETABLE_LENGTH
    Cleared,      \* the entries of a new table that memset() clears
    KernelPages,  \* the pages vm_init() maps: kernel, stack, multiboot data
    Trampoline,   \* the page of IR_TRAMPOLINE_BEGIN
    TrampolinePages, \* IR_TRAMPOLINE_PAGES
    StackLimit,   \* THREAD_STACK_LIMIT
    Hints,        \* the addresses that programs pass to mmap()
    MaxPages,     \* bound: pages of one allocation
    MaxGiven,     \* bound: allocations at a time
    NULL

VMemoryAssumption ==
    /\ Tables \in Nat \ {0} /\ TableLength \in Nat \ {0}
    /\ Cleared \in 0..TableLength
    /\ KernelPages \subseteq 1..Tables * TableLength - 1
    /\ StackLimit \in 1..Tables * TableLength - 1
    /\ Hints \subseteq 1..Tables * TableLength - 1
    /\ TrampolinePages \in 1..Tables * TableLength - Trampoline
    /\ MaxPages \in Nat \ {0}

VARIABLES
    present,  \* per directory, the page tables that are there
    map,      \* per directory, what each page is mapped to, or NULL
    created,  \* the user directory exists
    lock,     \* the holder of __vm_spinlock, or NULL
    call,     \* the call each thread is in
    given,    \* the pages that calls returned and nobody freed
    raced,    \* a page was mapped without the lock while a thread held it
    covered,  \* the pages that a search took for free though they were mapped
    panicked

vars == <<present, map, created, lock, call, given, raced, covered, panicked>>

Directories == {"kernel", "user"}
Page == 0..Tables * TableLength - 1
LowerLimit == 1
UpperLimit == Tables * TableLength - 1
TableOf(p) == p \div TableLength

Idle == [op |-> "none", step |-> "idle", dir |-> NULL, pages |-> 0,
         page |-> NULL, frame |-> NULL, temp |-> NULL]

(* vm_init().                                                              *)
Init ==
    /\ present = [d \in Directories |->
                    IF d = "kernel" THEN {TableOf(p) : p \in KernelPages} ELSE {}]
    /\ map = [d \in Directories |-> [p \in Page |->
                IF d = "kernel" /\ p \in KernelPages THEN "identity" ELSE NULL]]
    /\ created = FALSE
    /\ lock = NULL
    /\ call = [t \in Thread |-> Idle]
    /\ given = {}
    /\ raced = FALSE
    /\ covered = {}
    /\ panicked = FALSE

-----------------------------------------------------------------------------
(* __vm_findFreePages__kernel(), __vm_findFreePages__user() and, for both  *)
(* directories, __vm_findFreePagesTwoSided(): the state of the search at   *)
(* page p is the start of a region and the number of pages found.  A table *)
(* that is not present counts as TableLength pages wherever the search     *)
(* enters it.                                                              *)
IsFree(ds, p) == \A d \in ds : TableOf(p) \in present[d] => map[d][p] = NULL

Absent(ds, k) == \A d \in ds : k \notin present[d]

Start(s, p) == IF s.found = 0 THEN p ELSE s.start

Scan(ds, n, low, high) ==
    LET step[p \in 0..Tables * TableLength] ==
          \* the search when it is about to look at page p
          IF p <= low THEN [start |-> 0, found |-> 0]
          ELSE LET s == step[p - 1]
                   q == p - 1
                   k == TableOf(q)
               IN  IF s.found >= n \/ k * TableLength >= high THEN s
                   ELSE IF Absent(ds, k)
                   THEN IF q = low \/ q % TableLength = 0
                        THEN [start |-> Start(s, q), found |-> s.found + TableLength]
                        ELSE s
                   ELSE IF IsFree(ds, q) THEN [start |-> Start(s, q), found |-> s.found + 1]
                   ELSE [start |-> s.start, found |-> 0]
    IN  step[Tables * TableLength]

(* A mutant: the region may end behind the limit. *)
FindFreePagesNoLimit(ds, n, low, high) ==
    LET s == Scan(ds, n, low, high) IN
    IF s.found >= n THEN s.start ELSE 0

FindFreePages(ds, n, low, high) ==
    LET s == Scan(ds, n, low, high) IN
    IF s.found >= n /\ s.start + n <= high THEN s.start ELSE 0

(* The search for n pages begins inside a table that is absent, and what   *)
(* is left of this table is too short for them: it counts as a whole one,  *)
(* and the pages behind it are taken without a look.                       *)
Midway(ds, n, low) ==
    /\ Absent(ds, TableOf(low))
    /\ low % TableLength # 0
    /\ (low % TableLength) + n > TableLength

(* __vm_mapPageRange__noLock() of n pages from page p of directory d: the  *)
(* contents of the entries that a new table does not clear are what the    *)
(* memory of the table held.                                               *)
NewTables(d, p, n) == {TableOf(q) : q \in p..p + n - 1} \ present[d]

Uncleared(d, p, n) ==
    {q \in Page : TableOf(q) \in NewTables(d, p, n) /\ q % TableLength >= Cleared}

(* The new tables of a call that maps n pages from p in the directories    *)
(* ds, and the garbage in them.                                            *)
Mapped(ds, p, n, value, junk) ==
    [d \in Directories |-> [q \in Page |->
       IF d \notin ds THEN map[d][q]
       ELSE IF q \in p..p + n - 1 THEN value
       ELSE IF TableOf(q) \in NewTables(d, p, n)
       THEN IF <<d, q>> \in junk THEN "garbage" ELSE NULL
       ELSE map[d][q]]]

WithTables(ds, p, n) ==
    [d \in Directories |-> IF d \in ds THEN present[d] \cup NewTables(d, p, n) ELSE present[d]]

Junk(ds, p, n) == UNION {{d} \X Uncleared(d, p, n) : d \in ds}

KernelPage == FindFreePages({"kernel"}, 1, LowerLimit, UpperLimit)

Unmap(m, p) == [m EXCEPT !["kernel"][p] = NULL]

-----------------------------------------------------------------------------
Go(t, c) == call' = [call EXCEPT ![t] = c]

(* A process is not deleted while its threads run.                         *)
Usable == created /\ \A u \in Thread : call[u].op # "delete"

(* vm_alloc() of a kernel page for the directory of a process, with which  *)
(* every call on such a directory begins.  Waiting for the lock before     *)
(* changes nothing.                                                        *)
MapDirectory(t, c) ==
    LET p == KernelPage IN
    /\ call[t] = Idle
    /\ lock = NULL
    /\ p # 0
    /\ \E junk \in SUBSET Junk({"kernel"}, p, 1) :
         map' = Mapped({"kernel"}, p, 1, "directory", junk)
    /\ present' = WithTables({"kernel"}, p, 1)
    /\ Go(t, [c EXCEPT !.temp = p])

Dirs(c) == IF c.op \in {"both", "freeBoth"} THEN Directories ELSE {c.dir}

Cleanup(c, m) == IF c.temp = NULL THEN m ELSE Unmap(m, c.temp)

(* The lower limits that callers pass with a request of n pages: mmap()    *)
(* any, and for stacks THREAD_STACK_LIMIT, of which kernel stacks are one  *)
(* page.                                                                   *)
Limits(c, n) ==
    IF c.op = "both" THEN IF n = 1 THEN {StackLimit} ELSE {}
    ELSE {LowerLimit} \cup (IF c.dir = "user" THEN {StackLimit} \cup Hints
                            ELSE IF n = 1 THEN {StackLimit} ELSE {})

(* An allocation c searches under the lock ...                             *)
Search(t, c) ==
    \E n \in 1..MaxPages, f \in Frame : \E limit \in Limits(c, n) :
      LET p == FindFreePages(Dirs(c), n, limit, UpperLimit) IN
      /\ lock = NULL
      /\ c.dir = "user" => KernelPage # 0
      /\ lock' = t
      /\ Go(t, [c EXCEPT !.step = "map", !.page = p, !.pages = n, !.frame = f])
      /\ covered' = IF p # 0 /\ Midway(Dirs(c), n, limit)
                    THEN covered \cup {<<d, q>> \in Dirs(c) \X (p..p + n - 1) :
                                         map[d][q] # NULL}
                    ELSE covered
      /\ UNCHANGED <<present, map, created, given, raced, panicked>>

(* vm_alloc() and vm_allocLimit(), and vm_allocTwoSidedLimit().            *)
AllocKernel(t) ==
    /\ call[t] = Idle
    /\ Cardinality(given) < MaxGiven
    /\ Search(t, [Idle EXCEPT !.op = "alloc", !.dir = "kernel"])

AllocUser(t) ==
    \E op \in {"alloc", "both"} :
       /\ Usable
       /\ Cardinality(given) < MaxGiven
       /\ MapDirectory(t, [Idle EXCEPT !.op = op, !.dir = "user", !.step = "find"])
       /\ UNCHANGED <<created, lock, given, raced, covered, panicked>>

Find(t) ==
    /\ call[t].step = "find" /\ call[t].op \in {"alloc", "both"}
    /\ Search(t, call[t])

(* ... and map what they found, then unmap the directory.  The user's      *)
(* tables are reached through one more page of the kernel.                 *)
Map(t) ==
    LET c == call[t]
        ds == Dirs(c)
    IN
    /\ c.step = "map"
    /\ IF c.page = 0
       THEN /\ c.op = "alloc"
            /\ map' = Cleanup(c, map)
            /\ UNCHANGED <<present, given>>
       ELSE /\ c.dir = "user" => KernelPage # 0
            /\ \E junk \in SUBSET Junk(ds, c.page, c.pages) :
                 map' = Cleanup(c, Mapped(ds, c.page, c.pages, c.frame, junk))
            /\ present' = WithTables(ds, c.page, c.pages)
            /\ given' = given \cup {[dirs |-> ds, page |-> c.page, pages |-> c.pages,
                                     frame |-> c.frame]}
    /\ lock' = NULL
    /\ Go(t, Idle)
    /\ UNCHANGED <<created, raced, covered, panicked>>

(* vm_free(), in the kernel and in the directory of a process, whose pages *)
(* are unmapped in a critical section of their own.                        *)
FreeKernel(t) ==
    \E g \in given :
       /\ call[t] = Idle
       /\ g.dirs = {"kernel"}
       /\ lock = NULL
       /\ given' = given \ {g}
       /\ map' = Mapped({"kernel"}, g.page, g.pages, NULL, {})
       /\ UNCHANGED <<present, created, lock, call, raced, covered, panicked>>

FreeUser(t) ==
    \E g \in given :
       /\ "user" \in g.dirs
       /\ given' = given \ {g}
       /\ MapDirectory(t, [Idle EXCEPT !.op = IF g.dirs = Directories THEN "freeBoth" ELSE "free",
                                       !.dir = "user", !.page = g.page, !.pages = g.pages,
                                       !.step = "find"])
       /\ UNCHANGED <<created, lock, raced, covered, panicked>>

(* vm_resolveVirtualAddress(), vm_deleteDirectory() and                    *)
(* vm_createDirectory() up to the mapping of the directory.                *)
Resolve(t) ==
    /\ Usable
    /\ MapDirectory(t, [Idle EXCEPT !.op = "resolve", !.dir = "user", !.step = "find"])
    /\ UNCHANGED <<created, lock, given, raced, covered, panicked>>

Delete(t) ==
    /\ created
    /\ \A u \in Thread : call[u].dir # "user"
    /\ \A g \in given : "user" \notin g.dirs
    /\ MapDirectory(t, [Idle EXCEPT !.op = "delete", !.dir = "user", !.step = "find"])
    /\ UNCHANGED <<created, lock, given, raced, covered, panicked>>

Create(t) ==
    /\ ~created
    /\ \A u \in Thread : call[u].dir # "user"
    /\ MapDirectory(t, [Idle EXCEPT !.op = "create", !.dir = "user", !.step = "search"])
    /\ UNCHANGED <<created, lock, given, raced, covered, panicked>>

(* The rest of these calls, which unmaps the directory again; deleting one *)
(* gives its tables back.                                                  *)
Complete(t) ==
    LET c == call[t] IN
    /\ c.step = "find" /\ c.op \in {"free", "freeBoth", "resolve", "create", "delete"}
    /\ lock = NULL
    /\ c.op \in {"free", "freeBoth", "resolve"} => KernelPage # 0
    /\ \/ /\ c.op \in {"resolve", "create"}
          /\ map' = Cleanup(c, map)
          /\ created' = TRUE
          /\ UNCHANGED present
       \/ /\ c.op \in {"free", "freeBoth"}
          /\ map' = Cleanup(c, Mapped(Dirs(c), c.page, c.pages, NULL, {}))
          /\ UNCHANGED <<present, created>>
       \/ /\ c.op = "delete"
          /\ map' = [Cleanup(c, map) EXCEPT !["user"] = [p \in Page |-> NULL]]
          /\ present' = [present EXCEPT !["user"] = {}]
          /\ created' = FALSE
    /\ covered' = IF c.op = "delete" THEN {x \in covered : x[1] # "user"} ELSE covered
    /\ Go(t, Idle)
    /\ UNCHANGED <<lock, given, raced, panicked>>

(* vm_createDirectory() maps the pages of the trampoline without the lock: *)
(* for each, a kernel page is found for the table, mapped, and unmapped.   *)
CreateSearch(t) ==
    /\ call[t].step = "search"
    /\ KernelPage # 0
    /\ Go(t, [call[t] EXCEPT !.step = "enter", !.page = KernelPage])
    /\ UNCHANGED <<present, map, created, lock, given, raced, covered, panicked>>

CreateEnter(t) ==
    LET p == call[t].page IN
    /\ call[t].step = "enter"
    /\ \E junk \in SUBSET Junk({"kernel"}, p, 1) :
         map' = Mapped({"kernel"}, p, 1, "table", junk)
    /\ present' = WithTables({"kernel"}, p, 1)
    /\ raced' = (raced \/ lock # NULL \/ map["kernel"][p] # NULL)
    /\ Go(t, [call[t] EXCEPT !.step = "leave"])
    /\ UNCHANGED <<created, lock, given, covered, panicked>>

CreateLeave(t) ==
    LET c == call[t]
        q == Trampoline + c.pages
    IN
    /\ c.step = "leave"
    /\ \E junk \in SUBSET Junk({"user"}, q, 1) :
         map' = Unmap(Mapped({"user"}, q, 1, "identity", junk), c.page)
    /\ present' = WithTables({"user"}, q, 1)
    /\ raced' = (raced \/ lock # NULL)
    /\ Go(t, [c EXCEPT !.pages = @ + 1,
                       !.step = IF c.pages + 1 < TrampolinePages THEN "search" ELSE "find"])
    /\ UNCHANGED <<created, lock, given, covered, panicked>>

(* The kernel has no page left to reach a directory or a table through: 0  *)
(* is mapped or read instead.  The same happens when                       *)
(* vm_allocTwoSidedLimit(), which does not test what it found, found       *)
(* nothing: __vm_assert() stops the kernel.                                *)
NeedsPage(c) ==
    \/ c = Idle
    \/ c.step = "search"
    \/ c.step \in {"find", "map"} /\ c.dir = "user" /\ c.op \notin {"create", "delete"}

Panic(t) ==
    /\ \/ NeedsPage(call[t]) /\ KernelPage = 0 /\ lock \in {NULL, t}
       \/ call[t].step = "map" /\ call[t].op = "both" /\ call[t].page = 0
    /\ panicked' = TRUE
    /\ UNCHANGED <<present, map, created, lock, call, given, raced, covered>>

-----------------------------------------------------------------------------
Next ==
    /\ ~raced /\ ~panicked
    /\ \E t \in Thread :
       \/ AllocKernel(t) \/ AllocUser(t) \/ Find(t) \/ Map(t)
       \/ FreeKernel(t) \/ FreeUser(t) \/ Resolve(t) \/ Delete(t) \/ Complete(t)
       \/ Create(t) \/ CreateSearch(t) \/ CreateEnter(t) \/ CreateLeave(t)
       \/ Panic(t)

Spec == Init /\ [][Next]_vars

-----------------------------------------------------------------------------
(* The search is first fit: it returns the first region of free pages      *)
(* between the limits, and 0 only if there is none, for one directory and  *)
(* for two, whatever limit and however the tables are present or absent,   *)
(* unless it begins inside an absent table that is too short.              *)
SearchIsFirstFit ==
    \A ds \in SUBSET Directories \ {{}} :
       LET free == {q \in Page : IsFree(ds, q)} IN
       \A low \in LowerLimit..UpperLimit - 1, n \in 1..MaxPages :
          LET found == FindFreePages(ds, n, low, UpperLimit)
              regions == {p \in low..UpperLimit - n : p..p + n - 1 \subseteq free}
          IN  ~Midway(ds, n, low) =>
                IF regions = {} THEN found = 0
                ELSE found \in regions /\ \A p \in regions : found <= p

(* What a call mapped for its caller stays mapped to it until it is freed, *)
(* and belongs to no one else; so does the page through which a call works *)
(* on the directory of a process, the memory that vm_init() mapped and the *)
(* trampoline.  Two things break this in the code: the mapping that        *)
(* vm_createDirectory() makes without the lock, and a search that begins   *)
(* inside an absent table and covers the pages behind it, which breaks it  *)
(* for the pages it covered and for no others.                             *)
MappingsKept ==
    \/ raced
    \/ /\ \A g \in given : \A d \in g.dirs : \A q \in g.page..g.page + g.pages - 1 :
            map[d][q] = g.frame \/ <<d, q>> \in covered
       /\ \A g, h \in given : \A d \in g.dirs \cap h.dirs :
            g # h => \A q \in (g.page..g.page + g.pages - 1)
                                \cap (h.page..h.page + h.pages - 1) : <<d, q>> \in covered
       /\ \A t \in Thread : call[t].temp # NULL => map["kernel"][call[t].temp] = "directory"
       /\ \A q \in KernelPages : map["kernel"][q] = "identity"
       /\ created => \A q \in Trampoline..Trampoline + TrampolinePages - 1 :
                       map["user"][q] = "identity" \/ <<"user", q>> \in covered

=============================================================================
