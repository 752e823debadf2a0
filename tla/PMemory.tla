------------------------------- MODULE PMemory -------------------------------
(***************************************************************************)
(* sys/memory/pmemory.c: the allocator of physical pages.  __pm_heap is a  *)
(* bitmap of Words words of WordBits bits, bit j of word i standing for    *)
(* page i * WordBits + j; free is the set of the pages whose bit is set.   *)
(*                                                                         *)
(* The callers are threads.  A kernel thread can be preempted while it     *)
(* holds __pm_spinlock, so that a call is a lock, the turns of the search, *)
(* the marking and an unlock.  The locals of the search belong to the      *)
(* holder of the lock.  Boot is the flow of control that runs pm_init()    *)
(* before there are any threads.                                           *)
(***************************************************************************)
EXTENDS Integers

CONSTANTS
    Caller,           \* the threads that allocate pages
    Boot,             \* the caller that runs pm_init()
    WordBits,         \* 32
    Words,            \* PM_HEAPSIZE
    MaxPages,         \* bound on the size of one allocation
    Directory,        \* the page of VM_KERNEL_DIRECTORY_ADDRESS
    Trampolines,      \* the page of IR_TRAMPOLINE_PHYSICAL
    TrampolinePages,  \* IR_TRAMPOLINE_PAGES
    NULL

PMemoryAssumption ==
    /\ Boot \in Caller
    /\ NULL \notin Caller
    /\ WordBits \in Nat \ {0}
    /\ Words \in Nat \ {0}
    /\ MaxPages \in Nat \ {0}
    /\ TrampolinePages \in 1..MaxPages
    /\ Directory \in 1..Words * WordBits - 1
    /\ Trampolines \in 1..Words * WordBits - 1

Page == 0..Words * WordBits - 1

VARIABLES
    free,     \* the pages whose bit in __pm_heap is set
    lock,     \* the holder of __pm_spinlock, or NULL
    pc,       \* what each caller does
    first,    \* per caller: the lowerLimit of an allocation, the page of a free
    pages,    \* per caller: the number of pages asked for or freed
    i,        \* the locals of __pm_findFreePages()
    j,
    found,
    page,
    boot,     \* the progress of pm_init()
    held,     \* the pages each caller has been given and not given back
    usable    \* the pages that pm_init() left free

scan == <<i, j, found, page>>
vars == <<free, lock, pc, first, pages, scan, boot, held, usable>>

Range(p, n) == p..p + n - 1

(* pm_init() up to the reservations: the free pages are those the memory   *)
(* map calls available without the kernel, its stack and the multiboot     *)
(* data, wherever they are, and without page 0.                            *)
Init ==
    /\ free \in SUBSET (Page \ {0})
    /\ usable = free
    /\ lock = NULL
    /\ pc = [c \in Caller |-> "idle"]
    /\ first = [c \in Caller |-> 0]
    /\ pages = [c \in Caller |-> 0]
    /\ i = 0 /\ j = 0 /\ found = 0 /\ page = 0
    /\ boot = "directory"
    /\ held = [c \in Caller |-> {}]

Call(c, at, p, n) ==
    /\ pc[c] = "idle"
    /\ pc' = [pc EXCEPT ![c] = at]
    /\ first' = [first EXCEPT ![c] = p]
    /\ pages' = [pages EXCEPT ![c] = n]
    /\ UNCHANGED <<free, lock, scan, boot, usable>>

(* pm_alloc(): the search starts at page 0 *)
PmAlloc(c, n) ==
    /\ boot = "up"
    /\ c # Boot
    /\ Call(c, "alloc", 0, n)
    /\ UNCHANGED held

(* pm_free() of pages the caller has been given *)
PmFree(c, p, n) ==
    /\ Range(p, n) \subseteq held[c]
    /\ c # Boot
    /\ Call(c, "free", p, n)
    /\ held' = [held EXCEPT ![c] = @ \ Range(p, n)]

(* A mutant: the page of the directory is not reserved. *)
ReserveDirectoryNot ==
    /\ boot = "directory" /\ boot' = "trampolines"
    /\ UNCHANGED <<free, lock, pc, first, pages, scan, held, usable>>

(* the two calls of pm_allocLimit() in pm_init() *)
ReserveDirectory ==
    /\ boot = "directory"
    /\ Call(Boot, "alloc", Directory, 1)
    /\ UNCHANGED held

ReserveTrampolines ==
    /\ boot = "trampolines"
    /\ Call(Boot, "alloc", Trampolines, TrampolinePages)
    /\ UNCHANGED held

(* spinlock_lock() *)
Lock(c) ==
    /\ pc[c] \in {"alloc", "free"}
    /\ lock = NULL
    /\ lock' = c
    /\ pc' = [pc EXCEPT ![c] = IF @ = "alloc" THEN "word" ELSE "markFree"]
    /\ i' = first[c] \div WordBits
    /\ j' = 0
    /\ found' = 0
    /\ page' = 0
    /\ UNCHANGED <<free, first, pages, boot, held, usable>>

WordOf(w) == Range(w * WordBits, WordBits)

(* A mutant: the search stays at its word. *)
NextWordStuck == UNCHANGED i

NextWord == i' = i + 1

(* A mutant: the search asks for two pages too many. *)
EnoughLate(n, c) == n > pages[c] + 1

(* the search wants one page more than it was asked for *)
Enough(n, c) == n > pages[c]

(* one turn of the outer loop of __pm_findFreePages() *)
ScanWord(c) ==
    /\ pc[c] = "word"
    /\ \/ /\ i = Words
          /\ page' = 0
          /\ pc' = [pc EXCEPT ![c] = "markUsed"]
          /\ UNCHANGED <<i, j, found>>
       \/ /\ i < Words
          /\ WordOf(i) \cap free = {}
          /\ found' = 0
          /\ NextWord
          /\ UNCHANGED <<j, page, pc>>
       \/ /\ i < Words
          /\ WordOf(i) \subseteq free
          /\ page' = IF found = 0 THEN i * WordBits ELSE page
          /\ found' = found + WordBits
          /\ IF Enough(found', c)
             THEN pc' = [pc EXCEPT ![c] = "markUsed"] /\ i' = i
             ELSE pc' = pc /\ NextWord
          /\ UNCHANGED j
       \/ /\ i < Words
          /\ WordOf(i) \cap free # {}
          /\ ~ (WordOf(i) \subseteq free)
          /\ pc' = [pc EXCEPT ![c] = "bit"]
          /\ j' = 0
          /\ UNCHANGED <<i, found, page>>
    /\ UNCHANGED <<free, lock, first, pages, boot, held, usable>>

(* A mutant: the search goes on behind a word. *)
BitsInWordTooMany == WordBits + 1

BitsInWord == WordBits

(* one turn of the inner loop, and the way out of it *)
ScanBit(c) ==
    /\ pc[c] = "bit"
    /\ \/ /\ j < BitsInWord
          /\ i * WordBits + j \in free
          /\ page' = IF found = 0 THEN i * WordBits + j ELSE page
          /\ found' = found + 1
          /\ IF Enough(found', c)
             THEN pc' = [pc EXCEPT ![c] = "markUsed"] /\ j' = j
             ELSE pc' = pc /\ j' = j + 1
          /\ UNCHANGED i
       \/ /\ j < BitsInWord
          /\ i * WordBits + j \notin free
          /\ found' = 0
          /\ j' = j + 1
          /\ UNCHANGED <<i, page, pc>>
       \/ /\ j = BitsInWord
          /\ pc' = [pc EXCEPT ![c] = IF Enough(found, c) THEN "markUsed" ELSE "word"]
          /\ NextWord
          /\ UNCHANGED <<j, found, page>>
    /\ UNCHANGED <<free, lock, first, pages, boot, held, usable>>

(* A mutant: the last page is not marked. *)
UsedPagesLessLast(c) == Range(page, pages[c] - 1)
(* A mutant: one page too many is marked. *)
UsedPagesAndNext(c) == Range(page, pages[c] + 1)

UsedPages(c) == Range(page, pages[c])

MarkUsed(c) ==
    /\ pc[c] = "markUsed"
    /\ free' = IF page # 0 THEN free \ UsedPages(c) ELSE free
    /\ pc' = [pc EXCEPT ![c] = "return"]
    /\ UNCHANGED <<lock, first, pages, scan, boot, held, usable>>

FreedPages(c) == Range(first[c], pages[c])

MarkFree(c) ==
    /\ pc[c] = "markFree"
    /\ free' = free \cup FreedPages(c)
    /\ pc' = [pc EXCEPT ![c] = "return"]
    /\ UNCHANGED <<lock, first, pages, scan, boot, held, usable>>

(* what pm_init() does with the page that it got *)
BootNext ==
    IF page # first[Boot] THEN "failed"
    ELSE IF boot = "directory" THEN "trampolines" ELSE "up"

(* spinlock_unlock() and the return to the caller *)
Unlock(c) ==
    /\ pc[c] = "return"
    /\ lock' = NULL
    /\ pc' = [pc EXCEPT ![c] = "idle"]
    /\ held' = IF page # 0
               THEN [held EXCEPT ![c] = @ \cup Range(page, pages[c])] ELSE held
    /\ boot' = IF c = Boot THEN BootNext ELSE boot
    /\ UNCHANGED <<free, first, pages, scan, usable>>

(* the kernel stops when pm_init() fails *)
Halted == boot = "failed" /\ UNCHANGED vars

Step(c) ==
    ScanWord(c) \/ ScanBit(c) \/ MarkUsed(c) \/ MarkFree(c) \/ Unlock(c)

Next ==
    \/ ReserveDirectory
    \/ ReserveTrampolines
    \/ \E c \in Caller, n \in 1..MaxPages : PmAlloc(c, n)
    \/ \E c \in Caller, p \in Page, n \in 1..MaxPages : PmFree(c, p, n)
    \/ \E c \in Caller : Lock(c) \/ Step(c)
    \/ Halted

(* the holder of the lock is a runnable thread, which the scheduler serves *)
Fairness == \A c \in Caller : WF_vars(Step(c))

Spec == Init /\ [][Next]_vars /\ Fairness

-----------------------------------------------------------------------------
PC == {"idle", "alloc", "free", "word", "bit", "markUsed", "markFree", "return"}

Critical == {"word", "bit", "markUsed", "markFree", "return"}

(* The bitmap never says free of a page pm_init() did not leave free, the  *)
(* search stays inside the bitmap, and the locals have their types.        *)
TypeOK ==
    /\ usable \subseteq Page \ {0}
    /\ free \subseteq usable
    /\ lock \in Caller \cup {NULL}
    /\ pc \in [Caller -> PC]
    /\ first \in [Caller -> Page]
    /\ pages \in [Caller -> 0..MaxPages]
    /\ i \in 0..Words
    /\ j \in 0..WordBits
    /\ found \in 0..Words * WordBits
    /\ page \in Page
    /\ boot \in {"directory", "trampolines", "up", "failed"}
    /\ held \in [Caller -> SUBSET Page]

(* The pages c is about to get, or is giving back *)
InTransit(c) ==
    CASE pc[c] \in {"free", "markFree"} -> Range(first[c], pages[c])
      [] pc[c] = "return" /\ page # 0   -> Range(page, pages[c])
      [] OTHER                          -> {}

(* No page has two owners, and none that is owned is free: pm_alloc()      *)
(* never hands out a page again before pm_free() is told of it, whatever   *)
(* the interleaving of the callers.                                        *)
PagesOwnedOnce ==
    \A c \in Caller :
        /\ (held[c] \cup InTransit(c)) \cap free = {}
        /\ held[c] \cap InTransit(c) = {}
        /\ \A d \in Caller \ {c} :
              (held[c] \cup InTransit(c)) \cap (held[d] \cup InTransit(d)) = {}

(* No page is lost: each page that pm_init() left free is in the bitmap,   *)
(* with an owner, or on its way between the two.                           *)
NoPageLost ==
    usable = free \cup UNION {held[c] \cup InTransit(c) : c \in Caller}

(* A failed allocation means that, from the word of the limit on, there is *)
(* no run of more than the pages asked for: __pm_findFreePages() wants one *)
(* page more than it returns (found > pages).                              *)
FailsOnlyWhenFull ==
    \A c \in Caller :
        (pc[c] = "markUsed" /\ page = 0) =>
            ~ \E p \in Page : /\ p >= (first[c] \div WordBits) * WordBits
                              /\ Range(p, pages[c] + 1) \subseteq free

(* pm_allocLimit() "Returns a physical page range not lower than           *)
(* lowerLimit".  The search begins with the whole word that holds the      *)
(* limit; both calls of pm_init() keep the promise all the same, because   *)
(* page 0 is used and the directory has been reserved before.              *)
NotBelowLimit ==
    \A c \in Caller : (pc[c] = "markUsed" /\ page # 0) => page >= first[c]

(* Every physical page is free, with one owner or between the two; a       *)
(* search fails only if there is nothing, and respects its limit.          *)
PagesExact ==
    /\ TypeOK
    /\ PagesOwnedOnce
    /\ NoPageLost
    /\ FailsOnlyWhenFull
    /\ NotBelowLimit

(* The search ends and the lock is released.                               *)
LockReleased == \A c \in Caller : lock = c ~> lock # c
=============================================================================
