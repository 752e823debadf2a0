---------------------------- MODULE PMemoryProofs ----------------------------
(***************************************************************************)
(* Proofs about the allocator of physical pages, for every size of the     *)
(* bitmap and of its words, every memory map and any number of threads.    *)
(***************************************************************************)
EXTENDS PMemory, TLAPS

(* A caller is past spinlock_lock() if and only if it is the holder.       *)
Exclusion == \A c \in Caller : pc[c] \in Critical <=> lock = c

(* Where the search of c is in the bitmap. *)
Position(c) == i * WordBits + (IF pc[c] = "bit" THEN j ELSE 0)

(* The pages that the search has counted are free and lie directly before  *)
(* its position; those it ends with are free.                              *)
Searching ==
    \A c \in Caller :
        /\ pc[c] \in {"word", "bit"} /\ found # 0 =>
              Range(page, found) \subseteq free /\ page + found = Position(c)
        /\ pc[c] = "bit" => i < Words
        /\ pc[c] = "markUsed" /\ page # 0 => Range(page, pages[c]) \subseteq free
        /\ pc[c] = "markFree" => page = 0

(* The inductive invariant: that the pages a search ends with are free,    *)
(* and that it is the only search, is what keeps the owners apart.         *)
PInv == TypeOK /\ Exclusion /\ Searching /\ PagesOwnedOnce /\ NoPageLost

(* The words of the bitmap follow each other and fill it.                  *)
LEMMA WordBounds ==
    ASSUME PMemoryAssumption
    PROVE  /\ Words * WordBits \in Nat \ {0}
           /\ \A w \in 0..Words : /\ w * WordBits \in 0..Words * WordBits
                                  /\ (w + 1) * WordBits = w * WordBits + WordBits
           /\ \A w \in 0..Words - 1 : w * WordBits + WordBits <= Words * WordBits
<1> USE DEF PMemoryAssumption
<1>1. \A a, b \in Nat : a * b \in Nat
  OBVIOUS
<1>2. \A w \in 0..Words : (Words - w) * WordBits = Words * WordBits - w * WordBits
  OBVIOUS
<1>3. \A w \in Nat : (w + 1) * WordBits = w * WordBits + WordBits
  OBVIOUS
<1>4. \A w \in 0..Words : w * WordBits \in 0..Words * WordBits
  <2> TAKE w \in 0..Words
  <2>1. (Words - w) * WordBits \in Nat /\ w * WordBits \in Nat /\ Words * WordBits \in Nat
    BY <1>1
  <2> QED
    BY <2>1, <1>2
<1>5. \A w \in 0..Words - 1 : w * WordBits + WordBits <= Words * WordBits
  <2> TAKE w \in 0..Words - 1
  <2>1. w + 1 \in 0..Words /\ (w + 1) * WordBits = w * WordBits + WordBits
    BY <1>3
  <2> QED
    BY <2>1, <1>4
<1>6. Words * WordBits \in Nat \ {0}
  BY <1>1, <1>5
<1> QED
  BY <1>3, <1>4, <1>5, <1>6

-----------------------------------------------------------------------------
(* pm_init() leaves no page with an owner.                                 *)
LEMMA Initially == ASSUME PMemoryAssumption, Init PROVE PInv
<1> USE DEF Init
<1>1. Words * WordBits \in Nat \ {0}
  BY WordBounds
<1>2. TypeOK
  BY <1>1 DEF TypeOK, PMemoryAssumption, Page, PC
<1>3. Exclusion /\ Searching
  BY DEF Exclusion, Searching, Critical, PMemoryAssumption
<1>4. \A c \in Caller : InTransit(c) = {} /\ held[c] = {}
  BY DEF InTransit
<1> QED
  BY <1>2, <1>3, <1>4 DEF PInv, PagesOwnedOnce, NoPageLost

(* As long as the bitmap stays, a caller's pages may move between what it  *)
(* holds and what is in transit.                                           *)
LEMMA OwnersKept ==
    ASSUME PagesOwnedOnce, NoPageLost, UNCHANGED <<free, usable>>,
           \A c \in Caller : held'[c] \cup InTransit(c)' = held[c] \cup InTransit(c)
                             /\ held'[c] \cap InTransit(c)' = {}
    PROVE  PagesOwnedOnce' /\ NoPageLost'
BY DEF PagesOwnedOnce, NoPageLost

(* Calls of pm_alloc() and pm_allocLimit().                                *)
LEMMA CallAlloc ==
    ASSUME PMemoryAssumption, PInv, NEW c \in Caller, NEW p \in Page, NEW n \in 0..MaxPages,
           Call(c, "alloc", p, n), UNCHANGED held
    PROVE  PInv'
<1> USE DEF Call, PInv
<1>1. TypeOK'
  BY DEF TypeOK, scan, PC
<1>2. Exclusion'
  BY DEF Exclusion, TypeOK, Critical
<1>3. Searching'
  BY DEF Searching, TypeOK, scan, Position
<1>4. \A d \in Caller : InTransit(d)' = InTransit(d) /\ held'[d] = held[d]
  BY DEF InTransit, TypeOK, scan
<1>5. PagesOwnedOnce' /\ NoPageLost'
  BY <1>4, OwnersKept DEF PagesOwnedOnce
<1> QED
  BY <1>1, <1>2, <1>3, <1>5

(* A call of pm_free(): the pages are in transit.                          *)
LEMMA CallFree ==
    ASSUME PMemoryAssumption, PInv, NEW c \in Caller, NEW p \in Page, NEW n \in 1..MaxPages,
           PmFree(c, p, n)
    PROVE  PInv'
<1> USE DEF PmFree, Call, PInv
<1>1. TypeOK'
  BY DEF TypeOK, scan, PC
<1>2. Exclusion'
  BY DEF Exclusion, TypeOK, Critical
<1>3. Searching'
  BY DEF Searching, TypeOK, scan, Position
<1>4. \A d \in Caller \ {c} : InTransit(d)' = InTransit(d) /\ held'[d] = held[d]
  BY DEF InTransit, TypeOK, scan
<1>5. InTransit(c) = {} /\ InTransit(c)' = Range(p, n) /\ held'[c] = held[c] \ Range(p, n)
  BY DEF InTransit, TypeOK
<1>6. PagesOwnedOnce' /\ NoPageLost'
  BY <1>4, <1>5, OwnersKept DEF PagesOwnedOnce
<1> QED
  BY <1>1, <1>2, <1>3, <1>6

(* Nobody else is past spinlock_lock(), so that the search is that of c.   *)
LEMMA Alone ==
    ASSUME PMemoryAssumption, PInv, NEW c \in Caller, pc[c] \in Critical,
           NEW d \in Caller, d # c
    PROVE  pc[d] \in {"idle", "alloc", "free"}
BY DEF PInv, TypeOK, Exclusion, Critical, PC

(* spinlock_lock(): the search begins with nothing found.                  *)
LEMMA Locks ==
    ASSUME PMemoryAssumption, PInv, NEW c \in Caller, Lock(c)
    PROVE  PInv'
<1> USE DEF Lock, PInv
<1>1. first[c] \div WordBits \in 0..Words
  <2>1. first[c] \in 0..Words * WordBits - 1 /\ WordBits \in Nat \ {0} /\ Words \in Nat \ {0}
    BY DEF TypeOK, Page, PMemoryAssumption
  <2> QED
    BY <2>1
<1>2. TypeOK'
  BY <1>1, WordBounds DEF TypeOK, PC, Page, PMemoryAssumption
<1>3. \A d \in Caller : pc[d] \notin Critical
  BY DEF Exclusion, PMemoryAssumption
<1>4. Exclusion'
  BY <1>3 DEF Exclusion, TypeOK, Critical, PMemoryAssumption
<1>5. Searching'
  BY <1>3 DEF Searching, TypeOK, Critical
<1>6. \A d \in Caller : InTransit(d)' = InTransit(d) /\ held'[d] = held[d]
  BY <1>3 DEF InTransit, TypeOK, Critical
<1>7. PagesOwnedOnce' /\ NoPageLost'
  BY <1>6, OwnersKept DEF PagesOwnedOnce
<1> QED
  BY <1>2, <1>4, <1>5, <1>7

(* A step of the search hands out no page.                                 *)
LEMMA SearchOwners ==
    ASSUME PMemoryAssumption, PInv, NEW c \in Caller, pc[c] \in {"word", "bit"},
           UNCHANGED <<free, lock, first, pages, boot, held, usable>>,
           NEW to \in {"word", "bit", "markUsed"}, pc' = [pc EXCEPT ![c] = to]
    PROVE  Exclusion' /\ PagesOwnedOnce' /\ NoPageLost'
<1> USE DEF PInv
<1>1. \A d \in Caller : d # c => pc'[d] = pc[d] /\ pc[d] \in {"idle", "alloc", "free"}
  BY Alone DEF TypeOK, Critical
<1>2. pc'[c] = to
  BY DEF TypeOK
<1>3. Exclusion'
  BY <1>1, <1>2 DEF Exclusion, Critical
<1>4. \A d \in Caller : InTransit(d)' = InTransit(d) /\ held'[d] = held[d]
  BY <1>1, <1>2 DEF InTransit
<1>5. PagesOwnedOnce' /\ NoPageLost'
  BY <1>4, OwnersKept DEF PagesOwnedOnce
<1> QED
  BY <1>3, <1>5

(* A turn of the outer loop: the pages that the search has counted are     *)
(* those directly before it.                                               *)
LEMMA ScansWord ==
    ASSUME PMemoryAssumption, PInv, NEW c \in Caller, ScanWord(c)
    PROVE  PInv'
<1> USE DEF PInv, ScanWord
<1>1. PICK to \in {"word", "bit", "markUsed"} : pc' = [pc EXCEPT ![c] = to]
  BY DEF TypeOK
<1>2. Exclusion' /\ PagesOwnedOnce' /\ NoPageLost'
  BY <1>1, SearchOwners
<1>3. \A d \in Caller : d # c => pc'[d] \in {"idle", "alloc", "free"}
  BY <1>1, Alone DEF TypeOK, Critical
<1>4. /\ i \in Nat /\ found \in Nat /\ page \in Nat /\ pages[c] \in Nat
      /\ WordBits \in Nat \ {0} /\ Words \in Nat /\ pc'[c] = to /\ i <= Words
  BY <1>1 DEF TypeOK, Page, PMemoryAssumption
<1>5. /\ i * WordBits \in Nat /\ Words * WordBits \in Nat
      /\ (i + 1) * WordBits = i * WordBits + WordBits
      /\ i < Words => i * WordBits + WordBits <= Words * WordBits
  BY <1>4, WordBounds
<1>6. found # 0 => Range(page, found) \subseteq free /\ page + found = i * WordBits
  BY <1>4, <1>5 DEF Searching, Position
<1>7. CASE i = Words /\ page' = 0 /\ pc'[c] = "markUsed" /\ UNCHANGED <<i, j, found>>
  <2>1. TypeOK'
    BY <1>1, <1>4, <1>5, <1>7, WordBounds DEF TypeOK, PC, Page
  <2>2. Searching'
    BY <1>3, <1>7 DEF Searching
  <2> QED
    BY <1>2, <2>1, <2>2
<1>8. CASE i < Words /\ found' = 0 /\ i' = i + 1 /\ UNCHANGED <<j, page, pc>>
  <2>1. TypeOK'
    BY <1>4, <1>8 DEF TypeOK, PMemoryAssumption
  <2>2. Searching'
    BY <1>3, <1>8 DEF Searching
  <2> QED
    BY <1>2, <2>1, <2>2
<1>9. CASE /\ i < Words /\ WordOf(i) \subseteq free
           /\ page' = IF found = 0 THEN i * WordBits ELSE page
           /\ found' = found + WordBits
           /\ \/ pc'[c] = "markUsed" /\ found' > pages[c] /\ i' = i
              \/ pc'[c] = "word" /\ i' = i + 1
           /\ UNCHANGED j
  <2>1. /\ page' \in Nat /\ found' \in Nat /\ page' + found' = i * WordBits + WordBits
        /\ Range(page', found') \subseteq free
    BY <1>4, <1>5, <1>6, <1>9 DEF WordOf, Range
  <2>2. page' \in Page /\ found' \in 0..Words * WordBits
    BY <1>4, <1>5, <1>9, <2>1 DEF Page
  <2>3. TypeOK'
    BY <1>1, <1>4, <1>9, <2>2 DEF TypeOK, PC
  <2>4. pc'[c] = "markUsed" => Range(page', pages'[c]) \subseteq free'
    BY <1>4, <1>9, <2>1 DEF Range
  <2>5. pc'[c] = "word" => page' + found' = i' * WordBits
    BY <1>4, <1>5, <1>9, <2>1
  <2>6. i' * WordBits \in Int
    BY <1>4, <1>5, <1>9
  <2>7. Searching'
    BY <1>3, <1>9, <2>1, <2>4, <2>5, <2>6 DEF Searching, Position
  <2> QED
    BY <1>2, <2>3, <2>7
<1>10. CASE i < Words /\ pc'[c] = "bit" /\ j' = 0 /\ UNCHANGED <<i, found, page>>
  <2>1. TypeOK'
    BY <1>1, <1>4, <1>10 DEF TypeOK, PC
  <2>2. Searching'
    BY <1>3, <1>4, <1>5, <1>6, <1>10 DEF Searching, Position
  <2> QED
    BY <1>2, <2>1, <2>2
<1> QED
  BY <1>1, <1>4, <1>7, <1>8, <1>9, <1>10 DEF Enough, NextWord, TypeOK

(* The same of a turn of the inner loop, which ends inside of its word.    *)
LEMMA ScansBit ==
    ASSUME PMemoryAssumption, PInv, NEW c \in Caller, ScanBit(c)
    PROVE  PInv'
<1> USE DEF PInv, ScanBit, BitsInWord
<1>1. PICK to \in {"word", "bit", "markUsed"} : pc' = [pc EXCEPT ![c] = to]
  BY DEF TypeOK
<1>2. Exclusion' /\ PagesOwnedOnce' /\ NoPageLost'
  BY <1>1, SearchOwners
<1>3. \A d \in Caller : d # c => pc'[d] \in {"idle", "alloc", "free"}
  BY <1>1, Alone DEF TypeOK, Critical
<1>4. /\ i \in Nat /\ j \in Nat /\ found \in Nat /\ page \in Nat /\ pages[c] \in Nat
      /\ WordBits \in Nat \ {0} /\ Words \in Nat /\ pc'[c] = to /\ i < Words /\ j <= WordBits
  BY <1>1 DEF TypeOK, Page, PMemoryAssumption, Searching
<1>5. /\ i * WordBits \in Nat /\ Words * WordBits \in Nat
      /\ (i + 1) * WordBits = i * WordBits + WordBits
      /\ i * WordBits + WordBits <= Words * WordBits
  BY <1>4, WordBounds
<1>6. found # 0 => Range(page, found) \subseteq free /\ page + found = i * WordBits + j
  BY <1>4, <1>5 DEF Searching, Position
<1>7. CASE /\ j < WordBits /\ i * WordBits + j \in free
           /\ page' = IF found = 0 THEN i * WordBits + j ELSE page
           /\ found' = found + 1
           /\ \/ pc'[c] = "markUsed" /\ found' > pages[c] /\ j' = j
              \/ pc'[c] = "bit" /\ j' = j + 1
           /\ UNCHANGED i
  <2>1. /\ page' \in Nat /\ found' \in Nat /\ page' + found' = i * WordBits + j + 1
        /\ Range(page', found') \subseteq free
    BY <1>4, <1>5, <1>6, <1>7 DEF Range
  <2>2. page' \in Page /\ found' \in 0..Words * WordBits
    BY <1>4, <1>5, <1>7, <2>1 DEF Page
  <2>3. TypeOK'
    BY <1>1, <1>4, <1>7, <2>2 DEF TypeOK, PC
  <2>4. pc'[c] = "markUsed" => Range(page', pages'[c]) \subseteq free'
    BY <1>4, <1>7, <2>1 DEF Range
  <2>5. pc'[c] = "bit" => page' + found' = i' * WordBits + j'
    BY <1>4, <1>5, <1>7, <2>1
  <2>6. Searching'
    BY <1>3, <1>4, <1>7, <2>1, <2>4, <2>5 DEF Searching, Position
  <2> QED
    BY <1>2, <2>3, <2>6
<1>8. CASE j < WordBits /\ found' = 0 /\ j' = j + 1 /\ UNCHANGED <<i, page, pc>>
  <2>1. TypeOK'
    BY <1>4, <1>8 DEF TypeOK, PMemoryAssumption
  <2>2. Searching'
    BY <1>3, <1>4, <1>8 DEF Searching
  <2> QED
    BY <1>2, <2>1, <2>2
<1>9. CASE /\ j = WordBits
           /\ \/ pc'[c] = "markUsed" /\ found > pages[c]
              \/ pc'[c] = "word"
           /\ i' = i + 1
           /\ UNCHANGED <<j, found, page>>
  <2>1. TypeOK'
    BY <1>1, <1>4, <1>9 DEF TypeOK, PC
  <2>2. pc'[c] = "markUsed" => Range(page', pages'[c]) \subseteq free'
    BY <1>4, <1>6, <1>9 DEF Range
  <2>3. found' # 0 => page' + found' = i' * WordBits /\ i' * WordBits \in Int
    BY <1>4, <1>5, <1>6, <1>9
  <2>4. Searching'
    BY <1>3, <1>4, <1>6, <1>9, <2>2, <2>3 DEF Searching, Position
  <2> QED
    BY <1>2, <2>1, <2>4
<1> QED
  BY <1>1, <1>4, <1>7, <1>8, <1>9 DEF Enough, NextWord, TypeOK

-----------------------------------------------------------------------------
(* The pages found leave the bitmap.                                       *)
LEMMA MarksUsed ==
    ASSUME PMemoryAssumption, PInv, NEW c \in Caller, MarkUsed(c)
    PROVE  PInv'
<1> USE DEF PInv, MarkUsed
<1> DEFINE Used == IF page # 0 THEN Range(page, pages[c]) ELSE {}
<1>1. Used \subseteq free /\ free' = free \ Used
  BY DEF Searching, UsedPages
<1>2. TypeOK'
  BY <1>1 DEF TypeOK, PC, scan
<1>3. \A d \in Caller : d # c => pc'[d] = pc[d] /\ pc'[d] \in {"idle", "alloc", "free"}
  BY Alone DEF TypeOK, Critical
<1>4. pc'[c] = "return"
  BY DEF TypeOK
<1>5. Exclusion' /\ Searching'
  BY <1>3, <1>4 DEF Exclusion, Searching, Critical
<1>6. \A d \in Caller : d # c => InTransit(d)' = InTransit(d)
  BY <1>3 DEF InTransit
<1>7. InTransit(c) = {} /\ InTransit(c)' = Used
  BY <1>4 DEF InTransit, scan
<1>8. PagesOwnedOnce'
  <2> SUFFICES ASSUME NEW d \in Caller
               PROVE  /\ (held[d] \cup InTransit(d)') \cap (free \ Used) = {}
                      /\ held[d] \cap InTransit(d)' = {}
                      /\ \A e \in Caller \ {d} :
                           (held[d] \cup InTransit(d)') \cap (held[e] \cup InTransit(e)') = {}
    BY <1>1 DEF PagesOwnedOnce
  <2>1. \A e \in Caller : InTransit(e)' = IF e = c THEN Used ELSE InTransit(e)
    BY <1>6, <1>7
  <2> HIDE DEF Used
  <2> QED
    BY <1>1, <1>7, <2>1 DEF PagesOwnedOnce
<1>9. NoPageLost'
  <2>1. \A e \in Caller : InTransit(e)' = IF e = c THEN Used ELSE InTransit(e)
    BY <1>6, <1>7
  <2> HIDE DEF Used
  <2> QED
    BY <1>1, <1>7, <2>1 DEF NoPageLost
<1> QED
  BY <1>2, <1>5, <1>8, <1>9

(* The pages given back enter the bitmap.                                  *)
LEMMA MarksFree ==
    ASSUME PMemoryAssumption, PInv, NEW c \in Caller, MarkFree(c)
    PROVE  PInv'
<1> USE DEF PInv, MarkFree
<1> DEFINE Freed == Range(first[c], pages[c])
<1>1. InTransit(c) = Freed /\ free' = free \cup Freed /\ page = 0
  BY DEF InTransit, FreedPages, Searching
<1>2. Freed \subseteq usable
  BY <1>1 DEF NoPageLost
<1>3. TypeOK'
  BY <1>1, <1>2 DEF TypeOK, PC, scan
<1>4. \A d \in Caller : d # c => pc'[d] = pc[d] /\ pc'[d] \in {"idle", "alloc", "free"}
  BY Alone DEF TypeOK, Critical
<1>5. pc'[c] = "return"
  BY DEF TypeOK
<1>6. Exclusion' /\ Searching'
  BY <1>4, <1>5 DEF Exclusion, Searching, Critical
<1>7. \A d \in Caller : d # c => InTransit(d)' = InTransit(d)
  BY <1>4 DEF InTransit
<1>8. InTransit(c)' = {}
  BY <1>1, <1>5 DEF InTransit, scan
<1>9. \A e \in Caller : InTransit(e)' = IF e = c THEN {} ELSE InTransit(e)
  BY <1>7, <1>8
<1> HIDE DEF Freed
<1>10. PagesOwnedOnce'
  BY <1>1, <1>9 DEF PagesOwnedOnce
<1>11. NoPageLost'
  BY <1>1, <1>9 DEF NoPageLost
<1> QED
  BY <1>3, <1>6, <1>10, <1>11

(* The caller gets what was in transit.                                    *)
LEMMA Unlocks ==
    ASSUME PMemoryAssumption, PInv, NEW c \in Caller, Unlock(c)
    PROVE  PInv'
<1> USE DEF PInv, Unlock
<1>1. held' = [held EXCEPT ![c] = @ \cup InTransit(c)]
  BY DEF InTransit, TypeOK
<1>2. InTransit(c) \subseteq Page
  BY DEF NoPageLost, TypeOK
<1>3. boot' \in {"directory", "trampolines", "up", "failed"}
  BY DEF BootNext, TypeOK
<1>4. TypeOK'
  <2> HIDE DEF Unlock
  <2>1. /\ held' \in [Caller -> SUBSET Page]
    BY <1>1, <1>2 DEF TypeOK
  <2> QED
    BY <1>3, <2>1 DEF TypeOK, PC, scan, Unlock
<1>5. \A d \in Caller : d # c => pc'[d] = pc[d] /\ pc'[d] \in {"idle", "alloc", "free"}
  BY Alone DEF TypeOK, Critical
<1>6. pc'[c] = "idle"
  BY DEF TypeOK
<1>7. Exclusion' /\ Searching'
  BY <1>5, <1>6 DEF Exclusion, Searching, Critical, PMemoryAssumption
<1>8. \A d \in Caller : d # c => InTransit(d)' = InTransit(d) /\ held'[d] = held[d]
  BY <1>5 DEF InTransit, TypeOK
<1>9. InTransit(c)' = {} /\ held'[c] = held[c] \cup InTransit(c)
  BY <1>1, <1>6 DEF InTransit, TypeOK
<1>10. PagesOwnedOnce' /\ NoPageLost'
  BY <1>8, <1>9, OwnersKept DEF PagesOwnedOnce
<1> QED
  BY <1>4, <1>7, <1>10

(* What changes nothing breaks nothing.                                    *)
LEMMA Stutters == ASSUME PInv, UNCHANGED vars PROVE PInv'
BY DEF vars, scan, PInv, TypeOK, Exclusion, Searching, Position, PagesOwnedOnce, NoPageLost, InTransit

(* Every step of a caller, of pm_init() or of the halted kernel keeps the  *)
(* invariant.                                                              *)
LEMMA Inductive == ASSUME PMemoryAssumption, PInv, [Next]_vars PROVE PInv'
<1>1. 0 \in Page /\ Directory \in Page /\ Trampolines \in Page
      /\ 1 \in 0..MaxPages /\ TrampolinePages \in 0..MaxPages /\ Boot \in Caller
  BY WordBounds DEF Page, PMemoryAssumption
<1>2. CASE ReserveDirectory
  BY <1>1, <1>2, CallAlloc DEF ReserveDirectory
<1>3. CASE ReserveTrampolines
  BY <1>1, <1>3, CallAlloc DEF ReserveTrampolines
<1>4. ASSUME NEW c \in Caller, NEW n \in 1..MaxPages, PmAlloc(c, n) PROVE PInv'
  <2>1. n \in 0..MaxPages
    BY DEF PMemoryAssumption
  <2> QED
    BY <1>1, <1>4, <2>1, CallAlloc DEF PmAlloc
<1>5. ASSUME NEW c \in Caller, NEW p \in Page, NEW n \in 1..MaxPages, PmFree(c, p, n) PROVE PInv'
  BY <1>5, CallFree
<1>6. ASSUME NEW c \in Caller, Lock(c) \/ Step(c) PROVE PInv'
  BY <1>6, Locks, ScansWord, ScansBit, MarksUsed, MarksFree, Unlocks DEF Step
<1>7. CASE Halted \/ UNCHANGED vars
  BY <1>7, Stutters DEF Halted
<1> QED
  BY <1>2, <1>3, <1>4, <1>5, <1>6, <1>7 DEF Next

(* pm_alloc() never hands out a page that has an owner, pm_free() never    *)
(* gives back a page that is free or that another caller has, and no page  *)
(* is lost between them: for every size of the bitmap, every memory map    *)
(* and any number of threads preempted anywhere in the search.             *)
THEOREM PagesExclusive ==
    ASSUME PMemoryAssumption PROVE Spec => [](PagesOwnedOnce /\ NoPageLost)
<1>1. Init => PInv
  BY Initially
<1>2. PInv /\ [Next]_vars => PInv'
  BY Inductive
<1>3. PInv => PagesOwnedOnce /\ NoPageLost
  BY DEF PInv
<1> QED
  BY <1>1, <1>2, <1>3, PTL DEF Spec

-----------------------------------------------------------------------------
(* What the search has passed: a run of free pages from s on that reaches  *)
(* the position q is no longer than f, and none up to there has more than  *)
(* n pages.                                                                *)
Longest(s, q, f) == \A p \in s..q : Range(p, q - p) \subseteq free => p >= q - f
NoneYet(s, q, n) == \A p \in s..q : p + n + 1 <= q => ~ (Range(p, n + 1) \subseteq free)

Start(c) == (first[c] \div WordBits) * WordBits

Passed ==
    \A c \in Caller : pc[c] \in {"word", "bit"} =>
        /\ found <= pages[c]
        /\ Start(c) \in Nat /\ Start(c) <= Position(c)
        /\ Longest(Start(c), Position(c), found)
        /\ NoneYet(Start(c), Position(c), pages[c])

FInv == PInv /\ Passed /\ FailsOnlyWhenFull

(* Free pages at the position make the run longer.                         *)
LEMMA RunGrows ==
    ASSUME NEW s \in Nat, NEW q \in Nat, NEW f \in Nat, NEW n \in Nat, NEW w \in Nat \ {0},
           s <= q, Longest(s, q, f), NoneYet(s, q, n), f + w <= n
    PROVE  Longest(s, q + w, f + w) /\ NoneYet(s, q + w, n)
<1>1. ASSUME NEW p \in s..q + w, Range(p, q + w - p) \subseteq free PROVE p >= q + w - (f + w)
  <2>1. CASE p <= q
    <3>1. Range(p, q - p) \subseteq free
      BY <1>1, <2>1 DEF Range
    <3> QED
      BY <2>1, <3>1 DEF Longest
  <2> QED
    BY <2>1
<1>2. ASSUME NEW p \in s..q + w, p + n + 1 <= q + w, Range(p, n + 1) \subseteq free PROVE FALSE
  <2>1. CASE p + n + 1 <= q
    BY <1>2, <2>1 DEF NoneYet
  <2>2. CASE p + n + 1 > q
    <3>1. p < q - f
      BY <1>2
    <3>2. Range(p, q - p) \subseteq free
      BY <1>2, <2>2 DEF Range
    <3> QED
      BY <3>1, <3>2 DEF Longest
  <2> QED
    BY <2>1, <2>2
<1> QED
  BY <1>1, <1>2 DEF Longest, NoneYet

(* Used pages at the position end every run.                               *)
LEMMA RunEnds ==
    ASSUME NEW s \in Nat, NEW q \in Nat, NEW n \in Nat, NEW w \in Nat \ {0},
           s <= q, NoneYet(s, q, n), Range(q, w) \cap free = {}
    PROVE  Longest(s, q + w, 0) /\ NoneYet(s, q + w, n)
<1>1. ASSUME NEW p \in s..q + w, Range(p, q + w - p) \subseteq free PROVE p >= q + w
  <2> SUFFICES ASSUME p < q + w PROVE FALSE
    OBVIOUS
  <2>1. q + w - 1 \in Range(p, q + w - p) /\ q + w - 1 \in Range(q, w)
    BY DEF Range
  <2> QED
    BY <1>1, <2>1
<1>2. ASSUME NEW p \in s..q + w, p + n + 1 <= q + w, Range(p, n + 1) \subseteq free PROVE FALSE
  <2>1. CASE p + n + 1 <= q
    BY <1>2, <2>1 DEF NoneYet
  <2>2. CASE p + n + 1 > q
    <3>1. p + n \in Range(p, n + 1) /\ p + n \in Range(q, w)
      BY <1>2, <2>2 DEF Range
    <3> QED
      BY <1>2, <3>1
  <2> QED
    BY <2>1, <2>2
<1> QED
  BY <1>1, <1>2 DEF Longest, NoneYet

(* Where nobody searches there is nothing to show.                         *)
LEMMA NobodySearches ==
    ASSUME \A c \in Caller : pc'[c] \notin {"word", "bit", "markUsed"}
    PROVE  Passed' /\ FailsOnlyWhenFull'
BY DEF Passed, FailsOnlyWhenFull

(* A call leaves the search of the others alone.                           *)
LEMMA CallPasses ==
    ASSUME FInv, NEW c \in Caller, NEW at \in {"alloc", "free"}, NEW p, NEW n,
           Call(c, at, p, n)
    PROVE  Passed' /\ FailsOnlyWhenFull'
<1>1. \A d \in Caller : \/ pc'[d] \notin {"word", "bit", "markUsed"}
                        \/ pc'[d] = pc[d] /\ first'[d] = first[d] /\ pages'[d] = pages[d]
  BY DEF Call, FInv, PInv, TypeOK
<1>2. UNCHANGED <<free, i, j, found, page>>
  BY DEF Call, scan
<1>3. Passed'
  BY <1>1, <1>2 DEF FInv, Passed, Start, Position, Longest, NoneYet
<1>4. FailsOnlyWhenFull'
  BY <1>1, <1>2 DEF FInv, FailsOnlyWhenFull
<1> QED
  BY <1>3, <1>4

(* A search begins at the word of the limit.                               *)
LEMMA LockPasses ==
    ASSUME PMemoryAssumption, FInv, NEW c \in Caller, Lock(c)
    PROVE  Passed' /\ FailsOnlyWhenFull'
<1> USE DEF Lock, FInv, PInv
<1>1. \A d \in Caller : pc[d] \notin Critical
  BY DEF Exclusion, PMemoryAssumption
<1>2. \A d \in Caller : d # c => pc'[d] \notin {"word", "bit", "markUsed"}
  BY <1>1 DEF TypeOK, Critical
<1>3. pc'[c] \in {"word", "markFree"} /\ found' = 0
  BY DEF TypeOK
<1>4. FailsOnlyWhenFull'
  BY <1>2, <1>3 DEF FailsOnlyWhenFull
<1>5. first[c] \in Nat /\ pages[c] \in Nat /\ WordBits \in Nat \ {0}
  BY DEF TypeOK, Page, PMemoryAssumption
<1>6. first[c] \div WordBits \in Nat
  BY <1>5
<1>7. \A a, b \in Nat : a * b \in Nat
  OBVIOUS
<1>8. Start(c)' \in Nat
  BY <1>5, <1>6, <1>7 DEF Start
<1>9. pc'[c] = "word" => Position(c)' = Start(c)'
  <2> SUFFICES ASSUME pc'[c] = "word" PROVE i' * WordBits + 0 = i' * WordBits
    BY DEF Position, Start
  <2>1. i' * WordBits \in Nat
    BY <1>5, <1>6, <1>7
  <2> QED
    BY <2>1
<1>10. pc'[c] = "word" => /\ Longest(Start(c), Position(c), found)'
                          /\ NoneYet(Start(c), Position(c), pages[c])'
  BY <1>3, <1>5, <1>8, <1>9 DEF Longest, NoneYet
<1>11. Passed'
  BY <1>2, <1>3, <1>5, <1>8, <1>9, <1>10 DEF Passed
<1> QED
  BY <1>4, <1>11

(* A search that found enough has a page: page 0 is never free.            *)
LEMMA EnoughHasPage ==
    ASSUME PInv, NEW p \in Nat, NEW n \in Nat \ {0}, Range(p, n) \subseteq free
    PROVE  p # 0
<1>1. p \in Range(p, n)
  BY DEF Range
<1>2. 0 \notin free
  BY DEF PInv, TypeOK
<1> QED
  BY <1>1, <1>2

(* A turn of the outer loop passes a word: a used one ends the run, a free *)
(* one makes it longer, and behind the last one there is nothing left.     *)
LEMMA ScanWordPasses ==
    ASSUME PMemoryAssumption, FInv, NEW c \in Caller, ScanWord(c)
    PROVE  Passed' /\ FailsOnlyWhenFull'
<1> USE DEF FInv, PInv, ScanWord
<1> DEFINE q == i * WordBits
<1>1. \A d \in Caller : d # c => pc'[d] \notin {"word", "bit", "markUsed"}
  BY Alone DEF TypeOK, Critical
<1>2. /\ i \in Nat /\ found \in Nat /\ page \in Nat /\ pages[c] \in Nat
      /\ WordBits \in Nat \ {0} /\ Words \in Nat /\ i <= Words
  BY DEF TypeOK, Page, PMemoryAssumption
<1>3. /\ q \in Nat /\ Words * WordBits \in Nat
      /\ (i + 1) * WordBits = q + WordBits
  BY <1>2, WordBounds
<1>4. Position(c) = q
  BY <1>3 DEF Position
<1>5. /\ found <= pages[c] /\ Start(c) \in Nat /\ Start(c) <= q
      /\ Longest(Start(c), q, found) /\ NoneYet(Start(c), q, pages[c])
  BY <1>4 DEF Passed
<1>6. UNCHANGED <<free, first, pages>> /\ Start(c)' = Start(c)
  BY DEF Start
<1> HIDE DEF q
<1>7. CASE i = Words /\ page' = 0 /\ pc'[c] = "markUsed"
  <2>1. Passed'
    BY <1>1, <1>7 DEF Passed
  <2>2. \A p \in Page : p >= Start(c) => ~ (Range(p, pages[c] + 1) \subseteq free)
    <3> SUFFICES ASSUME NEW p \in Page, p >= Start(c), Range(p, pages[c] + 1) \subseteq free
                 PROVE  FALSE
      OBVIOUS
    <3>1. p \in Nat /\ p + pages[c] \in Range(p, pages[c] + 1)
      BY <1>2 DEF Range, Page
    <3>2. p + pages[c] \in Page
      BY <3>1 DEF TypeOK
    <3>3. p + pages[c] + 1 <= q
      BY <1>2, <1>3, <1>7, <3>1, <3>2 DEF Page, q
    <3> QED
      BY <1>2, <1>3, <1>5, <3>1, <3>3 DEF NoneYet
  <2>3. FailsOnlyWhenFull'
    BY <1>1, <1>6, <2>2 DEF FailsOnlyWhenFull, Start
  <2> QED
    BY <2>1, <2>3
<1>8. CASE /\ WordOf(i) \cap free = {} /\ found' = 0 /\ i' = i + 1 /\ pc'[c] = "word"
  <2>1. Position(c)' = q + WordBits
    BY <1>2, <1>3, <1>8 DEF Position
  <2>2. Range(q, WordBits) \cap free = {}
    BY <1>8 DEF WordOf, q
  <2>3. Longest(Start(c), q + WordBits, 0) /\ NoneYet(Start(c), q + WordBits, pages[c])
    BY <1>2, <1>3, <1>5, <2>2, RunEnds
  <2>4. Passed'
    BY <1>1, <1>2, <1>3, <1>5, <1>6, <1>8, <2>1, <2>3 DEF Passed, Longest, NoneYet
  <2>5. FailsOnlyWhenFull'
    BY <1>1, <1>8 DEF FailsOnlyWhenFull
  <2> QED
    BY <2>4, <2>5
<1>9. CASE /\ WordOf(i) \subseteq free /\ found' = found + WordBits
           /\ ~ (found' > pages[c]) /\ i' = i + 1 /\ pc'[c] = "word"
  <2>1. Position(c)' = q + WordBits
    BY <1>2, <1>3, <1>9 DEF Position
  <2>2. /\ Longest(Start(c), q + WordBits, found + WordBits)
        /\ NoneYet(Start(c), q + WordBits, pages[c])
    <3>1. found + WordBits <= pages[c]
      BY <1>2, <1>9
    <3> HIDE DEF FInv, PInv, ScanWord
    <3> QED
      BY <1>2, <1>3, <1>5, <3>1, RunGrows
  <2>3. Passed'
    BY <1>1, <1>2, <1>3, <1>5, <1>6, <1>9, <2>1, <2>2 DEF Passed, Longest, NoneYet
  <2>4. FailsOnlyWhenFull'
    BY <1>1, <1>9 DEF FailsOnlyWhenFull
  <2> QED
    BY <2>3, <2>4
<1>10. CASE /\ WordOf(i) \subseteq free /\ page' = IF found = 0 THEN i * WordBits ELSE page
            /\ found' = found + WordBits /\ pc'[c] = "markUsed"
  <2>1. page' # 0
    <3>1. found # 0 => Range(page, found) \subseteq free /\ page + found = q
      BY <1>4 DEF Searching
    <3>2. page' \in Nat /\ found' \in Nat \ {0} /\ Range(page', found') \subseteq free
      BY <1>2, <1>3, <1>10, <3>1 DEF WordOf, Range, q
    <3> QED
      BY <3>2, EnoughHasPage
  <2> QED
    BY <1>1, <1>10, <2>1 DEF Passed, FailsOnlyWhenFull
<1>11. CASE pc'[c] = "bit" /\ j' = 0 /\ UNCHANGED <<i, found, page>>
  <2>1. Position(c)' = q
    BY <1>2, <1>3, <1>11 DEF Position, q
  <2>2. Passed'
    BY <1>1, <1>5, <1>6, <1>11, <2>1 DEF Passed, Longest, NoneYet
  <2>3. FailsOnlyWhenFull'
    BY <1>1, <1>11 DEF FailsOnlyWhenFull
  <2> QED
    BY <2>2, <2>3
<1> QED
  BY <1>7, <1>8, <1>9, <1>10, <1>11 DEF Enough, NextWord, TypeOK

(* The same of a turn of the inner loop and its single pages.              *)
LEMMA ScanBitPasses ==
    ASSUME PMemoryAssumption, FInv, NEW c \in Caller, ScanBit(c)
    PROVE  Passed' /\ FailsOnlyWhenFull'
<1> USE DEF FInv, PInv, ScanBit, BitsInWord
<1> DEFINE q == i * WordBits + j
<1>1. \A d \in Caller : d # c => pc'[d] \notin {"word", "bit", "markUsed"}
  BY Alone DEF TypeOK, Critical
<1>2. /\ i \in Nat /\ j \in Nat /\ found \in Nat /\ page \in Nat /\ pages[c] \in Nat
      /\ WordBits \in Nat \ {0} /\ i < Words /\ Words \in Nat
  BY DEF TypeOK, Page, PMemoryAssumption, Searching
<1>3. q \in Nat /\ i * WordBits \in Nat /\ (i + 1) * WordBits = i * WordBits + WordBits
  BY <1>2, WordBounds
<1>4. Position(c) = q
  BY DEF Position
<1>5. /\ found <= pages[c] /\ Start(c) \in Nat /\ Start(c) <= q
      /\ Longest(Start(c), q, found) /\ NoneYet(Start(c), q, pages[c])
  BY <1>4 DEF Passed
<1>6. UNCHANGED <<free, first, pages>> /\ Start(c)' = Start(c)
  BY DEF Start
<1>7. CASE /\ q \in free /\ found' = found + 1
           /\ ~ (found' > pages[c]) /\ j' = j + 1 /\ pc'[c] = "bit" /\ UNCHANGED i
  <2>1. Position(c)' = q + 1
    BY <1>2, <1>3, <1>7 DEF Position
  <2> HIDE DEF q
  <2>2. Longest(Start(c), q + 1, found + 1) /\ NoneYet(Start(c), q + 1, pages[c])
    BY <1>2, <1>3, <1>5, <1>7, RunGrows
  <2>3. Passed'
    BY <1>1, <1>2, <1>3, <1>5, <1>6, <1>7, <2>1, <2>2 DEF Passed, Longest, NoneYet
  <2>4. FailsOnlyWhenFull'
    BY <1>1, <1>7 DEF FailsOnlyWhenFull
  <2> QED
    BY <2>3, <2>4
<1>8. CASE /\ q \in free /\ page' = IF found = 0 THEN q ELSE page
           /\ found' = found + 1 /\ pc'[c] = "markUsed"
  <2>1. page' # 0
    <3>1. found # 0 => Range(page, found) \subseteq free /\ page + found = q
      BY <1>4 DEF Searching
    <3>2. page' \in Nat /\ found' \in Nat \ {0} /\ Range(page', found') \subseteq free
      BY <1>2, <1>3, <1>8, <3>1 DEF Range
    <3> QED
      BY <3>2, EnoughHasPage
  <2> QED
    BY <1>1, <1>8, <2>1 DEF Passed, FailsOnlyWhenFull
<1>9. CASE q \notin free /\ found' = 0 /\ j' = j + 1 /\ pc'[c] = "bit" /\ UNCHANGED i
  <2>1. Position(c)' = q + 1
    BY <1>2, <1>3, <1>9 DEF Position
  <2> HIDE DEF q
  <2>2. Range(q, 1) \cap free = {}
    BY <1>3, <1>9 DEF Range
  <2>3. Longest(Start(c), q + 1, 0) /\ NoneYet(Start(c), q + 1, pages[c])
    BY <1>2, <1>3, <1>5, <2>2, RunEnds
  <2>4. Passed'
    BY <1>1, <1>2, <1>3, <1>5, <1>6, <1>9, <2>1, <2>3 DEF Passed, Longest, NoneYet
  <2>5. FailsOnlyWhenFull'
    BY <1>1, <1>9 DEF FailsOnlyWhenFull
  <2> QED
    BY <2>4, <2>5
<1>10. CASE j = WordBits /\ pc'[c] = "word" /\ i' = i + 1 /\ UNCHANGED <<j, found, page>>
  <2>1. Position(c)' = q
    BY <1>2, <1>3, <1>10 DEF Position
  <2>2. Passed'
    BY <1>1, <1>5, <1>6, <1>10, <2>1 DEF Passed, Longest, NoneYet
  <2>3. FailsOnlyWhenFull'
    BY <1>1, <1>10 DEF FailsOnlyWhenFull
  <2> QED
    BY <2>2, <2>3
<1> QED
  BY <1>2, <1>5, <1>7, <1>8, <1>9, <1>10 DEF Enough, NextWord, TypeOK

(* What follows the search ends it, and what changes nothing keeps it.     *)
LEMMA OthersPass ==
    ASSUME PMemoryAssumption, FInv, NEW c \in Caller, MarkUsed(c) \/ MarkFree(c) \/ Unlock(c)
    PROVE  Passed' /\ FailsOnlyWhenFull'
<1> USE DEF FInv, PInv
<1>1. pc[c] \in Critical /\ pc'[c] \in {"return", "idle"}
      /\ \A d \in Caller : d # c => pc'[d] = pc[d]
  BY DEF MarkUsed, MarkFree, Unlock, TypeOK, Critical
<1>2. \A d \in Caller : pc'[d] \notin {"word", "bit", "markUsed"}
  BY <1>1, Alone
<1> QED
  BY <1>2, NobodySearches

(* Nobody searches at first.                                               *)
LEMMA FailsInitially == ASSUME PMemoryAssumption, Init PROVE FInv
<1>1. \A c \in Caller : pc[c] = "idle"
  BY DEF Init
<1> QED
  BY <1>1, Initially DEF FInv, Passed, FailsOnlyWhenFull

(* Every step keeps what the search has passed.                            *)
LEMMA FailsInductive == ASSUME PMemoryAssumption, FInv, [Next]_vars PROVE FInv'
<1>1. PInv'
  BY Inductive DEF FInv
<1>2. ASSUME ReserveDirectory \/ ReserveTrampolines PROVE Passed' /\ FailsOnlyWhenFull'
  BY <1>2, CallPasses DEF ReserveDirectory, ReserveTrampolines, PMemoryAssumption
<1>3. ASSUME NEW c \in Caller, NEW n \in 1..MaxPages, PmAlloc(c, n)
      PROVE  Passed' /\ FailsOnlyWhenFull'
  BY <1>3, CallPasses DEF PmAlloc
<1>4. ASSUME NEW c \in Caller, NEW p \in Page, NEW n \in 1..MaxPages, PmFree(c, p, n)
      PROVE  Passed' /\ FailsOnlyWhenFull'
  BY <1>4, CallPasses DEF PmFree
<1>5. ASSUME NEW c \in Caller, Lock(c) \/ Step(c) PROVE Passed' /\ FailsOnlyWhenFull'
  BY <1>5, LockPasses, ScanWordPasses, ScanBitPasses, OthersPass DEF Step
<1>6. ASSUME Halted \/ UNCHANGED vars PROVE Passed' /\ FailsOnlyWhenFull'
  BY <1>6 DEF Halted, vars, scan, FInv, Passed, FailsOnlyWhenFull, Start, Position, Longest,
              NoneYet
<1> QED
  BY <1>1, <1>2, <1>3, <1>4, <1>5, <1>6 DEF Next, FInv

(* A failed pm_alloc() tells the truth: there is no run of free pages from *)
(* the word of its limit on that is longer than what was asked for, for    *)
(* every bitmap and wherever the search was preempted.                     *)
THEOREM FailureIsTrue == ASSUME PMemoryAssumption PROVE Spec => []FailsOnlyWhenFull
<1>1. Init => FInv
  BY FailsInitially
<1>2. FInv /\ [Next]_vars => FInv'
  BY FailsInductive
<1>3. FInv => FailsOnlyWhenFull
  BY DEF FInv
<1> QED
  BY <1>1, <1>2, <1>3, PTL DEF Spec

-----------------------------------------------------------------------------
(* What keeps a search above its limit: pm_alloc() has none, the calls of  *)
(* pm_init() come one after the other, and the page of the directory,      *)
(* which is below the trampolines, is pm_init()'s by then.                 *)
Limits ==
    /\ \A c \in Caller : pc[c] # "idle" => pages[c] \in 1..MaxPages
    /\ \A c \in Caller \ {Boot} : pc[c] \in {"alloc", "word", "bit", "markUsed"} => first[c] = 0
    /\ pc[Boot] \notin {"free", "markFree"}
    /\ pc[Boot] # "idle" =>
         \/ boot = "directory" /\ first[Boot] = Directory
         \/ boot = "trampolines" /\ first[Boot] = Trampolines
    /\ boot = "trampolines" => Directory \in held[Boot]

(* Every step keeps the limits: only pm_init() itself moves on.            *)
LEMMA LimitsKept ==
    ASSUME PMemoryAssumption, PInv, Limits, [Next]_vars
    PROVE  Limits'
<1> USE DEF PInv, Limits
<1>0. Boot \in Caller /\ TrampolinePages \in 1..MaxPages /\ 1 \in 1..MaxPages
      /\ Directory # 0
  BY DEF PMemoryAssumption
<1>1. CASE ReserveDirectory
  BY <1>0, <1>1 DEF ReserveDirectory, Call, TypeOK
<1>2. CASE ReserveTrampolines
  BY <1>0, <1>2 DEF ReserveTrampolines, Call, TypeOK
<1>3. ASSUME NEW c \in Caller, NEW n \in 1..MaxPages, PmAlloc(c, n) PROVE Limits'
  BY <1>0, <1>3 DEF PmAlloc, Call, TypeOK
<1>4. ASSUME NEW c \in Caller, NEW p \in Page, NEW n \in 1..MaxPages, PmFree(c, p, n)
      PROVE  Limits'
  BY <1>0, <1>4 DEF PmFree, Call, TypeOK
<1>5. ASSUME NEW c \in Caller, Lock(c) PROVE Limits'
  BY <1>0, <1>5 DEF Lock, TypeOK
<1>6. ASSUME NEW c \in Caller, ScanWord(c) PROVE Limits'
  BY <1>0, <1>6 DEF ScanWord, TypeOK
<1>7. ASSUME NEW c \in Caller, ScanBit(c) PROVE Limits'
  BY <1>0, <1>7 DEF ScanBit, TypeOK
<1>8. ASSUME NEW c \in Caller, MarkUsed(c) \/ MarkFree(c) PROVE Limits'
  BY <1>0, <1>8 DEF MarkUsed, MarkFree, TypeOK
<1>9. ASSUME NEW c \in Caller, Unlock(c) PROVE Limits'
  <2>1. CASE c = Boot
    <3>1. boot' = "trampolines" => page = Directory /\ boot = "directory"
      BY <1>0, <1>9, <2>1 DEF Unlock, BootNext
    <3>2. boot' = "trampolines" => Directory \in held'[Boot]
      <4> SUFFICES ASSUME boot' = "trampolines" PROVE Directory \in held'[Boot]
        OBVIOUS
      <4>1. Directory \in Range(page, pages[Boot])
        BY <1>0, <1>9, <2>1, <3>1 DEF Unlock, Range, PMemoryAssumption
      <4> QED
        BY <1>0, <1>9, <2>1, <3>1, <4>1 DEF Unlock, TypeOK
    <3>3. pc' = [pc EXCEPT ![Boot] = "idle"] /\ UNCHANGED <<first, pages>>
      BY <1>9, <2>1 DEF Unlock
    <3> QED
      BY <1>0, <3>2, <3>3 DEF TypeOK
  <2>2. CASE c # Boot
    BY <1>0, <1>9, <2>2 DEF Unlock, TypeOK
  <2> QED
    BY <2>1, <2>2
<1>10. CASE Halted \/ UNCHANGED vars
  BY <1>10 DEF Halted, vars
<1> QED
  BY <1>1, <1>2, <1>3, <1>4, <1>5, <1>6, <1>7, <1>8, <1>9, <1>10 DEF Next, Step

(* A search that found pages found free ones: with the first two pages of  *)
(* memory used or reserved they are not below the limit.                   *)
LEMMA LimitRespected ==
    ASSUME PMemoryAssumption, Directory = 1, Trampolines = 2, PInv, Limits
    PROVE  NotBelowLimit
<1> SUFFICES ASSUME NEW c \in Caller, pc[c] = "markUsed", page # 0 PROVE page >= first[c]
  BY DEF NotBelowLimit
<1>1. page \in Nat /\ Range(page, pages[c]) \subseteq free /\ pages[c] \in 1..MaxPages
      /\ MaxPages \in Nat
  BY DEF PInv, TypeOK, Searching, Limits, Page, PMemoryAssumption
<1>2. page \in free
  BY <1>1 DEF Range
<1>3. CASE c # Boot
  BY <1>1, <1>3 DEF Limits
<1>4. CASE c = Boot /\ first[Boot] = Directory
  BY <1>1, <1>4
<1>5. CASE c = Boot /\ boot = "trampolines" /\ first[Boot] = Trampolines
  <2>1. Directory \in held[Boot]
    BY <1>5 DEF Limits
  <2>2. Directory \notin free
    BY <1>5, <2>1 DEF PInv, PagesOwnedOnce
  <2> QED
    BY <1>1, <1>2, <1>5, <2>2
<1> QED
  BY <1>3, <1>4, <1>5 DEF Limits

(* The whole promise of the allocator of physical pages, for every bitmap, *)
(* memory map and number of threads, where the kernel's directory is in    *)
(* the first page after page 0 and the trampolines are in the next ones,   *)
(* as VM_KERNEL_DIRECTORY_ADDRESS and IR_TRAMPOLINE_PHYSICAL have them.    *)
THEOREM PagesAreExact ==
    ASSUME PMemoryAssumption, Directory = 1, Trampolines = 2
    PROVE  Spec => []PagesExact
<1>1. Init => FInv /\ Limits
  <2>1. Init => FInv
    BY FailsInitially
  <2>2. Init => Limits
    BY DEF Init, Limits, PMemoryAssumption
  <2> QED
    BY <2>1, <2>2
<1>2. (FInv /\ Limits) /\ [Next]_vars => (FInv /\ Limits)'
  <2>1. FInv /\ [Next]_vars => FInv'
    BY FailsInductive
  <2>2. FInv => PInv
    BY DEF FInv
  <2> QED
    BY <2>1, <2>2, LimitsKept
<1>3. FInv /\ Limits => PagesExact
  BY LimitRespected DEF FInv, PInv, PagesExact
<1> QED
  BY <1>1, <1>2, <1>3, PTL DEF Spec
=============================================================================
