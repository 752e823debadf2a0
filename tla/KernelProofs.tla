---------------------------- MODULE KernelProofs ----------------------------
(***************************************************************************)
(* A file of the ffs file system keeps what was written to it: WritesKept  *)
(* of FileData, for any files, accesses, page, chunk and file size.  An    *)
(* interrupt calls the handlers of its vector, whatever registrations it   *)
(* arrives in the middle of: InterruptsDelivered of Interrupts, for any    *)
(* drivers and vectors.                                                    *)
(***************************************************************************)
EXTENDS FileData, Interrupts, FiniteSetTheorems, WellFoundedInduction, TLAPS

(* Most leaves are first order reasoning; those that need more name their  *)
(* prover.                                                                 *)
USE Zenon

(* The data of files.                                                      *)

Opened == [offset : 0..MaxSize, access : SUBSET {"reads", "writes"}]

(* The memory has the pages that are counted, or there is none yet; no     *)
(* node is larger than its data.                                           *)
FileTypeOK ==
    /\ pages \in Nat
    /\ size \in 0..MaxSize
    /\ nodeSize \in 0..size
    /\ open \in [File -> {Nothing} \cup Opened]
    /\ memory = Nothing => pages = 0 /\ DOMAIN written = {}
    /\ memory # Nothing => /\ memory \in [0..Capacity - 1 -> Byte \cup {Junk}]
                        /\ Capacity \in 0..MaxSize + PageSize

(* A byte that was written is before the end of the file, which is what    *)
(* ffs_node_allocateMemory() copies to memory of more pages.               *)
Kept ==
    \A o \in DOMAIN written :
        o \in 0..size - 1 /\ o \in DOMAIN memory /\ memory[o] = written[o]

FileInv ==
    /\ FileTypeOK
    /\ ~crossed => Kept
    /\ crossed => truncated
    /\ ~truncated => \A f \in File : open[f] # Nothing => open[f].offset <= size

-----------------------------------------------------------------------------
(* The pages for n bytes hold them, and less than a page more.             *)
LEMMA PagesCover ==
    ASSUME FileDataAssumption, NEW n \in Nat
    PROVE  /\ PageCount(n) \in Nat
           /\ PageCount(n) * PageSize \in Nat
           /\ n <= PageCount(n) * PageSize
           /\ PageCount(n) * PageSize < n + PageSize
<1>1. PageSize \in Nat \ {0}
  BY DEF FileDataAssumption
<1>2. PICK m \in Nat : m = n + PageSize - 1
  BY <1>1, SMT
<1>3. PICK q \in Nat : q = m \div PageSize
  BY <1>1, <1>2, SMT
<1>4. PICK r \in 0..PageSize - 1 : r = m % PageSize
  BY <1>1, <1>2, SMT
<1>5. m = PageSize * q + r
  BY <1>1, <1>2, <1>3, <1>4, SMT
<1>6. q * PageSize = PageSize * q /\ q * PageSize \in Nat
  BY <1>1, <1>3, SMT
<1>7. PICK p \in Nat : p = q * PageSize
  BY <1>6
<1>8. n <= p /\ p < n + PageSize
  BY <1>1, <1>2, <1>4, <1>5, <1>6, <1>7, SMT
<1> QED
  BY <1>2, <1>3, <1>7, <1>8 DEF PageCount

(* More pages have more bytes.                                             *)
LEMMA MorePages ==
    ASSUME FileDataAssumption, NEW a \in Nat, NEW b \in Nat, a <= b
    PROVE  a * PageSize \in Nat /\ b * PageSize \in Nat /\ a * PageSize <= b * PageSize
<1>1. PageSize \in Nat
  BY DEF FileDataAssumption
<1>2. PICK d \in Nat : b = a + d
  BY SMT
<1>3. b * PageSize = a * PageSize + d * PageSize
  BY <1>1, <1>2, SMT
<1>4. a * PageSize \in Nat /\ d * PageSize \in Nat /\ b * PageSize \in Nat
  BY <1>1, <1>2, SMT
<1> QED
  BY <1>3, <1>4, SMT

(* ffs_node_allocateMemory(): there is memory for what was asked for, and  *)
(* what was written is in it.                                              *)
LEMMA Allocation ==
    ASSUME FileDataAssumption, FileTypeOK, NEW n \in 1..MaxSize
    PROVE  /\ Allocated(n) \in Nat
           /\ Allocated(n) * PageSize \in n..MaxSize + PageSize
           /\ Moved(n) \in [0..Allocated(n) * PageSize - 1 -> Byte \cup {Junk}]
           /\ Moved(n) # Nothing
           /\ Kept => \A o \in DOMAIN written :
                        o \in 0..Allocated(n) * PageSize - 1 /\ Moved(n)[o] = written[o]
<1>1. /\ PageSize \in Nat \ {0} /\ MaxSize \in Nat /\ pages \in Nat /\ size \in 0..MaxSize
      /\ n \in Nat /\ n <= MaxSize
  BY SMT DEF FileDataAssumption, FileTypeOK
<1>2. /\ PageCount(n) \in Nat /\ PageCount(n) * PageSize \in Nat
      /\ n <= PageCount(n) * PageSize /\ PageCount(n) * PageSize < n + PageSize
  BY <1>1, PagesCover
<1>3. PICK a : a = Allocated(n)
  OBVIOUS
<1>4. a \in Nat
  BY <1>1, <1>2, <1>3 DEF Allocated
<1>5. PICK c : c = a * PageSize
  OBVIOUS
<1>6. PICK m : m = Moved(n)
  OBVIOUS
<1>7. /\ c \in n..MaxSize + PageSize
      /\ memory # Nothing => pages <= a /\ Capacity \in Nat /\ Capacity <= c
  <2>1. CASE memory = Nothing \/ PageCount(n) > pages
    <3>1. a = PageCount(n)
      BY <2>1, <1>3 DEF Allocated
    <3>2. c \in n..MaxSize + PageSize
      BY <1>1, <1>2, <1>5, <3>1, SMT
    <3>3. memory # Nothing => pages <= a
      BY <1>1, <1>2, <2>1, <3>1, SMT
    <3>4. memory # Nothing => Capacity \in Nat /\ Capacity <= c
      BY <1>1, <1>4, <1>5, <3>3, MorePages DEF Capacity
    <3> QED
      BY <3>2, <3>3, <3>4
  <2>2. CASE memory # Nothing /\ ~ (PageCount(n) > pages)
    <3>1. a = pages /\ c = Capacity
      BY <2>2, <1>3, <1>5 DEF Allocated, Capacity
    <3>2. Capacity \in 0..MaxSize + PageSize
      BY <2>2 DEF FileTypeOK
    <3>3. PageCount(n) * PageSize <= pages * PageSize
      BY <1>1, <1>2, <2>2, MorePages, SMT
    <3> QED
      BY <1>1, <1>2, <3>1, <3>2, <3>3, SMT DEF Capacity
  <2> QED
    BY <2>1, <2>2
<1>8. m = [o \in 0..c - 1 |->
             IF memory = Nothing THEN Junk
             ELSE IF a = pages THEN memory[o]
             ELSE IF o < size /\ o < Capacity THEN memory[o] ELSE Junk]
  BY <1>3, <1>5, <1>6 DEF Moved
<1>9. memory # Nothing /\ a = pages => c = Capacity
  BY <1>5 DEF Capacity
<1>10. m \in [0..c - 1 -> Byte \cup {Junk}]
  <2>1. ASSUME NEW o \in 0..c - 1 PROVE m[o] \in Byte \cup {Junk}
    <3>1. CASE memory = Nothing
      BY <1>8, <3>1
    <3>2. CASE memory # Nothing
      <4>1. memory \in [0..Capacity - 1 -> Byte \cup {Junk}] /\ Capacity \in Nat /\ c \in Nat
        BY <1>1, <1>7, <3>2, SMT DEF FileTypeOK
      <4> QED
        BY <1>8, <1>9, <3>2, <4>1, SMT
    <3> QED
      BY <3>1, <3>2
  <2> QED
    BY <1>8, <2>1
<1>11. m # Nothing
  BY <1>1, <1>7, <1>10, SMT DEF FileDataAssumption
<1>12. Kept => \A o \in DOMAIN written : o \in 0..c - 1 /\ m[o] = written[o]
  <2> SUFFICES ASSUME Kept, NEW o \in DOMAIN written
               PROVE  o \in 0..c - 1 /\ m[o] = written[o]
    OBVIOUS
  <2>1. memory # Nothing
    BY DEF FileTypeOK
  <2>2. /\ memory \in [0..Capacity - 1 -> Byte \cup {Junk}]
        /\ o \in 0..size - 1 /\ o \in DOMAIN memory /\ memory[o] = written[o]
    BY <2>1 DEF FileTypeOK, Kept
  <2>3. o \in 0..c - 1 /\ o < size /\ o < Capacity
    BY <1>1, <1>7, <2>1, <2>2, SMT
  <2> QED
    BY <1>8, <2>1, <2>2, <2>3
<1> QED
  BY <1>3, <1>4, <1>5, <1>6, <1>7, <1>10, <1>11, <1>12, SMT

-----------------------------------------------------------------------------
(* What of the invariant is about the memory and not about the files.      *)
LEMMA MemoryStays ==
    ASSUME FileInv, UNCHANGED <<memory, pages, written, crossed>>,
           NEW s \in 0..MaxSize, size' = s, size <= s
    PROVE  /\ pages' \in Nat /\ size' \in 0..MaxSize
           /\ (memory = Nothing => pages = 0 /\ DOMAIN written = {})'
           /\ (memory # Nothing => /\ memory \in [0..Capacity - 1 -> Byte \cup {Junk}]
                                /\ Capacity \in 0..MaxSize + PageSize)'
           /\ (~crossed => Kept)'
<1>1. size \in Nat /\ s \in Nat
  BY SMT DEF FileInv, FileTypeOK
<1>2. Capacity' = Capacity
  BY DEF Capacity
<1>3. (~crossed => Kept)'
  BY <1>1, SMT DEF FileInv, Kept
<1> QED
  BY <1>2, <1>3 DEF FileInv, FileTypeOK

(* ffs_fileOpen(), with and without the truncation.                        *)
LEMMA OpenKeeps ==
    ASSUME FileDataAssumption, FileInv, NEW f \in File, FileOpen(f)
    PROVE  FileInv'
<1> USE DEF FileInv
<1>1. PICK access \in Access, append \in BOOLEAN, trunc \in BOOLEAN :
        /\ open[f] = Nothing
        /\ open' = IF access = {} THEN open
                   ELSE [open EXCEPT ![f] = [offset |-> IF append THEN nodeSize ELSE 0,
                                             access |-> access]]
        /\ IF trunc
           THEN /\ size' = 0 /\ nodeSize' = 0
                /\ written' = [o \in {} |-> Junk]
                /\ truncated' = (truncated \/ \E g \in File : open'[g] # Nothing
                                                   /\ (g = f => append))
           ELSE UNCHANGED <<size, nodeSize, written, truncated>>
        /\ UNCHANGED <<memory, pages, locked, crossed>>
  BY DEF FileOpen
<1>2. MaxSize \in Nat /\ size \in 0..MaxSize /\ nodeSize \in 0..size /\ access \in SUBSET {"reads", "writes"}
  BY DEF FileTypeOK, FileDataAssumption
<1>3. PICK at : at = IF append THEN nodeSize ELSE 0
  OBVIOUS
<1>4. at \in 0..MaxSize /\ at <= size
  BY <1>2, <1>3, SMT
<1>5. open' \in [File -> {Nothing} \cup Opened]
  <2>1. [offset |-> at, access |-> access] \in Opened
    BY <1>2, <1>4 DEF Opened
  <2> QED
    BY <1>1, <1>3, <2>1 DEF FileTypeOK
<1>6. ASSUME NEW g \in File, open'[g] # Nothing
      PROVE  \/ g # f /\ open'[g] = open[g]
             \/ g = f /\ open'[g].offset = at
  BY <1>1, <1>3, <1>6 DEF FileTypeOK
<1>7. CASE ~trunc
  <2>1. UNCHANGED <<memory, pages, written, crossed, size, nodeSize, truncated>>
    BY <1>1, <1>7
  <2>2. FileTypeOK' /\ (~crossed => Kept)'
    BY <1>2, <1>5, <2>1, MemoryStays, SMT DEF FileTypeOK
  <2>3. ~truncated' => \A g \in File : open'[g] # Nothing => open'[g].offset <= size'
    BY <1>4, <1>6, <2>1
  <2> QED
    BY <2>1, <2>2, <2>3
<1>8. CASE trunc
  <2>1. /\ size' = 0 /\ nodeSize' = 0 /\ written' = [o \in {} |-> Junk]
        /\ truncated' = (truncated \/ \E g \in File : open'[g] # Nothing /\ (g = f => append))
        /\ UNCHANGED <<memory, pages, crossed>>
    BY <1>1, <1>8
  <2>2. DOMAIN written' = {}
    BY <2>1
  <2>3. FileTypeOK'
    BY <1>2, <1>5, <2>1, <2>2, SMT DEF FileTypeOK, Capacity
  <2>4. Kept'
    BY <2>2 DEF Kept
  <2>5. ~truncated' => \A g \in File : open'[g] # Nothing => open'[g].offset <= size'
    <3> SUFFICES ASSUME ~truncated', NEW g \in File, open'[g] # Nothing
                 PROVE  open'[g].offset <= size'
      OBVIOUS
    <3>1. g = f /\ ~append
      BY <2>1
    <3>2. at = 0
      BY <1>3, <3>1
    <3> QED
      BY <1>6, <2>1, <3>1, <3>2, SMT
  <2>6. crossed' => truncated'
    BY <2>1
  <2> QED
    BY <2>3, <2>4, <2>5, <2>6
<1> QED
  BY <1>7, <1>8

(* A file that is closed is at no offset.                                  *)
LEMMA CloseKeeps ==
    ASSUME FileDataAssumption, FileInv, NEW f \in File, FileClose(f)
    PROVE  FileInv'
<1> USE DEF FileInv
<1>1. UNCHANGED <<memory, pages, written, crossed, size, nodeSize, truncated>>
      /\ open' = [open EXCEPT ![f] = Nothing]
  BY DEF FileClose
<1>2. size \in 0..MaxSize /\ nodeSize \in 0..size /\ size <= size
  BY SMT DEF FileTypeOK
<1>3. open' \in [File -> {Nothing} \cup Opened]
  BY <1>1 DEF FileTypeOK
<1>4. FileTypeOK' /\ (~crossed => Kept)'
  BY <1>1, <1>2, <1>3, MemoryStays DEF FileTypeOK
<1>5. \A g \in File : open'[g] # Nothing => open'[g] = open[g]
  BY <1>1 DEF FileTypeOK
<1> QED
  BY <1>1, <1>4, <1>5

(* A file that moved to an offset inside of the file, which may have       *)
(* become larger.                                                          *)
LEMMA OffsetMoves ==
    ASSUME FileInv, NEW f \in File, open[f] # Nothing, NEW to \in 0..MaxSize,
           open' = [open EXCEPT ![f].offset = to],
           ~truncated => size <= size' /\ to <= size', size' \in Nat
    PROVE  /\ open' \in [File -> {Nothing} \cup Opened]
           /\ ~truncated => \A g \in File : open'[g] # Nothing => open'[g].offset <= size'
<1> USE DEF FileInv
<1>1. open[f] \in Opened
  BY DEF FileTypeOK
<1>2. [open[f] EXCEPT !.offset = to] \in Opened
  BY <1>1 DEF Opened
<1>3. PICK r : r = [open[f] EXCEPT !.offset = to]
  OBVIOUS
<1>4. r.offset = to
  BY <1>1, <1>3 DEF Opened
<1>5. open' = [open EXCEPT ![f] = r]
  BY <1>3
<1>6. open' \in [File -> {Nothing} \cup Opened]
  BY <1>2, <1>3, <1>5 DEF FileTypeOK
<1>7. \A g \in File : IF g = f THEN open'[g].offset = to ELSE open'[g] = open[g]
  BY <1>4, <1>5 DEF FileTypeOK
<1>8. ASSUME ~truncated, NEW g \in File, open'[g] # Nothing PROVE open'[g].offset <= size'
  <2>1. CASE g = f
    BY <1>7, <1>8, <2>1
  <2>2. CASE g # f
    <3>1. open'[g] = open[g] /\ open[g].offset <= size /\ open[g] \in Opened
      BY <1>7, <1>8, <2>2 DEF FileTypeOK
    <3>2. open[g].offset \in Nat /\ size \in Nat
      BY <3>1, SMT DEF Opened, FileTypeOK
    <3> QED
      BY <1>8, <3>1, <3>2, SMT
  <2> QED
    BY <2>1, <2>2
<1> QED
  BY <1>6, <1>8

(* ffs_fileRead(): the file grows by as much as the offset.                *)
LEMMA ReadKeeps ==
    ASSUME FileDataAssumption, FileInv, NEW f \in File, FileRead(f)
    PROVE  FileInv'
<1>1. PICK asked \in 1..Chunk + 1 :
        /\ open[f] # Nothing
        /\ size + ReadCount(open[f].offset, asked) <= MaxSize
        /\ open[f].offset + ReadCount(open[f].offset, asked) <= MaxSize
        /\ size' = size + ReadCount(open[f].offset, asked)
        /\ open' = [open EXCEPT ![f].offset = @ + ReadCount(open[f].offset, asked)]
        /\ UNCHANGED <<memory, pages, nodeSize, locked, written, truncated, crossed>>
  BY DEF FileRead, Locks
<1>2. PICK n : n = ReadCount(open[f].offset, asked)
  OBVIOUS
<1>3. PICK at : at = open[f].offset
  OBVIOUS
<1>4. at \in 0..MaxSize /\ size \in 0..MaxSize /\ MaxSize \in Nat /\ nodeSize \in 0..size
  BY <1>1, <1>3 DEF FileInv, FileTypeOK, Opened, FileDataAssumption
<1>5. n \in Nat
  <2>1. Word \in Nat \ {0} /\ Chunk \in Nat \ {0}
    BY SMT DEF FileDataAssumption
  <2>2. PICK d \in Int : d = Smaller(size, at + asked) - at
    BY <1>4, <2>1, SMT DEF Smaller
  <2>3. d % Word \in Nat
    BY <2>1, <2>2, SMT
  <2> QED
    BY <1>2, <1>3, <2>1, <2>2, <2>3 DEF ReadCount, Smaller
<1>6. size' \in 0..MaxSize /\ size <= size' /\ at + n \in 0..MaxSize /\ nodeSize' \in 0..size'
      /\ (at <= size => at + n <= size')
  BY <1>1, <1>2, <1>3, <1>4, <1>5, SMT
<1>7. ~truncated => at <= size
  BY <1>1, <1>3 DEF FileInv
<1>8. open' = [open EXCEPT ![f].offset = at + n]
  BY <1>1, <1>2, <1>3
<1>9. /\ open' \in [File -> {Nothing} \cup Opened]
      /\ ~truncated => \A g \in File : open'[g] # Nothing => open'[g].offset <= size'
  <2>1. size' \in Nat
    BY <1>4, <1>6, SMT
  <2> QED
    BY <1>1, <1>6, <1>7, <1>8, <2>1, OffsetMoves
<1>10. FileTypeOK' /\ (~crossed => Kept)'
  BY <1>1, <1>6, <1>9, MemoryStays DEF FileTypeOK
<1> QED
  BY <1>1, <1>9, <1>10 DEF FileInv

(* ffs_fileSeek() leaves no offset past the end.                           *)
LEMMA SeekKeeps ==
    ASSUME FileDataAssumption, FileInv, NEW f \in File, FileSeek(f)
    PROVE  FileInv'
<1>1. PICK by \in -1..1, base \in {0, open[f].offset, size} :
        /\ (base + by) % Word <= size
        /\ open' = [open EXCEPT ![f].offset = (base + by) % Word]
  BY DEF FileSeek
<1>2. /\ open[f] # Nothing
      /\ UNCHANGED <<memory, pages, size, nodeSize, locked, written, truncated, crossed>>
  BY DEF FileSeek, Locks
<1>3. /\ open[f].offset \in 0..MaxSize /\ size \in 0..MaxSize /\ MaxSize \in Nat
      /\ nodeSize \in 0..size /\ Word \in Nat \ {0}
  BY <1>2, SMT DEF FileInv, FileTypeOK, Opened, FileDataAssumption
<1>4. PICK to : to = (base + by) % Word
  OBVIOUS
<1>5. to \in Nat
  <2>1. base + by \in Int
    BY <1>3, SMT
  <2> QED
    BY <1>3, <1>4, <2>1, SMT
<1>6. to \in 0..MaxSize /\ to <= size' /\ size' \in Nat /\ size <= size' /\ size' \in 0..MaxSize
  BY <1>1, <1>2, <1>3, <1>4, <1>5, SMT
<1>7. /\ open' \in [File -> {Nothing} \cup Opened]
      /\ ~truncated => \A g \in File : open'[g] # Nothing => open'[g].offset <= size'
  BY <1>1, <1>2, <1>4, <1>6, OffsetMoves
<1>8. FileTypeOK' /\ (~crossed => Kept)'
  BY <1>2, <1>3, <1>6, <1>7, MemoryStays DEF FileTypeOK
<1> QED
  BY <1>2, <1>7, <1>8 DEF FileInv

(* ffs_fileWrite(): the memory is there before the bytes are, because a    *)
(* file that is not past the end asks for at least its own offset and      *)
(* length.                                                                 *)
LEMMA WriteKeeps ==
    ASSUME FileDataAssumption, FileInv, ~crossed, NEW f \in File, FileWrite(f)
    PROVE  FileInv'
<1>1. PICK b \in Byte, asked \in 1..Chunk + 1, copied \in BOOLEAN :
        LET n == Smaller(asked, Chunk)
            offset == open[f].offset
            bytes == [o \in offset..offset + n - 1 |-> b]
            space == Moved(Required(offset, n))
        IN
        /\ open[f] # Nothing
        /\ offset + n <= MaxSize /\ size + n <= MaxSize
        /\ pages' = Allocated(Required(offset, n))
        /\ IF copied
           THEN /\ memory' = [o \in DOMAIN space |->
                                IF o \in DOMAIN bytes THEN bytes[o] ELSE space[o]]
                /\ crossed' = ~(DOMAIN bytes \subseteq DOMAIN space)
                /\ size' = IF offset + n > size THEN offset + n ELSE size
                /\ nodeSize' = size'
                /\ open' = [open EXCEPT ![f].offset = offset + n]
                /\ written' = [o \in DOMAIN written \cup DOMAIN bytes |->
                                 IF o \in DOMAIN bytes THEN b ELSE written[o]]
           ELSE memory' = space /\ UNCHANGED <<crossed, size, nodeSize, open, written>>
        /\ UNCHANGED truncated
  BY ZenonT(60) DEF FileWrite, Locks
<1>2. PICK n : n = Smaller(asked, Chunk)
  OBVIOUS
<1>3. PICK at : at = open[f].offset
  OBVIOUS
<1>4. n \in Nat \ {0}
  BY <1>2, SMT DEF Smaller, FileDataAssumption
<1>5. /\ at \in 0..MaxSize /\ size \in 0..MaxSize /\ MaxSize \in Nat /\ nodeSize \in 0..size
      /\ PageSize \in Nat
  BY <1>1, <1>3 DEF FileInv, FileTypeOK, Opened, FileDataAssumption
<1>6. at + n <= MaxSize /\ size + n <= MaxSize
  BY <1>1, <1>2, <1>3
<1>7. PICK m : m = size + n
  OBVIOUS
<1>8. m \in 1..MaxSize
  BY <1>4, <1>5, <1>6, <1>7, SMT
<1>9. PICK space : space = Moved(m)
  OBVIOUS
<1>10. PICK c : c = Allocated(m) * PageSize
  OBVIOUS
<1>11. /\ Allocated(m) \in Nat
       /\ c \in m..MaxSize + PageSize
       /\ space \in [0..c - 1 -> Byte \cup {Junk}]
       /\ \A o \in DOMAIN written : o \in 0..c - 1 /\ space[o] = written[o]
  BY <1>8, <1>9, <1>10, Allocation DEF FileInv
<1>12. Kept /\ truncated' = truncated
  BY <1>1 DEF FileInv
<1>13. pages' = Allocated(m) /\ Capacity' = c
  BY <1>1, <1>2, <1>7, <1>10 DEF Required, Capacity
<1>14. c \in Nat /\ c \in 0..MaxSize + PageSize /\ m <= c
  BY <1>5, <1>8, <1>11, SMT
<1>15. CASE ~copied
  <2>1. memory' = space /\ UNCHANGED <<crossed, size, nodeSize, open, written>>
    BY <1>1, <1>2, <1>3, <1>7, <1>9, <1>15, SMT DEF Required
  <2>2. space # Nothing
    BY <1>8, <1>9, Allocation DEF FileInv
  <2>3. FileTypeOK'
    BY <1>11, <1>13, <1>14, <2>1, <2>2 DEF FileInv, FileTypeOK
  <2>4. Kept'
    BY <1>11, <1>12, <2>1 DEF Kept
  <2> QED
    BY <1>12, <2>1, <2>3, <2>4 DEF FileInv
<1>16. CASE copied
  <2>1. /\ memory' = [o \in DOMAIN space |->
                        IF o \in at..at + n - 1 THEN b ELSE space[o]]
        /\ crossed' = ~(at..at + n - 1 \subseteq DOMAIN space)
        /\ size' = IF at + n > size THEN at + n ELSE size
        /\ nodeSize' = size'
        /\ open' = [open EXCEPT ![f].offset = at + n]
        /\ written' = [o \in DOMAIN written \cup (at..at + n - 1) |->
                         IF o \in at..at + n - 1 THEN b ELSE written[o]]
    BY <1>1, <1>2, <1>3, <1>7, <1>9, <1>16, SMT DEF Required
  <2>2. /\ size' \in 0..MaxSize /\ size' \in Nat /\ size <= size' /\ at + n <= size'
        /\ nodeSize' \in 0..size' /\ at + n \in 0..MaxSize
    BY <1>4, <1>5, <1>6, <2>1, SMT
  <2>3. /\ open' \in [File -> {Nothing} \cup Opened]
        /\ ~truncated => \A g \in File : open'[g] # Nothing => open'[g].offset <= size'
    <3>1. PICK to \in 0..MaxSize : to = at + n
      BY <2>2
    <3>2. open[f] # Nothing /\ open' = [open EXCEPT ![f].offset = to]
      BY <1>1, <2>1, <3>1
    <3> QED
      BY <2>2, <3>1, <3>2, OffsetMoves
  <2>4. memory' \in [0..c - 1 -> Byte \cup {Junk}]
    <3>1. DOMAIN space = 0..c - 1 /\ \A o \in 0..c - 1 : space[o] \in Byte \cup {Junk}
      BY <1>11
    <3> QED
      BY <2>1, <3>1
  <2>5. memory' # Nothing
    BY <1>14, <2>4 DEF FileDataAssumption
  <2>6. FileTypeOK'
    BY <1>11, <1>13, <1>14, <2>2, <2>3, <2>4, <2>5, SMT DEF FileTypeOK
  <2>7. ~crossed' => Kept'
    <3> SUFFICES ASSUME at..at + n - 1 \subseteq 0..c - 1,
                        NEW o \in DOMAIN written \cup (at..at + n - 1)
                 PROVE  o \in 0..size' - 1 /\ o \in 0..c - 1 /\ memory'[o] = written'[o]
      BY <1>11, <2>1, <2>4 DEF Kept
    <3>1. DOMAIN space = 0..c - 1
      BY <1>11
    <3>2. CASE o \in at..at + n - 1
      BY <1>4, <1>5, <2>1, <2>2, <3>1, <3>2, SMT
    <3>3. CASE o \notin at..at + n - 1
      <4>1. o \in 0..size - 1 /\ o \in 0..c - 1 /\ space[o] = written[o]
        BY <1>11, <1>12, <3>3 DEF Kept
      <4>2. o \in 0..size' - 1
        BY <1>5, <2>2, <4>1, SMT
      <4> QED
        BY <2>1, <3>1, <3>3, <4>1, <4>2
    <3> QED
      BY <3>2, <3>3
  <2>8. crossed' => truncated
    <3> SUFFICES ASSUME ~truncated PROVE at..at + n - 1 \subseteq 0..c - 1
      BY <1>11, <2>1
    <3>1. at <= size
      BY <1>1, <1>3 DEF FileInv
    <3> QED
      BY <1>4, <1>5, <1>7, <1>14, <3>1, SMT
  <2> QED
    BY <1>12, <2>3, <2>6, <2>7, <2>8 DEF FileInv
<1> QED
  BY <1>15, <1>16

-----------------------------------------------------------------------------
(* What was written stays in the memory of the file, and no write leaves   *)
(* that memory, for any number of files that are open on a node, with any  *)
(* accesses, and any sizes of pages, chunks and files, unless the file was *)
(* truncated below the offset of a file that is open on it.                *)
THEOREM WritesAreKept == ASSUME FileDataAssumption PROVE Spec => []WritesKept
<1>1. Init => FileInv
  <2> SUFFICES ASSUME Init PROVE FileInv
    OBVIOUS
  <2>1. DOMAIN written = {} /\ ~crossed /\ ~truncated
    BY DEF Init
  <2>2. FileTypeOK
    BY <2>1, SMT DEF Init, FileTypeOK, FileDataAssumption
  <2>3. Kept
    BY <2>1 DEF Kept
  <2>4. \A f \in File : open[f] = Nothing
    BY DEF Init
  <2> QED
    BY <2>1, <2>2, <2>3, <2>4 DEF FileInv
<1>2. FileInv /\ [Next]_vars => FileInv'
  <2> SUFFICES ASSUME FileInv, [Next]_vars PROVE FileInv'
    OBVIOUS
  <2>1. CASE UNCHANGED vars
    BY <2>1 DEF vars, FileInv, FileTypeOK, Kept, Capacity
  <2>2. ASSUME ~crossed, NEW f \in File, FileOpen(f) \/ FileClose(f) PROVE FileInv'
    BY <2>2, OpenKeeps, CloseKeeps
  <2>3. ASSUME ~crossed, NEW f \in File, FileWrite(f) \/ FileRead(f) PROVE FileInv'
    BY <2>3, WriteKeeps, ReadKeeps
  <2>4. ASSUME ~crossed, NEW f \in File, FileSeek(f) PROVE FileInv'
    BY <2>4, SeekKeeps
  <2>5. ASSUME ~crossed, NEW f \in File, FileSeekUnknown(f) PROVE FileInv'
    BY <2>5 DEF FileSeekUnknown, FileInv, FileTypeOK, Kept, Capacity
  <2> QED
    BY <2>1, <2>2, <2>3, <2>4, <2>5 DEF Next
<1>3. FileInv => WritesKept
  BY DEF FileInv, Kept, WritesKept
<1> QED
  BY <1>1, <1>2, <1>3, PTL DEF Spec

-----------------------------------------------------------------------------
(* The handlers of interrupts.                                             *)

Call == [step : {"idle", "look", "callback", "grow", "store", "count", "shift", "shrink"},
         v : Vector \cup {0}, exclusive : BOOLEAN, i : Nat]

Given(v) == {o \in Owner : given[o] = v}

(* The place that a driver which withdraws from a vector works at.         *)
Hole(v) == {irqCall[o].i : o \in {p \in Owner : Withdrawing(p, v)}}

(* Outside the places K the array holds the drivers of S, each once.       *)
Handled(e, S, K) ==
    /\ \A i \in (1..e.count) \ K : e.data[i] \in S
    /\ \A i, j \in (1..e.count) \ K : e.data[i] = e.data[j] => i = j
    /\ \A p \in S : \E i \in (1..e.count) \ K : e.data[i] = p

(* There is room for another handler, and a driver's own vector has one.   *)
Fits(e) == e.count < Len(e.data) /\ (e.exclusive => e.count <= 1)

(* What a call of driver o that is at c knows of the entry e it works on.  *)
Working(c, e, o) ==
    /\ c.step \notin {"idle", "look"} => e # Nil
    /\ c.step = "callback" => e.count = 0
    /\ c.step \in {"grow", "store", "count"} /\ e.exclusive => e.count = 0
    /\ c.step \in {"store", "count"} => e.count + 1 < Len(e.data)
    /\ c.step = "count" => e.data[e.count + 1] = o
    /\ c.step = "shift" => /\ c.i \in 1..e.count
                           /\ e.data[c.i] = o \/ (c.i > 1 /\ e.data[c.i] = e.data[c.i - 1])
    /\ c.step = "shrink" /\ e.loose => e.count < Len(e.data) \div 2

(* An entry e of vector v, which the drivers S are given, is as it should  *)
(* be when nobody works on it but a call at c.                             *)
Sound(v, e, c, S, callbacks) ==
    /\ e = Nil => S = {}
    /\ e # Nil =>
         /\ Fits(e)
         /\ Handled(e, S, IF c.step = "shift" THEN {c.i} ELSE {})
         /\ e.loose => c.step \in {"grow", "shrink"}
         /\ v \in callbacks \/ (e.exclusive /\ v >= PublicBegin) \/ c.step = "callback"

IrqTypes ==
    /\ entry \in [Vector -> {Nil} \cup Entry]
    /\ irqCall \in [Owner -> Call]
    /\ given \in [Owner -> Vector \cup {Nil}]
    /\ service = {}

CallOK(o) ==
    irqCall[o].step # "idle" =>
        /\ irqLock = o
        /\ irqCall[o].v \in Vector
        /\ given[o] = Nil
        /\ Working(irqCall[o], entry[irqCall[o].v], o)

VectorOK(v) ==
    /\ entry[v] = Nil => Given(v) = {}
    /\ entry[v] # Nil =>
         /\ Fits(entry[v])
         /\ Handled(entry[v], Given(v), Hole(v))
         /\ entry[v].loose =>
              \E o \in Owner : irqCall[o].step \in {"grow", "shrink"} /\ irqCall[o].v = v
         /\ \/ v \in callback
            \/ entry[v].exclusive /\ v >= PublicBegin
            \/ \E o \in Owner : irqCall[o].step = "callback" /\ irqCall[o].v = v

IrqInv ==
    /\ IrqTypes
    /\ \A o \in Owner : CallOK(o)
    /\ \A v \in Vector : VectorOK(v)

-----------------------------------------------------------------------------
(* A set of natural numbers has a least one.                               *)
LEMMA LeastNumber ==
    ASSUME NEW S \in SUBSET Nat, S # {}
    PROVE  \E n \in S : \A m \in S : n <= m
<1>1. PICK R : R = OpToRel(<, Nat)
  OBVIOUS
<1>2. IsWellFoundedOn(R, Nat)
  BY <1>1, NatLessThanWellFounded
<1>3. PICK n \in S : \A m \in S : ~ (<<m, n>> \in R)
  BY <1>2, WFMin
<1>4. \A m, k \in Nat : m < k => <<m, k>> \in R
  BY <1>1 DEF OpToRel
<1>5. ASSUME NEW m \in S PROVE n <= m
  <2>1. m \in Nat /\ n \in Nat
    OBVIOUS
  <2>2. ~ (m < n)
    BY <2>1, <1>3, <1>4
  <2> QED
    BY <2>1, <2>2, SMT
<1> QED
  BY <1>5

(* A new array of handlers is empty.                                       *)
LEMMA NewIsEmpty ==
    ASSUME InterruptsAssumption, NEW exclusive \in BOOLEAN
    PROVE  /\ NewEntry(exclusive) \in Entry
           /\ NewEntry(exclusive).exclusive = exclusive
           /\ NewEntry(exclusive).loose = FALSE
           /\ NewEntry(exclusive).count = 0
           /\ NewEntry(exclusive).count + 1 < Len(NewEntry(exclusive).data)
           /\ Fits(NewEntry(exclusive))
           /\ \A K : Handled(NewEntry(exclusive), {}, K)
<1>1. PICK d : d = [i \in 1..Space |-> Nil]
  OBVIOUS
<1>2. /\ Space \in Nat /\ Space > 1 /\ d \in Seq(Owner \cup {Nil}) /\ Len(d) = Space
  BY <1>1, SMT DEF InterruptsAssumption
<1>3. NewEntry(exclusive) = [exclusive |-> exclusive, data |-> d, count |-> 0, loose |-> FALSE]
  BY <1>1 DEF NewEntry
<1>4. PICK e : e = NewEntry(exclusive)
  OBVIOUS
<1>5. /\ e \in Entry /\ e.exclusive = exclusive /\ e.loose = FALSE /\ e.count = 0
      /\ e.data = d
  BY <1>2, <1>3, <1>4, SMT DEF Entry
<1>6. e.count + 1 < Len(e.data) /\ Fits(e)
  BY <1>2, <1>5, SMT DEF Fits
<1>7. 1..e.count = {}
  BY <1>5, SMT
<1>8. \A K : Handled(e, {}, K)
  BY <1>7 DEF Handled
<1> QED
  BY <1>4, <1>5, <1>6, <1>8

(* Copying the array to memory of another size keeps the handlers, if they *)
(* fit; freeing the old memory changes nothing.                            *)
LEMMA ResizeKeeps ==
    ASSUME NEW e \in Entry, NEW n \in Nat, e.count < n, e.count < Len(e.data),
           NEW S, NEW K, Handled(e, S, K)
    PROVE  LET f == [e EXCEPT !.loose = FALSE, !.data = Resized(e, n)]
           IN  /\ f \in Entry /\ Len(f.data) = n /\ f.count = e.count /\ ~f.loose
               /\ f.exclusive = e.exclusive
               /\ Handled(f, S, K)
<1>1. PICK d : d = Resized(e, n)
  OBVIOUS
<1>2. PICK f : f = [e EXCEPT !.loose = FALSE, !.data = d]
  OBVIOUS
<1>3. e.count \in Nat /\ e.data \in Seq(Owner \cup {Nil})
  BY DEF Entry
<1>4. \A i \in 1..n : i <= e.count => e.data[i] \in Owner \cup {Nil}
  BY <1>3, SMT
<1>5. d \in Seq(Owner \cup {Nil}) /\ Len(d) = n
  BY <1>1, <1>4, SMT DEF Resized
<1>6. f \in Entry /\ f.data = d /\ f.count = e.count /\ ~f.loose /\ f.exclusive = e.exclusive
  BY <1>2, <1>5 DEF Entry
<1>7. \A i \in 1..e.count : d[i] = e.data[i]
  BY <1>1, <1>3, SMT DEF Resized
<1>8. Handled(f, S, K)
  BY <1>6, <1>7, SMT DEF Handled
<1> QED
  BY <1>1, <1>2, <1>5, <1>6, <1>8

(* Counting the handler that was stored adds its driver.                   *)
LEMMA CountAdds ==
    ASSUME NEW e \in Entry, e.count + 1 < Len(e.data), NEW o, e.data[e.count + 1] = o,
           NEW S, o \notin S, Handled(e, S, {})
    PROVE  LET f == [e EXCEPT !.count = @ + 1]
           IN  /\ f \in Entry /\ f.count = e.count + 1 /\ f.data = e.data
               /\ f.loose = e.loose /\ f.exclusive = e.exclusive
               /\ Handled(f, S \cup {o}, {})
<1>1. PICK f : f = [e EXCEPT !.count = @ + 1]
  OBVIOUS
<1>2. e.count \in Nat
  BY DEF Entry
<1>3. /\ f \in Entry /\ f.count = e.count + 1 /\ f.data = e.data
      /\ f.loose = e.loose /\ f.exclusive = e.exclusive
  BY <1>1, <1>2, SMT DEF Entry
<1>4. 1..f.count = (1..e.count) \cup {e.count + 1} /\ e.count + 1 \notin 1..e.count
  BY <1>2, <1>3, SMT
<1>5. Handled(f, S \cup {o}, {})
  <2>1. \A i \in 1..f.count : f.data[i] \in S \cup {o}
    BY <1>3, <1>4 DEF Handled
  <2>2. \A i \in 1..e.count : f.data[i] # o
    BY <1>3 DEF Handled
  <2>3. \A i, j \in 1..f.count : f.data[i] = f.data[j] => i = j
    BY <1>3, <1>4, <2>2 DEF Handled
  <2>4. \A p \in S \cup {o} : \E i \in 1..f.count : f.data[i] = p
    BY <1>3, <1>4, SMT DEF Handled
  <2>5. (1..f.count) \ {} = 1..f.count
    OBVIOUS
  <2> QED
    BY <2>1, <2>3, <2>4, <2>5 DEF Handled
<1> QED
  BY <1>1, <1>3, <1>5

(* A driver of the array has one place in it; without that place the array *)
(* holds the others.                                                       *)
LEMMA PlaceOf ==
    ASSUME NEW e, NEW S, Handled(e, S, {}), NEW o \in S, e.count \in Nat
    PROVE  /\ \E i \in 1..e.count : e.data[i] = o /\ \A j \in 1..i - 1 : e.data[j] # o
           /\ \A k \in 1..e.count : e.data[k] = o => Handled(e, S \ {o}, {k})
<1>1. PICK i \in 1..e.count : e.data[i] = o
  BY DEF Handled
<1>2. \A j \in 1..i - 1 : e.data[j] # o
  BY <1>1, SMT DEF Handled
<1>3. ASSUME NEW k \in 1..e.count, e.data[k] = o PROVE Handled(e, S \ {o}, {k})
  BY <1>3 DEF Handled
<1> QED
  BY <1>1, <1>2, <1>3

(* Moving the next handler up moves the place that holds none.             *)
LEMMA ShiftKeeps ==
    ASSUME NEW e, e.count \in Nat, NEW S, NEW i \in 1..e.count, i < e.count,
           Handled(e, S, {i}),
           NEW f, f.count = e.count, f.data[i] = e.data[i + 1],
           \A j \in 1..e.count : j # i => f.data[j] = e.data[j]
    PROVE  Handled(f, S, {i + 1})
<1>1. i + 1 \in 1..e.count /\ i + 1 # i
  BY SMT
<1>2. \A j \in (1..e.count) \ {i + 1} : f.data[j] \in S
  BY <1>1 DEF Handled
<1>3. \A j, k \in (1..e.count) \ {i + 1} : f.data[j] = f.data[k] => j = k
  BY <1>1, SMT DEF Handled
<1>4. \A p \in S : \E j \in (1..e.count) \ {i + 1} : f.data[j] = p
  <2> TAKE p \in S
  <2>1. PICK j \in (1..e.count) \ {i} : e.data[j] = p
    BY DEF Handled
  <2>2. CASE j = i + 1
    BY <1>1, <2>1, <2>2
  <2>3. CASE j # i + 1
    BY <2>1, <2>3
  <2> QED
    BY <2>2, <2>3
<1> QED
  BY <1>2, <1>3, <1>4 DEF Handled

(* The last place that holds none is no longer counted.                    *)
LEMMA ShiftEnds ==
    ASSUME NEW e \in Entry, NEW S, NEW i \in 1..e.count, ~ (i < e.count), Handled(e, S, {i})
    PROVE  LET f == [e EXCEPT !.count = @ - 1]
           IN  /\ f \in Entry /\ f.count = e.count - 1 /\ f.data = e.data
               /\ f.loose = e.loose /\ f.exclusive = e.exclusive
               /\ Handled(f, S, {})
<1>1. PICK f : f = [e EXCEPT !.count = @ - 1]
  OBVIOUS
<1>2. e.count \in Nat /\ i = e.count /\ e.count - 1 \in Nat
  BY SMT DEF Entry
<1>3. /\ f \in Entry /\ f.count = e.count - 1 /\ f.data = e.data
      /\ f.loose = e.loose /\ f.exclusive = e.exclusive
  BY <1>1, <1>2 DEF Entry
<1>4. (1..f.count) \ {} = (1..e.count) \ {i}
  BY <1>2, <1>3, SMT
<1>5. Handled(f, S, {})
  BY <1>3, <1>4 DEF Handled
<1> QED
  BY <1>1, <1>3, <1>5

-----------------------------------------------------------------------------
(* A call works alone: what it leaves of its vector's entry, and knows of  *)
(* it, is all there is to show.                                            *)
LEMMA WorksAlone ==
    ASSUME InterruptsAssumption, IrqInv, NEW o \in Owner, irqLock \in {Nil, o}
    PROVE  \A p \in Owner \ {o} : irqCall[p].step = "idle"
BY DEF IrqInv, CallOK, InterruptsAssumption

(* The place that holds none, when only driver o can be withdrawing.       *)
LEMMA OneHole ==
    ASSUME NEW o \in Owner, \A p \in Owner \ {o} : irqCall[p].step = "idle", NEW w,
           irqCall[o].step = "idle" \/ irqCall[o].v = w
    PROVE  /\ irqCall[o].step = "shift" => Hole(w) = {irqCall[o].i}
           /\ irqCall[o].step # "shift" => Hole(w) = {}
           /\ \A v : v # w => Hole(v) = {}
<1>1. \A p \in Owner \ {o} : \A v : ~Withdrawing(p, v)
  BY DEF Withdrawing
<1>2. \A v : Withdrawing(o, v) <=> irqCall[o].step = "shift" /\ v = w
  BY DEF Withdrawing
<1>3. \A v : {p \in Owner : Withdrawing(p, v)} =
               IF irqCall[o].step = "shift" /\ v = w THEN {o} ELSE {}
  BY <1>1, <1>2
<1> QED
  BY <1>3 DEF Hole

(* What a driver that works on a vector, or begins to, finds there.        *)
LEMMA FindsSound ==
    ASSUME InterruptsAssumption, IrqInv, NEW o \in Owner, irqLock \in {Nil, o},
           NEW w \in Vector, irqCall[o].step = "idle" \/ irqCall[o].v = w
    PROVE  Sound(w, entry[w], irqCall[o], Given(w), callback)
<1>1. \A p \in Owner \ {o} : irqCall[p].step = "idle"
  BY WorksAlone
<1>2. /\ irqCall[o].step = "shift" => Hole(w) = {irqCall[o].i}
      /\ irqCall[o].step # "shift" => Hole(w) = {}
  BY <1>1, OneHole
<1>3. VectorOK(w)
  BY DEF IrqInv
<1>4. \A s : s # "idle" /\ (\E p \in Owner : irqCall[p].step = s) => irqCall[o].step = s
  BY <1>1
<1> QED
  BY <1>2, <1>3, <1>4 DEF VectorOK, Sound

(* The step of a call leaves the other calls and vectors alone: it is      *)
(* enough to look at its own.                                              *)
LEMMA OwnVectorOnly ==
    ASSUME InterruptsAssumption, IrqInv, NEW o \in Owner, irqLock \in {Nil, o},
           NEW w \in Vector, NEW c \in Call, NEW e \in {Nil} \cup Entry, NEW g \in {Nil, w},
           irqCall[o].step = "idle" \/ irqCall[o].v = w,
           c.step = "idle" \/ c.v = w,
           given[o] \in {Nil, w},
           irqCall' = [irqCall EXCEPT ![o] = c],
           entry' = [entry EXCEPT ![w] = e],
           given' = [given EXCEPT ![o] = g],
           callback \subseteq callback', service' = {},
           c.step # "idle" => irqLock' = o /\ g = Nil /\ Working(c, e, o),
           Sound(w, e, c, Given(w)', callback')
    PROVE  IrqInv'
<1>1. IrqTypes /\ Nil \notin Vector /\ Nil \notin Owner
  BY DEF IrqInv, InterruptsAssumption
<1>2. /\ irqCall'[o] = c /\ entry'[w] = e /\ given'[o] = g
      /\ \A p \in Owner \ {o} : irqCall'[p] = irqCall[p] /\ given'[p] = given[p]
      /\ \A v \in Vector \ {w} : entry'[v] = entry[v]
  BY <1>1 DEF IrqTypes
<1>3. \A p \in Owner \ {o} : irqCall[p].step = "idle"
  BY WorksAlone
<1>4. IrqTypes'
  BY <1>1 DEF IrqTypes
<1>5. \A p \in Owner : CallOK(p)'
  <2>1. CallOK(o)'
    BY <1>2 DEF CallOK
  <2>2. \A p \in Owner \ {o} : CallOK(p)'
    BY <1>2, <1>3 DEF CallOK
  <2> QED
    BY <2>1, <2>2
<1>6. /\ irqCall'[o].step = "shift" => Hole(w)' = {irqCall'[o].i}
      /\ irqCall'[o].step # "shift" => Hole(w)' = {}
      /\ \A v : v # w => Hole(v)' = {}
  <2>1. \A p \in Owner \ {o} : \A v : ~Withdrawing(p, v)'
    BY <1>2, <1>3 DEF Withdrawing
  <2>2. \A v : Withdrawing(o, v)' <=> c.step = "shift" /\ v = w
    BY <1>2 DEF Withdrawing
  <2>3. \A v : {p \in Owner : Withdrawing(p, v)'} =
                 IF c.step = "shift" /\ v = w THEN {o} ELSE {}
    BY <2>1, <2>2
  <2> QED
    BY <1>2, <2>3, SMT DEF Hole
<1>7. \A v : v # w => Hole(v) = {}
  BY <1>3, OneHole
<1>8. VectorOK(w)'
  <2>1. e # Nil => Handled(e, Given(w)', Hole(w)')
    BY <1>2, <1>6 DEF Sound
  <2> QED
    BY <1>2, <2>1 DEF VectorOK, Sound
<1>9. ASSUME NEW v \in Vector, v # w PROVE VectorOK(v)'
  <2>1. Given(v)' = Given(v)
    BY <1>1, <1>2, <1>9, SMT DEF Given
  <2>2. Hole(v)' = Hole(v) /\ entry'[v] = entry[v]
    BY <1>2, <1>6, <1>7, <1>9, SMT
  <2>3. VectorOK(v)
    BY DEF IrqInv
  <2>4. \A p \in Owner : irqCall[p].step # "idle" => p = o
    BY <1>3
  <2>5. ~ \E p \in Owner : irqCall[p].step # "idle" /\ irqCall[p].v = v
    BY <1>9, <2>4
  <2> QED
    BY <2>1, <2>2, <2>3, <2>5 DEF VectorOK
<1> QED
  BY <1>4, <1>5, <1>8, <1>9 DEF IrqInv

-----------------------------------------------------------------------------
(* A step that changes none of this state keeps the invariant.             *)
LEMMA IrqStutter ==
    ASSUME IrqInv, entry' = entry, callback' = callback, irqLock' = irqLock, irqCall' = irqCall,
           given' = given, service' = {}
    PROVE  IrqInv'
<1>1. \A v : Given(v)' = Given(v) /\ Hole(v)' = Hole(v)
  BY DEF Given, Hole, Withdrawing
<1>2. IrqTypes'
  BY DEF IrqInv, IrqTypes
<1>3. \A o \in Owner : CallOK(o)'
  BY DEF IrqInv, CallOK
<1>4. \A v \in Vector : VectorOK(v)'
  BY <1>1, SMT DEF IrqInv, VectorOK
<1> QED
  BY <1>2, <1>3, <1>4 DEF IrqInv

(* kern_registerForInterrupt() begins.                                     *)
LEMMA RegisterKeeps ==
    ASSUME InterruptsAssumption, IrqInv, NEW o \in Owner, Register(o)
    PROVE  IrqInv'
<1>1. PICK w \in Vector, x \in BOOLEAN :
        irqCall' = [irqCall EXCEPT ![o] = [step |-> "look", v |-> w, exclusive |-> x, i |-> 0]]
  BY DEF Register
<1>2. PICK c : c = [step |-> "look", v |-> w, exclusive |-> x, i |-> 0]
  OBVIOUS
<1>3. c \in Call /\ c.step = "look" /\ c.v = w
  BY <1>2 DEF Call
<1>4. /\ irqLock = Nil /\ irqLock' = o /\ irqCall[o].step = "idle" /\ given[o] = Nil
      /\ entry' = entry /\ given' = given /\ callback' = callback /\ service' = service
  BY DEF Register
<1>5. /\ entry \in [Vector -> {Nil} \cup Entry] /\ given \in [Owner -> Vector \cup {Nil}]
      /\ service = {}
  BY DEF IrqInv, IrqTypes
<1>6. PICK e : e = entry[w]
  OBVIOUS
<1>7. Sound(w, e, irqCall[o], Given(w), callback)
  BY <1>4, <1>6, FindsSound
<1>8. Sound(w, e, c, Given(w)', callback')
  BY <1>3, <1>4, <1>7 DEF Sound, Given
<1>9. Working(c, e, o)
  BY <1>3 DEF Working
<1>10. /\ irqCall' = [irqCall EXCEPT ![o] = c]
       /\ entry' = [entry EXCEPT ![w] = e] /\ given' = [given EXCEPT ![o] = Nil]
  BY <1>1, <1>2, <1>4, <1>5, <1>6
<1>11. e \in {Nil} \cup Entry
  BY <1>5, <1>6
<1>12. /\ irqLock \in {Nil, o} /\ Nil \in {Nil, w} /\ given[o] \in {Nil, w}
       /\ irqCall[o].step = "idle" \/ irqCall[o].v = w
       /\ c.step = "idle" \/ c.v = w
       /\ callback \subseteq callback' /\ service' = {}
       /\ c.step # "idle" => irqLock' = o /\ Nil = Nil /\ Working(c, e, o)
  BY <1>3, <1>4, <1>5, <1>9
<1> QED
  BY <1>3, <1>8, <1>10, <1>11, <1>12, OwnVectorOnly

(* kern_requestExclusiveInterrupt() takes the first free vector.           *)
LEMMA RequestKeeps ==
    ASSUME InterruptsAssumption, IrqInv, NEW o \in Owner, RequestExclusive(o)
    PROVE  IrqInv'
<1>4. /\ irqLock = Nil /\ irqCall[o].step = "idle" /\ given[o] = Nil
      /\ given' = given /\ callback' = callback /\ service' = service
  BY DEF RequestExclusive
<1>5. /\ entry \in [Vector -> {Nil} \cup Entry] /\ given \in [Owner -> Vector \cup {Nil}]
      /\ service = {} /\ PublicBegin \in Nat /\ PublicEnd \in Nat
  BY DEF IrqInv, IrqTypes, InterruptsAssumption
<1>6. CASE FreeVectors = {}
  BY <1>4, <1>5, <1>6, IrqStutter DEF RequestExclusive
<1>7. CASE FreeVectors # {}
  <2>1. PICK w : w = CHOOSE v \in FreeVectors : \A u \in FreeVectors : v <= u
    OBVIOUS
  <2>2. FreeVectors \in SUBSET Nat
    BY <1>5, SMT DEF FreeVectors
  <2>3. w \in FreeVectors
    BY <1>7, <2>1, <2>2, LeastNumber
  <2>4. w \in Vector /\ w >= PublicBegin /\ entry[w] = Nil
    BY <1>5, <2>3, SMT DEF FreeVectors, Vector
  <2>5. PICK c : c = [step |-> "store", v |-> w, exclusive |-> TRUE, i |-> 0]
    OBVIOUS
  <2>6. c \in Call /\ c.step = "store" /\ c.v = w
    BY <2>4, <2>5 DEF Call
  <2>7. PICK e : e = NewEntry(TRUE)
    OBVIOUS
  <2>8. /\ e \in Entry /\ e # Nil /\ e.exclusive = TRUE /\ e.loose = FALSE /\ e.count = 0
        /\ e.count + 1 < Len(e.data) /\ Fits(e) /\ Handled(e, {}, {})
    BY <2>7, NewIsEmpty DEF InterruptsAssumption
  <2>9. /\ entry' = [entry EXCEPT ![w] = e] /\ irqCall' = [irqCall EXCEPT ![o] = c] /\ irqLock' = o
    BY <1>7, <2>1, <2>5, <2>7 DEF RequestExclusive
  <2>10. Given(w)' = {}
    <3>1. Sound(w, entry[w], irqCall[o], Given(w), callback)
      BY <1>4, <2>4, FindsSound
    <3> QED
      BY <1>4, <2>4, <3>1 DEF Sound, Given
  <2>11. Sound(w, e, c, Given(w)', callback')
    BY <2>4, <2>6, <2>8, <2>10 DEF Sound
  <2>12. Working(c, e, o)
    BY <2>6, <2>8 DEF Working
  <2>13. given' = [given EXCEPT ![o] = Nil]
    BY <1>4, <1>5
  <2> QED
    BY <1>4, <1>5, <2>4, <2>6, <2>8, <2>9, <2>11, <2>12, <2>13, OwnVectorOnly, ZenonT(60)
<1> QED
  BY <1>6, <1>7

(* What a call that has begun knows.                                       *)
LEMMA Busy ==
    ASSUME InterruptsAssumption, IrqInv, NEW o \in Owner, irqCall[o].step # "idle"
    PROVE  /\ irqLock = o /\ irqCall[o].v \in Vector /\ given[o] = Nil
           /\ Working(irqCall[o], entry[irqCall[o].v], o)
           /\ Sound(irqCall[o].v, entry[irqCall[o].v], irqCall[o], Given(irqCall[o].v), callback)
           /\ entry[irqCall[o].v] \in {Nil} \cup Entry
           /\ irqCall[o] \in Call
           /\ entry \in [Vector -> {Nil} \cup Entry]
           /\ given = [given EXCEPT ![o] = Nil]
           /\ service = {}
           /\ Nil \notin Entry
           /\ o \notin Given(irqCall[o].v)
<1>1. CallOK(o) /\ IrqTypes
  BY DEF IrqInv
<1>2. /\ irqLock = o /\ irqCall[o].v \in Vector /\ given[o] = Nil
      /\ Working(irqCall[o], entry[irqCall[o].v], o)
  BY <1>1 DEF CallOK
<1>3. Sound(irqCall[o].v, entry[irqCall[o].v], irqCall[o], Given(irqCall[o].v), callback)
  BY <1>2, FindsSound
<1>4. /\ entry[irqCall[o].v] \in {Nil} \cup Entry /\ irqCall[o] \in Call
      /\ entry \in [Vector -> {Nil} \cup Entry] /\ service = {}
  BY <1>1, <1>2 DEF IrqTypes
<1>5. given = [given EXCEPT ![o] = Nil]
  BY <1>1, <1>2 DEF IrqTypes
<1>6. Nil \notin Entry /\ Nil \notin Vector
  BY DEF InterruptsAssumption
<1>7. o \notin Given(irqCall[o].v)
  BY <1>2, <1>6 DEF Given
<1> QED
  BY <1>2, <1>3, <1>4, <1>5, <1>6, <1>7, SMT

(* The steps of a call that has begun: c is where it stands, e the entry.  *)
LEMMA StepOfCall ==
    ASSUME InterruptsAssumption, IrqInv, NEW o \in Owner, irqCall[o].step # "idle",
           NEW w, irqCall[o].v = w,
           NEW c \in Call, c.step = "idle" \/ (c.v = w /\ irqLock' = o),
           NEW e \in {Nil} \cup Entry,
           irqCall' = [irqCall EXCEPT ![o] = c], entry' = [entry EXCEPT ![w] = e],
           given' = given, callback \subseteq callback', service' = service,
           c.step # "idle" => Working(c, e, o),
           Sound(w, e, c, Given(w), callback')
    PROVE  IrqInv'
<1>1. /\ irqLock \in {Nil, o} /\ w \in Vector /\ given[o] \in {Nil, w}
      /\ given' = [given EXCEPT ![o] = Nil] /\ service' = {} /\ Nil \in {Nil, w}
  BY Busy
<1>2. Given(w)' = Given(w)
  BY DEF Given
<1>3. Sound(w, e, c, Given(w)', callback')
  BY <1>2
<1>4. /\ irqCall[o].step = "idle" \/ irqCall[o].v = w
      /\ c.step = "idle" \/ c.v = w
      /\ c.step # "idle" => irqLock' = o /\ Nil = Nil /\ Working(c, e, o)
  OBVIOUS
<1> QED
  BY <1>1, <1>3, <1>4, OwnVectorOnly

(* kern_registerForInterrupt() looks at the entry of the vector.           *)
LEMMA LookKeeps ==
    ASSUME InterruptsAssumption, IrqInv, NEW o \in Owner, Look(o)
    PROVE  IrqInv'
<1>1. PICK w, a, e : w = irqCall[o].v /\ a = irqCall[o] /\ e = entry[w]
  OBVIOUS
<1>2. /\ a.step = "look" /\ given' = given /\ callback' = callback /\ service' = service
      /\ irqCall[o].step # "idle"
  BY <1>1 DEF Look
<1>3. /\ irqLock = o /\ Sound(w, e, a, Given(w), callback) /\ e \in {Nil} \cup Entry /\ a \in Call
      /\ entry = [entry EXCEPT ![w] = e] /\ Nil \notin Entry /\ w \in Vector
  BY <1>1, <1>2, Busy
<1>4. CASE e = Nil
  <2>1. PICK f : f = NewEntry(a.exclusive)
    OBVIOUS
  <2>2. PICK c : c = [a EXCEPT !.step = "callback"]
    OBVIOUS
  <2>3. c \in Call /\ c.step = "callback" /\ c.v = w
    BY <1>1, <1>3, <2>2, SMT DEF Call
  <2>4. a.exclusive \in BOOLEAN
    BY <1>3 DEF Call
  <2>5. f \in Entry /\ f.loose = FALSE /\ f.count = 0 /\ Fits(f) /\ Handled(f, {}, {}) /\ f # Nil
    BY <1>3, <2>1, <2>4, NewIsEmpty, ZenonT(60)
  <2>6. entry' = [entry EXCEPT ![w] = f] /\ irqLock' = o /\ irqCall' = [irqCall EXCEPT ![o] = c]
    BY <1>1, <1>3, <1>4, <2>1, <2>2, SMT DEF Look, Goto
  <2>7. Sound(w, f, c, Given(w), callback')
    BY <1>3, <1>4, <2>3, <2>5 DEF Sound
  <2>8. Working(c, f, o)
    BY <2>3, <2>5 DEF Working
  <2> QED
    BY <1>1, <1>2, <2>3, <2>5, <2>6, <2>7, <2>8, StepOfCall, ZenonT(60)
<1>5. CASE e # Nil /\ Refused(e, a.exclusive)
  <2>1. PICK c : c = NoCall
    OBVIOUS
  <2>2. c \in Call /\ c.step = "idle"
    BY <2>1 DEF Call, NoCall
  <2>3. entry' = [entry EXCEPT ![w] = e] /\ irqCall' = [irqCall EXCEPT ![o] = c]
    BY <1>1, <1>3, <1>5, <2>1, SMT DEF Look
  <2>4. Sound(w, e, c, Given(w), callback')
    BY <1>2, <1>3, <1>5, <2>2, SMT DEF Sound
  <2> QED
    BY <1>1, <1>2, <1>3, <2>1, <2>2, <2>3, <2>4, StepOfCall, ZenonT(60)
<1>6. CASE e # Nil /\ ~Refused(e, a.exclusive)
  <2>1. PICK c : c = [a EXCEPT !.step = "grow"]
    OBVIOUS
  <2>2. c \in Call /\ c.step = "grow" /\ c.v = w
    BY <1>1, <1>3, <2>1, SMT DEF Call
  <2>3. entry' = [entry EXCEPT ![w] = e] /\ irqLock' = o /\ irqCall' = [irqCall EXCEPT ![o] = c]
    BY <1>1, <1>3, <1>6, <2>1 DEF Look, Goto
  <2>4. Sound(w, e, c, Given(w), callback')
    BY <1>2, <1>3, <1>6, <2>2 DEF Sound
  <2>5. Working(c, e, o)
    BY <1>6, <2>2 DEF Working, Refused
  <2> QED
    BY <1>1, <1>2, <1>3, <2>2, <2>3, <2>4, <2>5, StepOfCall, ZenonT(60)
<1> QED
  BY <1>4, <1>5, <1>6

(* setInterruptCallback() of the vector of a new entry.                    *)
LEMMA CallbackKeeps ==
    ASSUME InterruptsAssumption, IrqInv, NEW o \in Owner, SetInterruptCallback(o)
    PROVE  IrqInv'
<1>1. PICK w, a, e : w = irqCall[o].v /\ a = irqCall[o] /\ e = entry[w]
  OBVIOUS
<1>2. /\ a.step = "callback" /\ given' = given /\ service' = service /\ irqLock' = irqLock
      /\ callback' = callback \cup {w} /\ entry' = entry /\ irqCall[o].step # "idle"
  BY <1>1 DEF SetInterruptCallback
<1>3. /\ irqLock = o /\ Sound(w, e, a, Given(w), callback) /\ e \in {Nil} \cup Entry /\ a \in Call
      /\ entry = [entry EXCEPT ![w] = e] /\ Working(a, e, o)
  BY <1>1, <1>2, Busy
<1>4. PICK c : c = [a EXCEPT !.step = "grow"]
  OBVIOUS
<1>5. c \in Call /\ c.step = "grow" /\ c.v = w
  BY <1>1, <1>3, <1>4 DEF Call
<1>6. irqCall' = [irqCall EXCEPT ![o] = c]
  BY <1>1, <1>4 DEF SetInterruptCallback, Goto
<1>7. Sound(w, e, c, Given(w), callback')
  BY <1>2, <1>3, <1>5 DEF Sound
<1>8. Working(c, e, o)
  BY <1>2, <1>3, <1>5 DEF Working
<1>9. entry' = [entry EXCEPT ![w] = e] /\ callback \subseteq callback'
  BY <1>2, <1>3
<1>10. /\ irqCall[o].step # "idle" /\ irqCall[o].v = w /\ given' = given /\ service' = service
       /\ c.step = "idle" \/ (c.v = w /\ irqLock' = o)
       /\ c.step # "idle" => Working(c, e, o)
       /\ e \in {Nil} \cup Entry
  BY <1>1, <1>2, <1>3, <1>5, <1>8, SMT
<1> QED
  BY <1>5, <1>6, <1>7, <1>9, <1>10, StepOfCall

(* Freeing the old memory changes no handler.                              *)
LEMMA LooseKeeps ==
    ASSUME NEW e \in Entry, NEW S, NEW K, Handled(e, S, K), Fits(e)
    PROVE  LET f == [e EXCEPT !.loose = TRUE]
           IN  /\ f \in Entry /\ f.count = e.count /\ f.data = e.data /\ f.loose = TRUE
               /\ f.exclusive = e.exclusive
               /\ Handled(f, S, K) /\ Fits(f)
<1>1. PICK f : f = [e EXCEPT !.loose = TRUE]
  OBVIOUS
<1>2. /\ f \in Entry /\ f.count = e.count /\ f.data = e.data /\ f.loose = TRUE
      /\ f.exclusive = e.exclusive
  BY <1>1 DEF Entry
<1>3. Handled(f, S, K) /\ Fits(f)
  BY <1>2, SMT DEF Handled, Fits
<1> QED
  BY <1>1, <1>2, <1>3

(* __array_resizeToNextStepIfNeeded() before a handler is added.           *)
LEMMA GrowKeeps ==
    ASSUME InterruptsAssumption, IrqInv, NEW o \in Owner, Grow(o)
    PROVE  IrqInv'
<1>1. PICK w, a, e : w = irqCall[o].v /\ a = irqCall[o] /\ e = entry[w]
  OBVIOUS
<1>2. /\ a.step = "grow" /\ given' = given /\ service' = service /\ irqLock' = irqLock
      /\ callback' = callback /\ irqCall[o].step # "idle"
  BY <1>1 DEF Grow
<1>3. /\ irqLock = o /\ Sound(w, e, a, Given(w), callback) /\ e \in {Nil} \cup Entry /\ a \in Call
      /\ entry = [entry EXCEPT ![w] = e] /\ Working(a, e, o) /\ Nil \notin Entry
      /\ w \in Vector /\ entry \in [Vector -> {Nil} \cup Entry]
  BY <1>1, <1>2, Busy
<1>4. e \in Entry /\ e # Nil /\ (e.exclusive => e.count = 0)
  BY <1>2, <1>3 DEF Working
<1>5. /\ Fits(e) /\ Handled(e, Given(w), {})
      /\ w \in callback \/ (e.exclusive /\ w >= PublicBegin)
  BY <1>2, <1>3, <1>4 DEF Sound
<1>6. e.count \in Nat /\ Len(e.data) \in Nat /\ e.loose \in BOOLEAN
  BY <1>4, SMT DEF Entry
<1>7. PICK c : c = [a EXCEPT !.step = "store"]
  OBVIOUS
<1>8. c \in Call /\ c.step = "store" /\ c.v = w
  BY <1>1, <1>3, <1>7 DEF Call
<1>9. CASE e.count >= Len(e.data) - 1 /\ ~e.loose
  <2>1. PICK f : f = [e EXCEPT !.loose = TRUE]
    OBVIOUS
  <2>2. /\ f \in Entry /\ f.count = e.count /\ f.data = e.data /\ f.exclusive = e.exclusive
        /\ Handled(f, Given(w), {}) /\ Fits(f)
    BY <1>4, <1>5, <2>1, LooseKeeps
  <2>3. /\ entry' = [entry EXCEPT ![w] = f] /\ irqCall' = [irqCall EXCEPT ![o] = a]
    BY <1>1, <1>3, <1>9, <2>1 DEF Grow, IrqInv, IrqTypes
  <2>4. Sound(w, f, a, Given(w), callback')
    BY <1>2, <1>3, <1>5, <2>2 DEF Sound
  <2>5. Working(a, f, o)
    BY <1>2, <1>3, <1>4, <2>2 DEF Working
  <2> QED
    BY <1>1, <1>2, <1>3, <2>2, <2>3, <2>4, <2>5, StepOfCall
<1>10. CASE e.loose
  <2>1. PICK f : f = [e EXCEPT !.loose = FALSE, !.data = Resized(e, 2 * Len(e.data))]
    OBVIOUS
  <2>2. e.count < 2 * Len(e.data) /\ e.count < Len(e.data) /\ 2 * Len(e.data) \in Nat
    BY <1>5, <1>6, SMT DEF Fits
  <2>3. /\ f \in Entry /\ Len(f.data) = 2 * Len(e.data) /\ f.count = e.count /\ ~f.loose
        /\ f.exclusive = e.exclusive /\ Handled(f, Given(w), {})
    BY <1>4, <1>5, <2>1, <2>2, ResizeKeeps, ZenonT(60)
  <2>4. /\ entry' = [entry EXCEPT ![w] = f] /\ irqCall' = [irqCall EXCEPT ![o] = c]
    BY <1>1, <1>3, <1>7, <1>10, <2>1, ZenonT(60) DEF Grow, Goto
  <2>5. Fits(f) /\ f.count + 1 < Len(f.data)
    BY <1>5, <1>6, <2>3, SMT DEF Fits
  <2>6. Sound(w, f, c, Given(w), callback')
    BY <1>2, <1>3, <1>5, <1>8, <2>3, <2>5 DEF Sound
  <2>7. Working(c, f, o)
    BY <1>3, <1>4, <1>8, <2>3, <2>5, SMT DEF Working
  <2> QED
    BY <1>1, <1>2, <1>3, <1>8, <2>3, <2>4, <2>6, <2>7, StepOfCall, ZenonT(60)
<1>11. CASE ~ (e.count >= Len(e.data) - 1) /\ ~e.loose
  <2>1. /\ entry' = [entry EXCEPT ![w] = e] /\ irqCall' = [irqCall EXCEPT ![o] = c]
    BY <1>1, <1>3, <1>7, <1>11 DEF Grow, Goto
  <2>2. e.count + 1 < Len(e.data)
    BY <1>6, <1>11, SMT
  <2>3. Sound(w, e, c, Given(w), callback')
    BY <1>2, <1>5, <1>8, <1>11, <1>4, SMT DEF Sound
  <2>4. Working(c, e, o)
    BY <1>4, <1>8, <2>2 DEF Working
  <2> QED
    BY <1>1, <1>2, <1>3, <1>8, <2>1, <2>3, <2>4, StepOfCall, ZenonT(60)
<1> QED
  BY <1>6, <1>9, <1>10, <1>11

(* The handler is stored behind those that are counted.                    *)
LEMMA StoredKeeps ==
    ASSUME InterruptsAssumption, IrqInv, NEW o \in Owner, Store(o)
    PROVE  IrqInv'
<1>1. PICK w, a, e : w = irqCall[o].v /\ a = irqCall[o] /\ e = entry[w]
  OBVIOUS
<1>2. /\ a.step = "store" /\ given' = given /\ service' = service /\ irqLock' = irqLock
      /\ callback' = callback /\ irqCall[o].step # "idle"
  BY <1>1 DEF Store
<1>3. /\ irqLock = o /\ Sound(w, e, a, Given(w), callback) /\ e \in {Nil} \cup Entry /\ a \in Call
      /\ Working(a, e, o) /\ Nil \notin Entry
      /\ w \in Vector /\ entry \in [Vector -> {Nil} \cup Entry]
  BY <1>1, <1>2, Busy
<1>4. /\ e \in Entry /\ e # Nil /\ (e.exclusive => e.count = 0)
      /\ e.count + 1 < Len(e.data)
  BY <1>2, <1>3 DEF Working
<1>5. /\ Fits(e) /\ Handled(e, Given(w), {}) /\ ~e.loose
      /\ w \in callback \/ (e.exclusive /\ w >= PublicBegin)
  BY <1>2, <1>3, <1>4 DEF Sound
<1>6. PICK c : c = [a EXCEPT !.step = "count"]
  OBVIOUS
<1>7. c \in Call /\ c.step = "count" /\ c.v = w
  BY <1>1, <1>3, <1>6 DEF Call
<1>8. PICK d, f : d = [e.data EXCEPT ![e.count + 1] = o] /\ f = [e EXCEPT !.data = d]
  OBVIOUS
<1>9. /\ f \in Entry /\ Len(f.data) = Len(e.data) /\ f.count = e.count
      /\ f.loose = e.loose /\ f.exclusive = e.exclusive
      /\ f.data[f.count + 1] = o /\ Handled(f, Given(w), {})
  <2>1. e.count \in Nat /\ e.data \in Seq(Owner \cup {Nil})
    BY <1>4 DEF Entry
  <2>2. /\ d \in Seq(Owner \cup {Nil}) /\ Len(d) = Len(e.data) /\ d[e.count + 1] = o
        /\ \A i \in 1..e.count : d[i] = e.data[i]
    BY <1>4, <1>8, <2>1, SMT
  <2>3. /\ f \in Entry /\ f.data = d /\ f.count = e.count /\ f.loose = e.loose
        /\ f.exclusive = e.exclusive
    BY <1>4, <1>8, <2>2 DEF Entry
  <2>4. Handled(f, Given(w), {})
    BY <1>5, <2>2, <2>3, SMT DEF Handled
  <2> QED
    BY <2>2, <2>3, <2>4
<1>10. entry' = [entry EXCEPT ![w] = f] /\ irqCall' = [irqCall EXCEPT ![o] = c]
  BY <1>1, <1>3, <1>6, <1>8 DEF Store, Goto
<1>11. Sound(w, f, c, Given(w), callback')
  BY <1>2, <1>3, <1>5, <1>7, <1>9, SMT DEF Sound, Fits
<1>12. Working(c, f, o)
  BY <1>3, <1>4, <1>7, <1>9 DEF Working
<1> QED
  BY <1>1, <1>2, <1>3, <1>7, <1>9, <1>10, <1>11, <1>12, StepOfCall, ZenonT(60)

(* The handler is counted, and the registration returns.                   *)
LEMMA CountKeeps ==
    ASSUME InterruptsAssumption, IrqInv, NEW o \in Owner, Count(o)
    PROVE  IrqInv'
<1>1. PICK w, a, e : w = irqCall[o].v /\ a = irqCall[o] /\ e = entry[w]
  OBVIOUS
<1>2. /\ a.step = "count" /\ service' = service /\ callback' = callback
      /\ irqCall[o].step # "idle" /\ given' = [given EXCEPT ![o] = w]
  BY <1>1 DEF Count
<1>3. /\ irqLock = o /\ Sound(w, e, a, Given(w), callback) /\ e \in {Nil} \cup Entry
      /\ Working(a, e, o) /\ Nil \notin Entry /\ service = {} /\ given[o] = Nil
      /\ w \in Vector /\ entry \in [Vector -> {Nil} \cup Entry] /\ o \notin Given(w)
  BY <1>1, <1>2, Busy
<1>4. /\ e \in Entry /\ e # Nil /\ (e.exclusive => e.count = 0)
      /\ e.count + 1 < Len(e.data) /\ e.data[e.count + 1] = o
  BY <1>2, <1>3 DEF Working
<1>5. /\ Handled(e, Given(w), {}) /\ ~e.loose
      /\ w \in callback \/ (e.exclusive /\ w >= PublicBegin)
  BY <1>2, <1>3, <1>4 DEF Sound
<1>6. PICK c : c = NoCall
  OBVIOUS
<1>7. c \in Call /\ c.step = "idle"
  BY <1>6 DEF Call, NoCall
<1>8. PICK f : f = [e EXCEPT !.count = @ + 1]
  OBVIOUS
<1>9. /\ f \in Entry /\ f.count = e.count + 1 /\ f.data = e.data
      /\ f.loose = e.loose /\ f.exclusive = e.exclusive
      /\ Handled(f, Given(w) \cup {o}, {})
  BY <1>3, <1>4, <1>5, <1>8, CountAdds, SMT
<1>10. entry' = [entry EXCEPT ![w] = f] /\ irqCall' = [irqCall EXCEPT ![o] = c]
  BY <1>1, <1>3, <1>6, <1>8 DEF Count
<1>11. Given(w)' = Given(w) \cup {o}
  <2>1. given \in [Owner -> Vector \cup {Nil}]
    BY DEF IrqInv, IrqTypes
  <2> QED
    BY <1>2, <2>1 DEF Given
<1>12. Fits(f)
  BY <1>4, <1>9, SMT DEF Fits, Entry
<1>13. Sound(w, f, c, Given(w)', callback')
  BY <1>2, <1>3, <1>5, <1>7, <1>9, <1>11, <1>12, SMT DEF Sound
<1>14. /\ irqLock \in {Nil, o} /\ w \in {Nil, w} /\ given[o] \in {Nil, w}
       /\ irqCall[o].step = "idle" \/ irqCall[o].v = w
       /\ c.step = "idle" \/ c.v = w
       /\ callback \subseteq callback' /\ service' = {} /\ f \in {Nil} \cup Entry
       /\ c.step # "idle" => irqLock' = o /\ w = Nil /\ Working(c, f, o)
  BY <1>1, <1>2, <1>3, <1>7, <1>9, SMT
<1>15. w \in Vector /\ c \in Call /\ given' = [given EXCEPT ![o] = w]
  BY <1>2, <1>3, <1>7
<1> QED
  BY <1>10, <1>13, <1>14, <1>15, OwnVectorOnly

(* A driver begins to withdraw.                                            *)
LEMMA UnregisterKeeps ==
    ASSUME InterruptsAssumption, IrqInv, NEW o \in Owner, Unregister(o)
    PROVE  IrqInv'
<1>1. PICK w, e : w = given[o] /\ e = entry[w]
  OBVIOUS
<1>2. /\ irqCall[o].step = "idle" /\ w # Nil /\ irqLock = Nil /\ irqLock' = o /\ entry' = entry
      /\ callback' = callback /\ service' = service /\ given' = [given EXCEPT ![o] = Nil]
  BY <1>1 DEF Unregister
<1>3. /\ entry \in [Vector -> {Nil} \cup Entry] /\ given \in [Owner -> Vector \cup {Nil}]
      /\ service = {} /\ Nil \notin Vector /\ Nil \notin Entry
  BY DEF IrqInv, IrqTypes, InterruptsAssumption
<1>4. w \in Vector /\ e \in {Nil} \cup Entry /\ o \in Given(w)
  BY <1>1, <1>2, <1>3 DEF Given
<1>5. Sound(w, e, irqCall[o], Given(w), callback)
  BY <1>1, <1>2, <1>4, FindsSound
<1>6. e # Nil /\ e \in Entry
  BY <1>4, <1>5 DEF Sound
<1>7. /\ Fits(e) /\ Handled(e, Given(w), {}) /\ ~e.loose
      /\ w \in callback \/ (e.exclusive /\ w >= PublicBegin)
  BY <1>2, <1>5, <1>6 DEF Sound
<1>8. e.count \in Nat
  BY <1>6 DEF Entry
<1>9. PICK k : k = CHOOSE i \in 1..e.count : /\ e.data[i] = o
                                             /\ \A j \in 1..i - 1 : e.data[j] # o
  OBVIOUS
<1>10. k \in 1..e.count /\ e.data[k] = o /\ Handled(e, Given(w) \ {o}, {k})
  <2>1. /\ \E i \in 1..e.count : e.data[i] = o /\ \A j \in 1..i - 1 : e.data[j] # o
        /\ \A i \in 1..e.count : e.data[i] = o => Handled(e, Given(w) \ {o}, {i})
    BY <1>4, <1>7, <1>8, PlaceOf
  <2> QED
    BY <1>9, <2>1
<1>11. PICK c : c = [step |-> "shift", v |-> w, exclusive |-> FALSE, i |-> k]
  OBVIOUS
<1>12. c \in Call /\ c.step = "shift" /\ c.v = w /\ c.i = k
  BY <1>4, <1>8, <1>10, <1>11, SMT DEF Call
<1>13. irqCall' = [irqCall EXCEPT ![o] = c]
  BY <1>1, <1>9, <1>11 DEF Unregister
<1>14. Given(w)' = Given(w) \ {o}
  BY <1>2, <1>3, <1>4 DEF Given
<1>15. Sound(w, e, c, Given(w)', callback')
  BY <1>2, <1>6, <1>7, <1>10, <1>12, <1>14, SMT DEF Sound
<1>16. Working(c, e, o)
  BY <1>6, <1>10, <1>12 DEF Working
<1>17. entry' = [entry EXCEPT ![w] = e]
  BY <1>1, <1>2, <1>3, <1>4
<1>18. /\ irqLock \in {Nil, o} /\ Nil \in {Nil, w} /\ given[o] \in {Nil, w}
       /\ irqCall[o].step = "idle" \/ irqCall[o].v = w
       /\ c.step = "idle" \/ c.v = w
       /\ callback \subseteq callback' /\ service' = {} /\ e \in {Nil} \cup Entry
       /\ c.step # "idle" => irqLock' = o /\ Nil = Nil /\ Working(c, e, o)
  BY <1>1, <1>2, <1>3, <1>4, <1>12, <1>16, SMT
<1>19. w \in Vector /\ c \in Call /\ given' = [given EXCEPT ![o] = Nil]
  BY <1>2, <1>4, <1>12
<1> QED
  BY <1>13, <1>15, <1>17, <1>18, <1>19, OwnVectorOnly

(* A driver that withdraws moves the handlers behind its own up.           *)
LEMMA ShiftedKeeps ==
    ASSUME InterruptsAssumption, IrqInv, NEW o \in Owner, Shift(o)
    PROVE  IrqInv'
<1>1. PICK w, a, e, k : w = irqCall[o].v /\ a = irqCall[o] /\ e = entry[w] /\ k = irqCall[o].i
  OBVIOUS
<1>2. /\ a.step = "shift" /\ given' = given /\ service' = service /\ irqLock' = irqLock
      /\ callback' = callback /\ irqCall[o].step # "idle"
  BY <1>1 DEF Shift
<1>3. /\ irqLock = o /\ Sound(w, e, a, Given(w), callback) /\ e \in {Nil} \cup Entry /\ a \in Call
      /\ Working(a, e, o) /\ Nil \notin Entry
      /\ w \in Vector /\ entry \in [Vector -> {Nil} \cup Entry]
  BY <1>1, <1>2, Busy
<1>4. /\ e \in Entry /\ e # Nil /\ k \in 1..e.count
  BY <1>1, <1>2, <1>3 DEF Working
<1>5. /\ Fits(e) /\ Handled(e, Given(w), {k}) /\ ~e.loose
      /\ w \in callback \/ (e.exclusive /\ w >= PublicBegin)
  BY <1>1, <1>2, <1>3, <1>4 DEF Sound
<1>6. /\ e.count \in Nat /\ e.data \in Seq(Owner \cup {Nil}) /\ e.count < Len(e.data)
      /\ e.exclusive => e.count <= 1
  BY <1>4, <1>5 DEF Entry, Fits
<1>7. CASE k < e.count
  <2>1. PICK d, f : d = [e.data EXCEPT ![k] = e.data[k + 1]] /\ f = [e EXCEPT !.data = d]
    OBVIOUS
  <2>2. /\ d \in Seq(Owner \cup {Nil}) /\ Len(d) = Len(e.data)
        /\ d[k] = e.data[k + 1] /\ d[k + 1] = e.data[k + 1]
        /\ \A j \in 1..e.count : j # k => d[j] = e.data[j]
    BY <1>4, <1>6, <1>7, <2>1, SMT
  <2>3. /\ f \in Entry /\ f.data = d /\ f.count = e.count /\ f.loose = e.loose
        /\ f.exclusive = e.exclusive
    BY <1>4, <2>1, <2>2 DEF Entry
  <2>4. Handled(f, Given(w), {k + 1})
    BY <1>4, <1>5, <1>6, <1>7, <2>2, <2>3, ShiftKeeps, ZenonT(60)
  <2>5. PICK c : c = [a EXCEPT !.i = k + 1]
    OBVIOUS
  <2>6. c \in Call /\ c.step = "shift" /\ c.v = w /\ c.i = k + 1
    BY <1>1, <1>2, <1>3, <1>4, <1>6, <2>5, SMT DEF Call
  <2>7. entry' = [entry EXCEPT ![w] = f] /\ irqCall' = [irqCall EXCEPT ![o] = c]
    BY <1>1, <1>3, <1>7, <2>1, <2>5 DEF Shift
  <2>8. Fits(f)
    BY <1>5, <2>2, <2>3 DEF Fits
  <2>9. Sound(w, f, c, Given(w), callback')
    BY <1>2, <1>3, <1>5, <2>3, <2>4, <2>6, <2>8 DEF Sound
  <2>10. c.i \in 1..f.count /\ c.i > 1 /\ f.data[c.i] = f.data[c.i - 1]
    BY <1>4, <1>6, <1>7, <2>2, <2>3, <2>6, SMT
  <2>11. Working(c, f, o)
    BY <1>3, <2>3, <2>6, <2>10 DEF Working
  <2> QED
    BY <1>1, <1>2, <1>3, <2>3, <2>6, <2>7, <2>9, <2>11, StepOfCall, ZenonT(60)
<1>8. CASE ~ (k < e.count)
  <2>1. PICK f : f = [e EXCEPT !.count = @ - 1]
    OBVIOUS
  <2>2. /\ f \in Entry /\ f.count = e.count - 1 /\ f.data = e.data
        /\ f.loose = e.loose /\ f.exclusive = e.exclusive
        /\ Handled(f, Given(w), {})
    BY <1>4, <1>5, <1>8, <2>1, ShiftEnds
  <2>3. PICK c : c = [a EXCEPT !.step = "shrink"]
    OBVIOUS
  <2>4. c \in Call /\ c.step = "shrink" /\ c.v = w
    BY <1>1, <1>3, <2>3 DEF Call
  <2>5. entry' = [entry EXCEPT ![w] = f] /\ irqCall' = [irqCall EXCEPT ![o] = c]
    BY <1>1, <1>3, <1>8, <2>1, <2>3, SMT DEF Shift, Goto
  <2>6. Fits(f)
    BY <1>6, <2>2, SMT DEF Fits
  <2>7. Sound(w, f, c, Given(w), callback')
    BY <1>2, <1>3, <1>5, <2>2, <2>4, <2>6, SMT DEF Sound
  <2>8. Working(c, f, o)
    BY <1>3, <1>5, <2>2, <2>4 DEF Working
  <2> QED
    BY <1>1, <1>2, <1>3, <2>2, <2>4, <2>5, <2>7, <2>8, StepOfCall
<1> QED
  BY <1>7, <1>8

(* The array shrinks if it may, and the withdrawal returns.                *)
LEMMA ShrinkKeeps ==
    ASSUME InterruptsAssumption, IrqInv, NEW o \in Owner, Shrink(o)
    PROVE  IrqInv'
<1>1. PICK w, a, e, n : w = irqCall[o].v /\ a = irqCall[o] /\ e = entry[w] /\ n = Len(e.data) \div 2
  OBVIOUS
<1>2. /\ a.step = "shrink" /\ given' = given /\ service' = service
      /\ callback' = callback /\ irqCall[o].step # "idle"
  BY <1>1 DEF Shrink
<1>3. /\ irqLock = o /\ Sound(w, e, a, Given(w), callback) /\ e \in {Nil} \cup Entry /\ a \in Call
      /\ Working(a, e, o) /\ Nil \notin Entry /\ entry = [entry EXCEPT ![w] = e]
      /\ w \in Vector /\ entry \in [Vector -> {Nil} \cup Entry]
  BY <1>1, <1>2, Busy
<1>4. e \in Entry /\ e # Nil /\ (e.loose => e.count < n)
  BY <1>1, <1>2, <1>3 DEF Working
<1>5. /\ Fits(e) /\ Handled(e, Given(w), {})
      /\ w \in callback \/ (e.exclusive /\ w >= PublicBegin)
  BY <1>2, <1>3, <1>4 DEF Sound
<1>6. /\ e.count \in Nat /\ Len(e.data) \in Nat /\ e.loose \in BOOLEAN
      /\ e.count < Len(e.data) /\ (e.exclusive => e.count <= 1)
  BY <1>4, <1>5, SMT DEF Entry, Fits
<1>7. n \in Nat
  <2>1. \A m \in Nat : m \div 2 \in Nat
    BY SMT
  <2> QED
    BY <1>1, <1>6, <2>1
<1>8. PICK c : c = NoCall
  OBVIOUS
<1>9. c \in Call /\ c.step = "idle"
  BY <1>8 DEF Call, NoCall
<1>10. CASE e.count < n /\ ~e.loose
  <2>1. PICK f : f = [e EXCEPT !.loose = TRUE]
    OBVIOUS
  <2>2. /\ f \in Entry /\ f.count = e.count /\ f.data = e.data /\ f.exclusive = e.exclusive
        /\ Handled(f, Given(w), {}) /\ Fits(f)
    BY <1>4, <1>5, <2>1, LooseKeeps
  <2>3. entry' = [entry EXCEPT ![w] = f] /\ irqCall' = [irqCall EXCEPT ![o] = a] /\ irqLock' = o
    BY <1>1, <1>3, <1>10, <2>1 DEF Shrink, IrqInv, IrqTypes
  <2>4. Sound(w, f, a, Given(w), callback')
    BY <1>2, <1>3, <1>5, <2>2, SMT DEF Sound
  <2>5. Working(a, f, o)
    BY <1>1, <1>2, <1>3, <1>10, <2>2, ZenonT(60) DEF Working
  <2> QED
    BY <1>1, <1>2, <1>3, <2>2, <2>3, <2>4, <2>5, StepOfCall
<1>11. CASE e.loose
  <2>1. PICK f : f = [e EXCEPT !.loose = FALSE, !.data = Resized(e, n)]
    OBVIOUS
  <2>2. /\ f \in Entry /\ Len(f.data) = n /\ f.count = e.count /\ ~f.loose
        /\ f.exclusive = e.exclusive /\ Handled(f, Given(w), {})
    BY <1>4, <1>5, <1>6, <1>7, <1>11, <2>1, ResizeKeeps, ZenonT(60)
  <2>3. entry' = [entry EXCEPT ![w] = f] /\ irqCall' = [irqCall EXCEPT ![o] = c]
    BY <1>1, <1>3, <1>8, <1>11, <2>1, ZenonT(60) DEF Shrink
  <2>4. Fits(f)
    BY <1>4, <1>6, <1>11, <2>2 DEF Fits
  <2>5. Sound(w, f, c, Given(w), callback')
    BY <1>2, <1>3, <1>5, <1>9, <2>2, <2>4, SMT DEF Sound
  <2> QED
    BY <1>1, <1>2, <1>9, <2>2, <2>3, <2>5, StepOfCall, ZenonT(60)
<1>12. CASE ~ (e.count < n) /\ ~e.loose
  <2>1. entry' = [entry EXCEPT ![w] = e] /\ irqCall' = [irqCall EXCEPT ![o] = c]
    BY <1>1, <1>3, <1>8, <1>12 DEF Shrink
  <2>2. Sound(w, e, c, Given(w), callback')
    BY <1>2, <1>4, <1>5, <1>9, <1>12, SMT DEF Sound
  <2> QED
    BY <1>1, <1>2, <1>3, <1>9, <2>1, <2>2, StepOfCall, ZenonT(60)
<1> QED
  BY <1>6, <1>10, <1>11, <1>12

(* An interrupt and an exception change nothing that registrations use.    *)
LEMMA InterruptKeeps ==
    ASSUME IrqInv, Interrupt
    PROVE  IrqInv'
<1>1. service = {}
  BY DEF IrqInv, IrqTypes
<1>2. service' = {}
  BY <1>1 DEF Interrupt, EndOfInterrupt
<1>3. /\ entry' = entry /\ callback' = callback /\ irqLock' = irqLock /\ irqCall' = irqCall
      /\ given' = given
  BY DEF Interrupt
<1> QED
  BY <1>2, <1>3, IrqStutter

(* The invariant holds at first and is kept by every step.                 *)
LEMMA IrqInvariant == ASSUME InterruptsAssumption PROVE IrqSpec => []IrqInv
<1>1. IrqInit => IrqInv
  <2> SUFFICES ASSUME IrqInit PROVE IrqInv
    OBVIOUS
  <2>1. Nil \notin Vector
    BY DEF InterruptsAssumption
  <2>2. IrqTypes
    BY DEF IrqInit, IrqTypes, NoCall, Call
  <2>3. \A o \in Owner : CallOK(o)
    BY DEF IrqInit, CallOK, NoCall
  <2>4. \A v \in Vector : VectorOK(v)
    BY <2>1 DEF IrqInit, VectorOK, Given
  <2> QED
    BY <2>2, <2>3, <2>4 DEF IrqInv
<1>2. IrqInv /\ [IrqNext]_irqVars => IrqInv'
  <2> SUFFICES ASSUME IrqInv, [IrqNext]_irqVars PROVE IrqInv'
    OBVIOUS
  <2>0. service = {}
    BY DEF IrqInv, IrqTypes
  <2>1. CASE UNCHANGED irqVars
    BY <2>0, <2>1, IrqStutter DEF irqVars
  <2>2. ASSUME NEW o \in Owner, Register(o) PROVE IrqInv'
    BY <2>2, RegisterKeeps
  <2>3. ASSUME NEW o \in Owner, RequestExclusive(o) PROVE IrqInv'
    BY <2>3, RequestKeeps, SMT
  <2>4. ASSUME NEW o \in Owner, Look(o) PROVE IrqInv'
    BY <2>4, LookKeeps
  <2>5. ASSUME NEW o \in Owner, SetInterruptCallback(o) PROVE IrqInv'
    BY <2>5, CallbackKeeps
  <2>6. ASSUME NEW o \in Owner, Grow(o) PROVE IrqInv'
    BY <2>6, GrowKeeps
  <2>7. ASSUME NEW o \in Owner, Store(o) PROVE IrqInv'
    BY <2>7, StoredKeeps
  <2>8. ASSUME NEW o \in Owner, Count(o) PROVE IrqInv'
    BY <2>8, CountKeeps
  <2>9. ASSUME NEW o \in Owner, Unregister(o) PROVE IrqInv'
    BY <2>9, UnregisterKeeps
  <2>10. ASSUME NEW o \in Owner, Shift(o) PROVE IrqInv'
    BY <2>10, ShiftedKeeps
  <2>11. ASSUME NEW o \in Owner, Shrink(o) PROVE IrqInv'
    BY <2>11, ShrinkKeeps
  <2>12. CASE Interrupt
    BY <2>12, InterruptKeeps
  <2>13. ASSUME NEW pid, NEW exception, Exception(pid, exception) PROVE IrqInv'
    BY <2>0, <2>13, IrqStutter DEF Exception
  <2> QED
    BY <2>1, <2>2, <2>3, <2>4, <2>5, <2>6, <2>7, <2>8, <2>9, <2>10, <2>11, <2>12, <2>13, SMT
    DEF IrqNext
<1> QED
  BY <1>1, <1>2, PTL DEF IrqSpec

(* The array of a vector of which somebody is given has its handlers, and  *)
(* nobody but one driver works on it.                                      *)
LEMMA GivenVector ==
    ASSUME InterruptsAssumption, IrqInv, NEW o \in Owner, given[o] # Nil
    PROVE  /\ given[o] \in Vector /\ entry[given[o]] \in Entry /\ entry[given[o]] # Nil
           /\ VectorOK(given[o])
           /\ given[o] \in callback \/
                (entry[given[o]].exclusive /\ given[o] >= PublicBegin)
<1>1. PICK w, e : w = given[o] /\ e = entry[w]
  OBVIOUS
<1>2. w \in Vector /\ e \in {Nil} \cup Entry /\ o \in Given(w) /\ VectorOK(w)
  BY <1>1 DEF IrqInv, IrqTypes, Given
<1>3. e # Nil /\ e \in Entry
  BY <1>1, <1>2 DEF VectorOK
<1>4. ~ \E p \in Owner : irqCall[p].step = "callback" /\ irqCall[p].v = w
  <2> SUFFICES ASSUME NEW p \in Owner, irqCall[p].step = "callback", irqCall[p].v = w PROVE FALSE
    OBVIOUS
  <2>1. CallOK(p) /\ irqCall[p].step # "idle"
    BY DEF IrqInv
  <2>2. Working(irqCall[p], e, p)
    BY <1>1, <2>1 DEF CallOK
  <2>3. e.count = 0
    BY <2>2 DEF Working
  <2>4. \E i \in 1..e.count : e.data[i] = o
    BY <1>1, <1>2, <1>3 DEF VectorOK, Handled
  <2> QED
    BY <2>3, <2>4, SMT
<1>5. w \in callback \/ (e.exclusive /\ w >= PublicBegin)
  BY <1>1, <1>2, <1>3, <1>4 DEF VectorOK
<1> QED
  BY <1>1, <1>2, <1>3, <1>5

(* Who has a vector alone is alone there, and whose interrupt is not       *)
(* handled asked for a vector of its own.                                  *)
LEMMA AloneFollows == ASSUME InterruptsAssumption, IrqInv PROVE ExclusiveIsAlone
<1>1. ASSUME NEW v \in Vector, entry[v] # Nil, entry[v].exclusive
      PROVE  Cardinality({o \in Owner : given[o] = v}) <= 1
  <2>1. PICK e : e = entry[v]
    OBVIOUS
  <2>2. VectorOK(v) /\ e \in Entry
    BY <1>1, <2>1 DEF IrqInv, IrqTypes
  <2>3. e.count \in Nat /\ e.count <= 1
    BY <1>1, <2>1, <2>2 DEF VectorOK, Fits, Entry
  <2>4. \A p \in Given(v) : \E i \in 1..e.count : e.data[i] = p
    BY <1>1, <2>1, <2>2 DEF VectorOK, Handled
  <2>5. \A p \in Given(v) : p = e.data[1]
    BY <2>3, <2>4, SMT
  <2>6. Given(v) = {} \/ Given(v) = {e.data[1]}
    BY <2>5
  <2>7. Cardinality(Given(v)) <= 1
    BY <2>6, FS_EmptySet, FS_Singleton, SMT
  <2> QED
    BY <2>7 DEF Given
<1>2. \A o \in Owner : given[o] # Nil =>
         given[o] \in callback \/ (entry[given[o]].exclusive /\ given[o] >= PublicBegin)
  BY GivenVector
<1> QED
  BY <1>1, <1>2 DEF ExclusiveIsAlone

(* The handlers that an interrupt calls.                                   *)
LEMMA CalledRight ==
    ASSUME InterruptsAssumption, IrqInv, NEW v \in Vector, entry[v] # Nil,
           NEW called, called = SubSeq(entry[v].data, 1, entry[v].count)
    PROVE  /\ \A o \in Owner : given[o] = v => o \in Range(called)
           /\ \A o \in Range(called) : given[o] = v \/ Withdrawing(o, v)
           /\ IsInjective(called) \/ \E o \in Owner : Withdrawing(o, v)
<1>1. PICK e : e = entry[v]
  OBVIOUS
<1>2. VectorOK(v) /\ e \in Entry /\ entry[v] \in Entry
  BY <1>1 DEF IrqInv, IrqTypes
<1>3. Fits(e) /\ Handled(e, Given(v), Hole(v))
  BY <1>1, <1>2 DEF VectorOK
<1>4. e.count \in Nat /\ e.data \in Seq(Owner \cup {Nil}) /\ e.count < Len(e.data)
  BY <1>2, <1>3 DEF Entry, Fits
<1>5. DOMAIN called = 1..e.count /\ \A i \in 1..e.count : called[i] = e.data[i]
  BY <1>1, <1>4, SMT
<1>6. \A o \in Owner : given[o] = v => o \in Range(called)
  <2>1. \A i \in 1..e.count : e.data[i] \in Range(called)
    BY <1>5 DEF Range
  <2> QED
    BY <1>3, <2>1, SMT DEF Handled, Given
<1>7. ASSUME NEW i \in 1..e.count PROVE given[e.data[i]] = v \/ Withdrawing(e.data[i], v)
  <2>1. CASE i \notin Hole(v)
    BY <1>3, <2>1 DEF Handled, Given
  <2>2. CASE i \in Hole(v)
    <3>1. PICK p \in Owner : Withdrawing(p, v) /\ i = irqCall[p].i
      BY <2>2 DEF Hole
    <3>2. irqCall[p].step = "shift" /\ irqCall[p].v = v
      BY <3>1 DEF Withdrawing
    <3>3. CallOK(p) /\ irqCall[p].step # "idle"
      BY <3>2 DEF IrqInv
    <3>4. irqLock = p /\ Working(irqCall[p], e, p)
      BY <1>1, <3>2, <3>3 DEF CallOK
    <3>5. e.data[i] = p \/ (i > 1 /\ e.data[i] = e.data[i - 1])
      BY <3>1, <3>2, <3>4 DEF Working
    <3>6. Hole(v) = {i}
      <4>1. \A q \in Owner \ {p} : irqCall[q].step = "idle"
        BY <3>4, WorksAlone
      <4> QED
        BY <3>1, <3>2, <4>1, OneHole
    <3>7. i > 1 => i - 1 \in (1..e.count) \ Hole(v)
      BY <1>4, <3>6, SMT
    <3>8. i > 1 => e.data[i - 1] \in Given(v)
      BY <1>3, <3>7 DEF Handled
    <3> QED
      BY <3>1, <3>5, <3>8 DEF Given
  <2> QED
    BY <2>1, <2>2
<1>8. \A o \in Range(called) : given[o] = v \/ Withdrawing(o, v)
  <2>1. \A o \in Range(called) : \E i \in 1..e.count : o = e.data[i]
    BY <1>5 DEF Range
  <2> QED
    BY <1>7, <2>1, SMT
<1>9. ASSUME ~ \E o \in Owner : Withdrawing(o, v) PROVE IsInjective(called)
  <2>1. Hole(v) = {}
    BY <1>9 DEF Hole
  <2>2. \A i, j \in 1..e.count : e.data[i] = e.data[j] => i = j
    BY <1>3, <2>1 DEF Handled
  <2> QED
    BY <1>5, <2>2, ZenonT(60) DEF IsInjective
<1> QED
  BY <1>6, <1>8, <1>9

(* An interrupt calls every driver that is registered for its vector,      *)
(* whatever change of the array it meets, no other than one that is        *)
(* withdrawing, and none twice unless one is; an exclusive vector has one  *)
(* driver, and every interrupt is acknowledged: for any drivers, vectors   *)
(* and sizes of the array.  Nothing is said from the interrupt on that     *)
(* finds the array freed and its memory used again, which ends IrqNext.    *)
THEOREM InterruptsAreDelivered ==
    ASSUME InterruptsAssumption PROVE IrqSpec => InterruptsDelivered
<1>1. IrqInv /\ [IrqNext]_irqVars => [DispatchedToAll]_irqVars
  <2> SUFFICES ASSUME IrqInv, [IrqNext]_irqVars, raised' # raised
               PROVE  /\ \A o \in Owner : given[o] = log'.v => o \in Range(log'.called)
                      /\ \A o \in Range(log'.called) :
                           given[o] = log'.v \/ Withdrawing(o, log'.v)
                      /\ \/ IsInjective(log'.called)
                         \/ \E o \in Owner : Withdrawing(o, log'.v)
    BY DEF DispatchedToAll
  <2>1. Interrupt
    BY DEF IrqNext, irqVars, Register, RequestExclusive, Look, SetInterruptCallback, Grow,
           Store, Count, Unregister, Shift, Shrink, Exception
  <2>2. PICK o \in Owner : given[o] # Nil /\ log' = [v |-> given[o], called |-> Dispatched(given[o])]
    BY <2>1 DEF Interrupt
  <2>3. PICK v, called : v = given[o] /\ called = Dispatched(v)
    OBVIOUS
  <2>4. v \in Vector /\ entry[v] # Nil
    BY <2>2, <2>3, GivenVector
  <2>5. called = SubSeq(entry[v].data, 1, entry[v].count)
    BY <2>3, <2>4 DEF Dispatched, Handlers
  <2>6. log'.v = v /\ log'.called = called
    BY <2>2, <2>3
  <2>7. /\ \A p \in Owner : given[p] = v => p \in Range(called)
        /\ \A p \in Range(called) : given[p] = v \/ Withdrawing(p, v)
        /\ IsInjective(called) \/ \E p \in Owner : Withdrawing(p, v)
    BY <2>4, <2>5, CalledRight
  <2> QED
    BY <2>6, <2>7
<1>2. IrqInv => ExclusiveIsAlone /\ service = {}
  BY AloneFollows DEF IrqInv, IrqTypes
<1> QED
  BY <1>1, <1>2, IrqInvariant, PTL DEF IrqSpec, InterruptsDelivered
=============================================================================
