------------------------------ MODULE FileData ------------------------------
(***************************************************************************)
(* What a file of the ffs file system holds: sys/vfs/ffs/ffs_node.c and    *)
(* the callbacks fileOpen, fileClose, fileWrite, fileRead and fileSeek of  *)
(* ffs_callbacks.c, for one node and the files open on it.  A call is one  *)
(* step: reads, writes and seeks hold the node's lock, and a system call   *)
(* that meets no lock that is taken runs to its end.                       *)
(*                                                                         *)
(* The memory of the node is a function on 0..pages * PageSize - 1.        *)
(***************************************************************************)
EXTENDS Integers, FiniteSets

CONSTANTS
    File,       \* the files that may be open on the node
    Access,     \* the accesses that flags ask for, sets of "reads" and "writes"
    Byte,
    Junk,       \* what memory holds that nobody wrote
    PageSize,   \* VM_PAGE_SIZE
    Chunk,      \* kFFSNodeMaxChunkSize
    Word,       \* 2^32
    MaxSize,    \* bound: size of the file and offsets
    Nothing     \* NULL

FileDataAssumption ==
    /\ Access \subseteq SUBSET {"reads", "writes"}
    /\ PageSize \in Nat \ {0} /\ Chunk \in Nat \ {0}
    /\ MaxSize \in Nat /\ Word \in Nat /\ MaxSize < Word
    /\ Junk \notin Byte
    /\ \A n \in 0..MaxSize + PageSize : Nothing \notin [0..n - 1 -> Byte \cup {Junk}]

VARIABLES
    memory,     \* data->data, or NULL
    pages,      \* data->pages
    size,       \* data->size
    nodeSize,   \* node->size
    open,       \* per file: NULL, or its offset and its access
    locked,     \* the node's lock stays taken
    written,    \* the bytes written since the file was last truncated
    truncated,  \* the file was truncated while it was open
    crossed     \* a write went past the memory of the file

vars == <<memory, pages, size, nodeSize, open, locked, written, truncated, crossed>>

Smaller(a, b) == IF a < b THEN a ELSE b
PageCount(n) == (n + PageSize - 1) \div PageSize
Capacity == pages * PageSize

(* ffs_node_dataCreate().                                                  *)
Init ==
    /\ memory = Nothing /\ pages = 0 /\ size = 0 /\ nodeSize = 0
    /\ open = [f \in File |-> Nothing]
    /\ locked = FALSE
    /\ written = [o \in {} |-> Junk]
    /\ truncated = FALSE /\ crossed = FALSE

(* vfs_fileCreate() and the truncation of ffs_fileOpen(), which also comes *)
(* when the file is refused because the flags ask for no access.           *)
FileOpen(f) ==
    \E access \in Access, append, trunc \in BOOLEAN :
      /\ open[f] = Nothing
      /\ open' = IF access = {} THEN open
                 ELSE [open EXCEPT ![f] = [offset |-> IF append THEN nodeSize ELSE 0,
                                           access |-> access]]
      /\ IF trunc
         THEN /\ size' = 0 /\ nodeSize' = 0
              /\ written' = [o \in {} |-> Junk]
              /\ truncated' = (truncated \/ \E g \in File : open'[g] # Nothing
                                                 /\ (g = f => append))
         ELSE UNCHANGED <<size, nodeSize, written, truncated>>
      /\ UNCHANGED <<memory, pages, locked, crossed>>

FileClose(f) ==
    /\ open[f] # Nothing
    /\ open' = [open EXCEPT ![f] = Nothing]
    /\ UNCHANGED <<memory, pages, size, nodeSize, locked, written, truncated, crossed>>

(* The callbacks that take the node's lock wait for ever if it stays taken.*)
Locks(f) == open[f] # Nothing /\ ~locked

(* The pages and the memory after ffs_node_allocateMemory(data, minSize):  *)
(* memory of more pages is new and gets the first data->size bytes.        *)
Allocated(minSize) ==
    IF memory = Nothing \/ PageCount(minSize) > pages THEN PageCount(minSize) ELSE pages

Moved(minSize) ==
    [o \in 0..Allocated(minSize) * PageSize - 1 |->
       IF memory = Nothing THEN Junk
       ELSE IF Allocated(minSize) = pages THEN memory[o]
       ELSE IF o < size /\ o < Capacity THEN memory[o] ELSE Junk]

(* A mutant: memory for the bytes, wherever they go. *)
RequiredBytes(offset, n) == n

(* What ffs_node_writeData() asks for.                                     *)
Required(offset, n) == size + n

(* ffs_fileWrite() of n bytes b, which may not be there to copy.           *)
FileWrite(f) ==
    \E b \in Byte, asked \in 1..Chunk + 1, copied \in BOOLEAN :
      LET n == Smaller(asked, Chunk)
          offset == open[f].offset
          bytes == [o \in offset..offset + n - 1 |-> b]
          space == Moved(Required(offset, n))
      IN
      /\ Locks(f)
      /\ "writes" \in open[f].access
      /\ offset + n <= MaxSize /\ size + n <= MaxSize
      /\ pages' = Allocated(Required(offset, n))
      /\ IF copied
         THEN /\ memory' = [o \in DOMAIN space |->
                              IF o \in DOMAIN bytes THEN bytes[o] ELSE space[o]]
              /\ crossed' = ~(DOMAIN bytes \subseteq DOMAIN space)
              /\ size' = IF offset + n > size THEN offset + n ELSE size
              /\ nodeSize' = size'
              /\ open' = [open EXCEPT ![f].offset = offset + n]
              /\ written' = [o \in DOMAIN written \cup DOMAIN bytes |->
                               IF o \in DOMAIN bytes THEN b ELSE written[o]]
         ELSE memory' = space /\ UNCHANGED <<crossed, size, nodeSize, open, written>>
      /\ UNCHANGED <<locked, truncated>>

(* The bytes that ffs_node_readData() copies: up to the end of the file,   *)
(* in the arithmetic of size_t.                                            *)
ReadCount(offset, asked) ==
    Smaller((Smaller(size, offset + asked) - offset) % Word, Chunk)

(* ffs_fileRead().  The size of the data, not of the node, grows by what   *)
(* was read.                                                               *)
FileRead(f) ==
    \E asked \in 1..Chunk + 1 :
      LET n == ReadCount(open[f].offset, asked) IN
      /\ Locks(f)
      /\ "reads" \in open[f].access
      /\ size + n <= MaxSize /\ open[f].offset + n <= MaxSize
      /\ size' = size + n
      /\ open' = [open EXCEPT ![f].offset = @ + n]
      /\ UNCHANGED <<memory, pages, nodeSize, locked, written, truncated, crossed>>

(* ffs_fileSeek(): an offset past the end, or one that wraps around below  *)
(* zero, is refused; with an unknown whence it returns with the lock.      *)
FileSeek(f) ==
    /\ Locks(f)
    /\ \E by \in -1..1, base \in {0, open[f].offset, size} :
         LET to == (base + by) % Word IN
         to <= size /\ open' = [open EXCEPT ![f].offset = to]
    /\ UNCHANGED <<memory, pages, size, nodeSize, locked, written, truncated, crossed>>

FileSeekUnknown(f) ==
    /\ Locks(f)
    /\ locked' = TRUE
    /\ UNCHANGED <<memory, pages, size, nodeSize, open, written, truncated, crossed>>

Next ==
    /\ ~crossed
    /\ \E f \in File :
         \/ FileOpen(f) \/ FileClose(f) \/ FileWrite(f) \/ FileRead(f)
         \/ FileSeek(f) \/ FileSeekUnknown(f)

Spec == Init /\ [][Next]_vars

-----------------------------------------------------------------------------
(* A byte that was written is in the memory of the file, with the value of *)
(* the last write at its offset, through every growth of the memory, until *)
(* the file is truncated; no write leaves that memory unless the file was  *)
(* truncated below the offset of a file that is open on it; and until then *)
(* nobody is past the end of the file, so that the difference that         *)
(* ffs_node_readData() computes does not wrap.                             *)
WritesKept ==
    /\ \/ /\ ~crossed
          /\ \A o \in DOMAIN written : o \in DOMAIN memory /\ memory[o] = written[o]
       \/ crossed /\ truncated
    /\ truncated \/ \A f \in File : open[f] # Nothing => open[f].offset <= size
=============================================================================
