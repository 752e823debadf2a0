----------------------------- MODULE Namespace -----------------------------
(***************************************************************************)
(* The directory tree and the file descriptors: sys/vfs (vfs.c, node.c,    *)
(* path.c), the callbacks of the ffs file system and the descriptor table  *)
(* of sys/scheduler/process.c.  Threads call vfs_open(), vfs_close(),      *)
(* vfs_readDir(), vfs_mkdir(), vfs_remove(), vfs_move() and vfs_stat().    *)
(*                                                                         *)
(* A call runs without interruption from one acquisition of a lock to the  *)
(* next: the locks of the process, of a node and of the heap, which every  *)
(* halloc() and hfree() takes, are where it may wait while others run.     *)
(* A new entry is looked up in one step and made in another, for its       *)
(* bucket is allocated in between.                                         *)
(*                                                                         *)
(* What a file holds is in FileData; a path is a sequence of names.        *)
(***************************************************************************)
EXTENDS Integers, Sequences, FiniteSets

CONSTANTS
    Thread,
    Process,
    Mover,      \* the threads that call vfs_move()
    Name,
    Path,       \* the paths the threads use, non-empty; a name may be ".."
    Flags,      \* the sets of flags they open with
    Fd,         \* 0..kSDMaxOpenFiles - 1
    MaxNodes,   \* bound: nodes created, the root included
    MaxCalls,   \* bound: calls made
    NULL

NodeId == 0..MaxNodes - 1
Root == 0

(* A node and an open file, with the fields that the calls use.            *)
NodeType == [type : {"directory", "file"}, name : Name \cup {NULL},
             parent : NodeId \cup {NULL}, references : Int]
FileType == [node : NodeId \cup {NULL}, offset : Int, count : Int, freed : BOOLEAN]

NamespaceAssumption ==
    /\ IsFiniteSet(Thread) /\ IsFiniteSet(Process) /\ IsFiniteSet(Fd) /\ IsFiniteSet(Name)
    /\ Mover \subseteq Thread
    /\ Path \subseteq Seq(Name) \ {<<>>}
    /\ Fd \subseteq Nat
    /\ MaxNodes \in Nat \ {0}
    /\ MaxCalls \in Nat
    /\ NULL \notin Thread /\ NULL \notin Name /\ NULL \notin NodeId
    /\ NULL \notin NodeType /\ NULL \notin FileType

VARIABLES
    of,       \* the process of each thread
    nodes,    \* the nodes by id; an id without a node has NULL
    childs,   \* the entries of each directory
    lastID,   \* instance->lastID
    lock,     \* the holder of each node's lock, or NULL
    files,    \* process->files
    owner,    \* the thread that holds process->lock, or NULL
    call,     \* the call each thread is in
    calls,    \* the calls made
    fault,    \* the kernel followed a pointer that is not one or is freed
    doubled   \* a directory was given a second entry of one name or node

tree == <<nodes, childs, lastID, lock>>
table == <<files, owner>>
ended == <<fault, doubled>>   \* what follows either of them is not modelled
namesVars == <<of, tree, table, call, calls, ended>>

(* kSDInvalidFile, which reserves a descriptor while its file is opened.   *)
Invalid == [node |-> NULL, offset |-> 0, count |-> 0, freed |-> FALSE]

(* A thread that is in no call.                                            *)
Idle == [op |-> "none", step |-> "idle", rest |-> <<>>, node |-> NULL,
         prev |-> NULL, name |-> NULL, dest |-> <<>>, flags |-> {},
         fd |-> NULL, source |-> NULL, target |-> NULL, file |-> NULL]

(* vfs_nodeFresh(): the creator keeps the first reference, and no one ever *)
(* gives it back.                                                          *)
Fresh(type, name) ==
    [type |-> type, name |-> name, parent |-> NULL, references |-> 1]

(* vfs_init() and vfs_instanceCreate(): the root directory, on which the   *)
(* link of the mount point holds a second reference.                       *)
NamesInit ==
    /\ of \in [Thread -> Process]
    /\ nodes = [n \in NodeId |->
                  IF n = Root THEN [Fresh("directory", NULL) EXCEPT !.references = 2]
                  ELSE NULL]
    /\ childs = [n \in NodeId |-> [x \in Name |-> NULL]]
    /\ lastID = 1
    /\ lock = [n \in NodeId |-> NULL]
    /\ files = [p \in Process |-> [f \in Fd |-> NULL]]
    /\ owner = [p \in Process |-> NULL]
    /\ call = [t \in Thread |-> Idle]
    /\ calls = 0
    /\ fault = FALSE /\ doubled = FALSE

Go(t, c) == call' = [call EXCEPT ![t] = c]

Return(t) == Go(t, Idle)

Fault ==
    /\ fault' = TRUE
    /\ UNCHANGED <<of, tree, table, call, calls, doubled>>

Doubled ==
    /\ doubled' = TRUE
    /\ UNCHANGED <<of, tree, table, call, calls, fault>>

-----------------------------------------------------------------------------
(* Paths.                                                                  *)

(* vfs_pathCreate(): the walk begins at context->chdir, which is the root. *)
Walk(c, path) ==
    [c EXCEPT !.step = "walk", !.rest = path, !.node = Root, !.prev = NULL]

(* ffs_accessNode() and vfs_nodeWithName().                                *)
AccessNode(n, name) ==
    IF nodes[n].type = "directory" THEN childs[n][name] ELSE NULL

NextNode(n, name) ==
    IF name = ".." THEN nodes[n].parent ELSE AccessNode(n, name)

(* vfs_pathNextElement(), which locks the node it looks into.              *)
PathNextElement(t) ==
    LET c == call[t] IN
    /\ c.step \in {"walk", "parent"}
    /\ c.rest # <<>> /\ c.node # NULL
    /\ Head(c.rest) # ".." => lock[c.node] = NULL
    /\ Go(t, [c EXCEPT !.rest = Tail(c.rest), !.name = Head(c.rest),
                       !.prev = c.node, !.node = NextNode(c.node, Head(c.rest))])
    /\ UNCHANGED <<of, tree, table, calls, ended>>

WalkOver(c) == c.rest = <<>> \/ c.node = NULL

(* vfs_resolvePathToParent(): the last node before the missing element; if *)
(* no element is missing, the parent of the last node but one.             *)
Parent(c) ==
    IF c.node # NULL THEN nodes[c.prev].parent
    ELSE IF c.rest = <<>> THEN c.prev ELSE NULL

ResolveParent(c, path) == [Walk(c, path) EXCEPT !.step = "parent"]

-----------------------------------------------------------------------------
(* Entries of directories.                                                 *)

(* vfs_directoryAttachNode(), which attaches the node only if it has no    *)
(* parent and its name is free; the callers say what happens otherwise.    *)
CanAttach(ns, cs, d, n) == ns[n].parent = NULL /\ cs[d][ns[n].name] = NULL

DirectoryAttachNode(d, n) ==
    /\ CanAttach(nodes, childs, d, n)
    /\ childs' = [childs EXCEPT ![d][nodes[n].name] = n]
    /\ nodes' = [nodes EXCEPT ![n].parent = d, ![n].references = @ + 1]

(* A mutant: the reference of the directory is not released. *)
RemovedUnreleased(ns, d, n) ==
    IF ns[n].parent = d THEN [ns EXCEPT ![n].parent = NULL] ELSE ns

(* vfs_directoryRemoveNode(), which finds the entry by the node's name.    *)
(* The release never takes the last reference, see ReferencesExact.        *)
Removed(ns, d, n) ==
    IF ns[n].parent = d
    THEN [ns EXCEPT ![n].parent = NULL, ![n].references = @ - 1]
    ELSE ns

RemovedEntry(cs, d, n) ==
    IF nodes[n].parent = d THEN [cs EXCEPT ![d][nodes[n].name] = NULL] ELSE cs

Retain(n) == nodes' = [nodes EXCEPT ![n].references = @ + 1]
Release(n) == nodes' = [nodes EXCEPT ![n].references = @ - 1]

-----------------------------------------------------------------------------
(* vfs_open() and the creation of files.                                   *)

Begin(t) ==
    /\ call[t] = Idle
    /\ calls < MaxCalls
    /\ calls' = calls + 1

(* process_allocateFiledescriptor() returns the first free slot.           *)
FreeFds(p) == {f \in Fd : files[p][f] = NULL}
FirstFree(p) == CHOOSE f \in FreeFds(p) : \A g \in FreeFds(p) : f <= g

Open(t) ==
    /\ Begin(t)
    /\ owner[of[t]] = NULL
    /\ IF FreeFds(of[t]) = {} THEN UNCHANGED <<table, call>>
       ELSE \E path \in Path, flags \in Flags :
              LET fd == FirstFree(of[t]) IN
              /\ owner' = [owner EXCEPT ![of[t]] = t]
              /\ files' = [files EXCEPT ![of[t]][fd] = Invalid]
              /\ Go(t, Walk([Idle EXCEPT !.op = "open", !.dest = path,
                                         !.flags = flags, !.fd = fd], path))
    /\ UNCHANGED <<of, tree, ended>>

(* The ways out of vfs_open(): without a file, and with one.               *)
LeaveOpen(t, file) ==
    /\ files' = [files EXCEPT ![of[t]][call[t].fd] = file]
    /\ owner' = [owner EXCEPT ![of[t]] = NULL]
    /\ Return(t)

OpenResolved(t) ==
    LET c == call[t] IN
    /\ c.op = "open" /\ c.step = "walk" /\ WalkOver(c)
    /\ \/ /\ c.node # NULL /\ "O_EXCL" \notin c.flags
          /\ Go(t, [c EXCEPT !.step = "fileOpen"])
          /\ UNCHANGED table
       \/ /\ IF c.node = NULL THEN "O_CREAT" \notin c.flags ELSE "O_EXCL" \in c.flags
          /\ LeaveOpen(t, NULL)
       \/ /\ c.node = NULL /\ "O_CREAT" \in c.flags
          /\ Go(t, ResolveParent(c, c.dest))
          /\ UNCHANGED table
    /\ UNCHANGED <<of, tree, calls, ended>>

(* parent->instance is read before parent is compared with NULL.           *)
OpenParent(t) ==
    LET c == call[t] IN
    /\ c.op = "open" /\ c.step = "parent" /\ WalkOver(c)
    /\ IF Parent(c) = NULL THEN Fault
       ELSE /\ Go(t, [c EXCEPT !.step = "create", !.target = Parent(c)])
            /\ UNCHANGED <<of, tree, table, calls, ended>>

(* ffs_createFile() and ffs_createDirectory() up to the attachment.        *)
CreateNode(t) ==
    LET c == call[t] IN
    /\ c.step = "create"
    /\ lastID < MaxNodes
    /\ nodes' = [nodes EXCEPT ![lastID] =
                   Fresh(IF c.op = "mkdir" THEN "directory" ELSE "file", c.name)]
    /\ lastID' = lastID + 1
    /\ Go(t, [c EXCEPT !.step = "attach", !.node = lastID])
    /\ UNCHANGED <<of, childs, lock, table, calls, ended>>

(* ffs_attachNode() up to the allocation of the entry's bucket, with the   *)
(* directory locked, and what its callers do with its answer.  A file has  *)
(* no childs.  If the name is taken, vfs_open() opens the NULL that        *)
(* ffs_createFile() returns, and vfs_nodeDelete() of a directory frees the *)
(* NULL its iterator ended with, which panics.                             *)
AttachNode(t) ==
    LET c == call[t] IN
    /\ c.step = "attach"
    /\ lock[c.target] = NULL
    /\ IF nodes[c.target].type # "directory" \/ childs[c.target][c.name] # NULL
       THEN Fault
       ELSE /\ lock' = [lock EXCEPT ![c.target] = t]
            /\ UNCHANGED <<of, nodes, childs, lastID, table, call, calls, ended>>

(* The entry is made, though a move, which does not lock the directory,    *)
(* may have made one of that name since.                                   *)
InsertNode(t) ==
    LET c == call[t] IN
    /\ c.step = "attach"
    /\ lock[c.target] = t
    /\ IF childs[c.target][c.name] # NULL THEN Doubled
       ELSE /\ DirectoryAttachNode(c.target, c.node)
            /\ lock' = [lock EXCEPT ![c.target] = NULL]
            /\ Go(t, IF c.op = "open" THEN [c EXCEPT !.step = "fileOpen"] ELSE Idle)
            /\ UNCHANGED <<of, lastID, table, calls, ended>>

(* vfs_fileCreate().                                                       *)
Reads(flags) == flags \cap {"O_RDONLY", "O_RDWR"} # {}
Writes(flags) == flags \cap {"O_WRONLY", "O_RDWR"} # {}

MayOpen(n, flags) ==
    /\ Reads(flags) \/ Writes(flags)
    /\ nodes[n].type = "directory" => ~Writes(flags)

Entries(d) == {x \in Name : childs[d][x] # NULL}

(* ffs_fileOpen(), for a directory up to the count of its entries: the     *)
(* memory for them is allocated before they are copied.                    *)
OpenFile(t) ==
    LET c == call[t]
        file == [node |-> c.node, offset |-> 0, count |-> 0, freed |-> FALSE]
    IN
    /\ c.step = "fileOpen"
    /\ \/ /\ ~MayOpen(c.node, c.flags)
          /\ LeaveOpen(t, NULL)
          /\ UNCHANGED nodes
       \/ /\ MayOpen(c.node, c.flags) /\ nodes[c.node].type = "file"
          /\ Retain(c.node)
          /\ LeaveOpen(t, file)
       \/ /\ MayOpen(c.node, c.flags) /\ nodes[c.node].type = "directory"
          /\ Retain(c.node)
          /\ Go(t, [c EXCEPT !.step = "entries",
                             !.file = [file EXCEPT !.count = Cardinality(Entries(c.node))]])
          /\ UNCHANGED table
    /\ UNCHANGED <<of, childs, lastID, lock, calls, ended>>

(* The entries are copied into the memory of the count.                    *)
CopyEntries(t) ==
    /\ call[t].step = "entries"
    /\ LeaveOpen(t, call[t].file)
    /\ UNCHANGED <<of, tree, calls, ended>>

-----------------------------------------------------------------------------
(* vfs_close() and vfs_readDir(): they take no lock of the process.        *)

(* ffs_fileClose() frees the entries of a directory before the file.       *)
(* Whoever has the file of a descriptor that is being closed uses freed    *)
(* memory from the first of these steps on.                                *)
Close(t) ==
    \E f \in Fd :
      LET file == files[of[t]][f] IN
      /\ Begin(t)
      /\ file # NULL
      /\ IF file = Invalid \/ file.freed
         THEN /\ fault' = TRUE
              /\ UNCHANGED <<of, tree, table, call, doubled>>
         ELSE /\ files' = [files EXCEPT ![of[t]][f].freed = TRUE]
              /\ \/ /\ nodes[file.node].type = "directory"
                    /\ Go(t, [Idle EXCEPT !.op = "close", !.step = "delete", !.fd = f, !.file = file])
                    /\ UNCHANGED nodes
                 \/ /\ nodes[file.node].type = "file"
                    /\ Release(file.node)
                    /\ Go(t, [Idle EXCEPT !.op = "close", !.step = "release", !.fd = f])
              /\ UNCHANGED <<of, childs, lastID, lock, owner, ended>>

(* vfs_fileDelete(), once the entries are freed.                           *)
DeleteFile(t) ==
    LET c == call[t] IN
    /\ c.step = "delete"
    /\ Release(c.file.node)
    /\ Go(t, [c EXCEPT !.step = "release", !.file = NULL])
    /\ UNCHANGED <<of, childs, lastID, lock, table, calls, ended>>

ReleaseFiledescriptor(t) ==
    /\ call[t].step = "release"
    /\ files' = [files EXCEPT ![of[t]][call[t].fd] = NULL]
    /\ Return(t)
    /\ UNCHANGED <<of, tree, owner, calls, ended>>

(* ffs_dirRead() of at most n entries.                                     *)
ReadDir(t) ==
    \E f \in Fd, n \in 1..2 :
      LET file == files[of[t]][f] IN
      /\ Begin(t)
      /\ file # NULL
      /\ IF file = Invalid \/ file.freed
         THEN /\ fault' = TRUE
              /\ UNCHANGED <<of, tree, table, call, doubled>>
         ELSE /\ nodes[file.node].type = "directory"
              /\ lock[file.node] = NULL
              /\ files' = [files EXCEPT ![of[t]][f].offset =
                             @ + (IF n < file.count - @ THEN n ELSE file.count - @)]
              /\ UNCHANGED <<of, tree, owner, call, ended>>

-----------------------------------------------------------------------------
(* vfs_mkdir(), vfs_remove() and vfs_stat().                               *)

Mkdir(t) ==
    /\ Begin(t)
    /\ \E path \in Path : Go(t, ResolveParent([Idle EXCEPT !.op = "mkdir"], path))
    /\ UNCHANGED <<of, tree, table, ended>>

MkdirResolved(t) ==
    LET c == call[t]
        p == Parent(c)
    IN
    /\ c.op = "mkdir" /\ c.step = "parent" /\ WalkOver(c)
    /\ IF p = NULL THEN Return(t)
       ELSE IF nodes[p].type # "directory" THEN Return(t)
       ELSE Go(t, [c EXCEPT !.step = "create", !.target = p])
    /\ UNCHANGED <<of, tree, table, calls, ended>>

RemoveOrStat(t) ==
    /\ Begin(t)
    /\ \E path \in Path, op \in {"remove", "stat"} :
          Go(t, Walk([Idle EXCEPT !.op = op], path))
    /\ UNCHANGED <<of, tree, table, ended>>

Stat(t) ==
    /\ call[t].op = "stat" /\ call[t].step = "walk" /\ WalkOver(call[t])
    /\ Return(t)
    /\ UNCHANGED <<of, tree, table, calls, ended>>

(* ffs_nodeRemove() reads the parent before it locks it.                   *)
RemoveResolved(t) ==
    LET c == call[t] IN
    /\ c.op = "remove" /\ c.step = "walk" /\ WalkOver(c)
    /\ \/ /\ c.node = NULL
          /\ Return(t)
          /\ UNCHANGED <<of, tree, table, calls, ended>>
       \/ /\ c.node # NULL
          /\ IF nodes[c.node].parent = NULL THEN Fault
             ELSE /\ Go(t, [c EXCEPT !.step = "remove", !.target = nodes[c.node].parent])
                  /\ UNCHANGED <<of, tree, table, calls, ended>>

NodeRemove(t) ==
    LET c == call[t] IN
    /\ c.step = "remove"
    /\ lock[c.target] = NULL
    /\ nodes' = Removed(nodes, c.target, c.node)
    /\ childs' = RemovedEntry(childs, c.target, c.node)
    /\ Return(t)
    /\ UNCHANGED <<of, lastID, lock, table, calls, ended>>

-----------------------------------------------------------------------------
(* vfs_move() and ffs_nodeMove().                                          *)

Move(t) ==
    /\ t \in Mover
    /\ Begin(t)
    /\ \E path \in Path, dest \in Path :
          Go(t, Walk([Idle EXCEPT !.op = "move", !.dest = dest], path))
    /\ UNCHANGED <<of, tree, table, ended>>

(* The source, then the destination as a directory or, if there is none,   *)
(* as a name in its parent.                                                *)
MoveResolved(t) ==
    LET c == call[t] IN
    /\ c.op = "move" /\ c.step \in {"walk", "parent"} /\ WalkOver(c)
    /\ Go(t, IF c.source = NULL
             THEN IF c.node = NULL THEN Idle
                  ELSE Walk([c EXCEPT !.source = c.node], c.dest)
             ELSE IF c.step = "walk"
             THEN IF c.node = NULL THEN ResolveParent(c, c.dest)
                  ELSE [c EXCEPT !.step = "retain", !.target = c.node, !.name = NULL]
             ELSE IF Parent(c) = NULL THEN Idle
                  ELSE [c EXCEPT !.step = "retain", !.target = Parent(c)])
    /\ UNCHANGED <<of, tree, table, calls, ended>>

(* The directory is read before it is locked; prev keeps it.               *)
MoveRetain(t) ==
    LET c == call[t] IN
    /\ c.step = "retain"
    /\ IF nodes[c.source].parent = NULL THEN Fault
       ELSE /\ Retain(c.source)
            /\ Go(t, [c EXCEPT !.step = "replace", !.prev = nodes[c.source].parent])
            /\ UNCHANGED <<of, childs, lastID, lock, table, calls, ended>>

NewName(c) == IF c.name = NULL THEN nodes[c.source].name ELSE c.name

(* Only the old directory is locked while the entry of the new one, which  *)
(* may be a file, is looked up and removed.                                *)
MoveReplace(t) ==
    LET c == call[t]
        current == childs[c.target][NewName(c)]
    IN
    /\ c.step = "replace"
    /\ lock[c.prev] = NULL
    /\ IF nodes[c.target].type # "directory" THEN Fault
       ELSE IF current = NULL
       THEN /\ lock' = [lock EXCEPT ![c.prev] = t]
            /\ Go(t, [c EXCEPT !.step = "rename"])
            /\ UNCHANGED <<of, nodes, childs, lastID, table, calls, ended>>
       ELSE IF nodes[current].type = "directory" /\ Entries(current) # {}
       THEN /\ Release(c.source)
            /\ Return(t)
            /\ UNCHANGED <<of, childs, lastID, lock, table, calls, ended>>
       ELSE /\ lock' = [lock EXCEPT ![c.prev] = t]
            /\ nodes' = Removed(nodes, c.target, current)
            /\ childs' = RemovedEntry(childs, c.target, current)
            /\ Go(t, [c EXCEPT !.step = "rename"])
            /\ UNCHANGED <<of, lastID, table, calls, ended>>

MoveRename(t) ==
    LET c == call[t] IN
    /\ c.step = "rename"
    /\ nodes' = [Removed(nodes, c.prev, c.source) EXCEPT ![c.source].name = NewName(c)]
    /\ childs' = RemovedEntry(childs, c.prev, c.source)
    /\ Go(t, [c EXCEPT !.step = "reattach"])
    /\ UNCHANGED <<of, lastID, lock, table, calls, ended>>

(* vfs_directoryAttachNode() of the new directory, which is not locked: up *)
(* to the allocation of the entry's bucket.                                *)
MoveAttach(t) ==
    LET c == call[t] IN
    /\ c.step = "reattach"
    /\ IF CanAttach(nodes, childs, c.target, c.source)
       THEN /\ Go(t, [c EXCEPT !.step = "reinsert"])
            /\ UNCHANGED <<nodes, lock>>
       ELSE /\ Release(c.source)
            /\ lock' = [lock EXCEPT ![c.prev] = NULL]
            /\ Return(t)
    /\ UNCHANGED <<of, childs, lastID, table, calls, ended>>

(* The entry is made, whatever others have made of the name since; the     *)
(* reference of the move becomes that of the directory.                    *)
MoveInsert(t) ==
    LET c == call[t] IN
    /\ c.step = "reinsert"
    /\ IF ~CanAttach(nodes, childs, c.target, c.source) THEN Doubled
       ELSE /\ childs' = [childs EXCEPT ![c.target][nodes[c.source].name] = c.source]
            /\ nodes' = [nodes EXCEPT ![c.source].parent = c.target]
            /\ lock' = [lock EXCEPT ![c.prev] = NULL]
            /\ Return(t)
            /\ UNCHANGED <<of, lastID, table, calls, ended>>

-----------------------------------------------------------------------------
Finished ==
    /\ fault \/ doubled
       \/ \A t \in Thread : call[t] = Idle \/ (call[t].step = "create" /\ lastID = MaxNodes)
    /\ UNCHANGED namesVars

NamesNext ==
    \/ /\ ~fault /\ ~doubled
       /\ \E t \in Thread :
            \/ PathNextElement(t)
            \/ Open(t) \/ OpenResolved(t) \/ OpenParent(t)
            \/ CreateNode(t) \/ AttachNode(t) \/ InsertNode(t)
            \/ OpenFile(t) \/ CopyEntries(t)
            \/ Close(t) \/ DeleteFile(t) \/ ReleaseFiledescriptor(t) \/ ReadDir(t)
            \/ Mkdir(t) \/ MkdirResolved(t)
            \/ RemoveOrStat(t) \/ Stat(t) \/ RemoveResolved(t) \/ NodeRemove(t)
            \/ Move(t) \/ MoveResolved(t) \/ MoveRetain(t)
            \/ MoveReplace(t) \/ MoveRename(t) \/ MoveAttach(t) \/ MoveInsert(t)
    \/ Finished

NamesSpec == NamesInit /\ [][NamesNext]_namesVars

-----------------------------------------------------------------------------
Live == {n \in NodeId : nodes[n] # NULL}

(* The open files of a node: in a descriptor, being opened or being freed. *)
OfNode(file, n) == file # NULL /\ file.node = n /\ ~file.freed

Holders(n) == {s \in Process \X Fd : OfNode(files[s[1]][s[2]], n)}
Openers(n) == {t \in Thread : call[t].file # NULL /\ call[t].file.node = n}

OpenFiles(n) == Cardinality(Holders(n)) + Cardinality(Openers(n))

(* The moves that a node is in.                                            *)
MovesOf(n) ==
    {t \in Thread : /\ call[t].source = n
                   /\ call[t].step \in {"replace", "rename", "reattach", "reinsert"}}

(* A node's references are those of its creator, of its directory, of its  *)
(* open files and of the moves it is in (the root's, also of the mount     *)
(* point), whatever calls interleave: vfs_nodeRelease() never destroys a   *)
(* node that is still reachable, and none of them is lost.                 *)
ReferencesExact ==
    \A n \in Live :
       nodes[n].references = (IF n = Root THEN 2 ELSE 1)
                             + (IF nodes[n].parent # NULL THEN 1 ELSE 0)
                             + OpenFiles(n) + Cardinality(MovesOf(n))

(* A node is under its own name in the directory its parent field names,   *)
(* and in no other entry of any directory, between any two steps of calls  *)
(* that create, remove and move nodes.                                     *)
DirectoriesAgree ==
    \A n \in Live :
       {s \in Live \X Name : childs[s[1]][s[2]] = n}
         = IF nodes[n].parent = NULL THEN {} ELSE {<<nodes[n].parent, nodes[n].name>>}

(* A descriptor is reserved with kSDInvalidFile only while the holder of   *)
(* the process's lock opens its file, and holds a freed file only while    *)
(* the close() that freed it has not released it.                          *)
SlotsAccounted ==
    \A p \in Process, f \in Fd :
       /\ files[p][f] = Invalid =>
            \E t \in Thread : owner[p] = t /\ call[t].op = "open" /\ call[t].fd = f
       /\ (files[p][f] # NULL /\ files[p][f].freed) =>
            \E t \in Thread :
               of[t] = p /\ call[t].step \in {"delete", "release"} /\ call[t].fd = f

(* The references of the nodes, the directories and the descriptors agree  *)
(* between any two steps of the calls of vfs.c, up to the use of a freed   *)
(* file and to the second entry of a name, where the modelled steps end.   *)
NamespaceConsistent == ReferencesExact /\ DirectoriesAgree /\ SlotsAccounted
=============================================================================
