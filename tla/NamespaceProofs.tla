-------------------------- MODULE NamespaceProofs --------------------------
(***************************************************************************)
(* The references of nodes, the directories and the descriptors agree      *)
(* between any two steps of the calls of vfs.c: NamespaceConsistent of     *)
(* Namespace, for any threads, processes, names, paths, descriptors and    *)
(* nodes, when at most one of the threads moves nodes.                     *)
(***************************************************************************)
EXTENDS Namespace, FiniteSetTheorems, WellFoundedInduction, TLAPS

(* Most leaves are first order reasoning; those that need more name their  *)
(* prover.                                                                 *)
USE Zenon

(* vfs_move() reads the directory of its node before it locks it: two      *)
(* moves of one node leave it in a directory that it does not name.        *)
OneMover == \A t, u \in Mover : t = u

Ref == NodeId \cup {NULL}

Moving == {"replace", "rename", "reattach", "reinsert"}

Call == [op : {"none", "open", "close", "mkdir", "remove", "stat", "move"},
         step : {"idle", "walk", "parent", "create", "attach", "fileOpen", "entries",
                 "delete", "release", "remove", "retain"} \cup Moving,
         rest : Seq(Name), node : Ref, prev : Ref, name : Name \cup {NULL},
         dest : Path \cup {<<>>}, flags : Flags \cup {{}}, fd : Fd \cup {NULL},
         source : Ref, target : Ref, file : FileType \cup {NULL}]

NamesTypes ==
    /\ of \in [Thread -> Process]
    /\ nodes \in [NodeId -> NodeType \cup {NULL}]
    /\ childs \in [NodeId -> [Name -> Ref]]
    /\ lastID \in 1..MaxNodes
    /\ files \in [Process -> [Fd -> FileType \cup {NULL}]]
    /\ owner \in [Process -> Thread \cup {NULL}]
    /\ call \in [Thread -> Call]

(* The ids that were given out have a node, the root has no parent, and a  *)
(* directory's entry and a node's parent field name the same place.        *)
TreeOK ==
    /\ \A n \in NodeId : n \in Live <=> n < lastID
    /\ nodes[Root].parent = NULL
    /\ \A n \in Live : /\ n # Root => nodes[n].name \in Name
                       /\ nodes[n].parent \in Live \cup {NULL}
    /\ \A d \in NodeId, x \in Name : childs[d][x] # NULL => d \in Live /\ childs[d][x] \in Live
    /\ \A d, n \in Live, x \in Name :
          childs[d][x] = n <=> nodes[n].parent = d /\ nodes[n].name = x

(* What a call c of thread t has found when it is at its step.             *)
Found(t, c) ==
    /\ c.step \in {"walk", "parent"} =>
         IF c.prev = NULL THEN c.rest # <<>> /\ c.node = Root ELSE c.name \in Name
    /\ c.step \in {"create", "attach"} => c.target # NULL /\ c.name \in Name
    /\ c.step \in {"attach", "fileOpen", "entries", "remove"} => c.node # NULL
    /\ c.step \in {"fileOpen", "entries"} => c.op = "open"
    /\ c.step \in {"delete", "release"} => c.op = "close"
    /\ c.step \in {"remove", "retain"} \cup Moving => c.target # NULL
    /\ c.step = "remove" => c.op = "remove"
    /\ c.step \in {"retain"} \cup Moving => c.op = "move"
    /\ c.step \in {"retain"} \cup Moving => t \in Mover /\ c.source # NULL
    /\ c.op = "move" => t \in Mover
    /\ c.op \in {"open", "move"} => c.dest \in Path
    /\ c.step \in Moving => c.source # Root /\ c.prev # NULL
    /\ c.step \in {"entries", "delete"} <=> c.file # NULL
    /\ c.step = "entries" => c.file.node = c.node /\ ~c.file.freed

(* A node that another thread has created and not attached yet is not      *)
(* known to thread t.                                                      *)
Known(t, x) ==
    \/ x = NULL
    \/ x \in Live /\ \A u \in Thread \ {t} : call[u].step = "attach" => call[u].node # x

KnowsNodes(t, c) ==
    Known(t, c.node) /\ Known(t, c.prev) /\ Known(t, c.source) /\ Known(t, c.target)

Unattached(t) ==
    call[t].step = "attach" =>
        /\ call[t].node # Root
        /\ nodes[call[t].node].parent = NULL
        /\ \A m \in Live : nodes[m].parent # call[t].node

(* A node that is moved is where its move found it, or was removed.        *)
InPlace(c) ==
    c.step \in {"replace", "rename"} => nodes[c.source].parent \in {c.prev, NULL}

CallsOK ==
    /\ \A t \in Thread : Found(t, call[t]) /\ KnowsNodes(t, call[t])
    /\ \A t \in Thread : Unattached(t) /\ InPlace(call[t])

(* A call that opens a file holds the process's lock and a reserved slot;  *)
(* one that closes it has freed the file of its slot.                      *)
HasSlot(t, c) ==
    /\ c.op = "open" => /\ c.fd \in Fd
                        /\ files[of[t]][c.fd] = Invalid /\ owner[of[t]] = t
    /\ c.step \in {"delete", "release"} =>
          c.fd \in Fd /\ files[of[t]][c.fd] # NULL /\ files[of[t]][c.fd].freed
    /\ c.step = "delete" => files[of[t]][c.fd].node = c.file.node

(* A descriptor is released by one call; a process is locked by a thread   *)
(* of its own; an open file has a node.                                    *)
TableOK ==
    /\ \A t \in Thread : HasSlot(t, call[t])
    /\ \A t, u \in Thread :
          /\ call[t].step \in {"delete", "release"} /\ call[u].step \in {"delete", "release"}
          /\ of[t] = of[u] /\ call[t].fd = call[u].fd
          => t = u
    /\ \A p \in Process : owner[p] # NULL => of[owner[p]] = p
    /\ \A p \in Process, f \in Fd :
          files[p][f] \notin {NULL, Invalid} => files[p][f].node \in Live
    /\ SlotsAccounted

NamesInv == NamesTypes /\ TreeOK /\ CallsOK /\ TableOK /\ ReferencesExact

-----------------------------------------------------------------------------
(* A set of descriptors has a first one.                                   *)
LEMMA FirstNumber ==
    ASSUME NEW S \in SUBSET Nat, S # {}
    PROVE  \E n \in S : \A m \in S : n <= m
<1>1. PICK R : R = OpToRel(<, Nat)
  OBVIOUS
<1>2. IsWellFoundedOn(R, Nat)
  BY <1>1, NatLessThanWellFounded
<1>3. PICK n \in S : \A m \in S : ~ (<<m, n>> \in R)
  BY <1>2, WFMin
<1>4. \A m \in S : ~ (m < n)
  BY <1>1, <1>3 DEF OpToRel
<1> QED
  BY <1>4, SMT

(* A node that there is has the fields of one.                             *)
LEMMA LiveIsNode ==
    ASSUME NamespaceAssumption, NamesTypes, NEW n \in Live
    PROVE  /\ n \in NodeId /\ n # NULL /\ nodes[n] \in NodeType
           /\ nodes[n].parent \in Ref /\ nodes[n].references \in Int
           /\ nodes[n].name \in Name \cup {NULL}
           /\ nodes[n].type \in {"directory", "file"}
<1>1. n \in NodeId /\ nodes[n] # NULL
  BY DEF Live
<1>2. nodes[n] \in NodeType
  BY <1>1 DEF NamesTypes
<1> QED
  BY <1>1, <1>2 DEF NodeType, Ref, NamespaceAssumption

(* The other threads are in the calls they were in.                        *)
LEMMA OnlyCall ==
    ASSUME call \in [Thread -> Call], NEW t \in Thread, NEW d \in Call, Go(t, d)
    PROVE  /\ call' \in [Thread -> Call]
           /\ call'[t] = d
           /\ \A u \in Thread \ {t} : call'[u] = call[u]
BY DEF Go

(* What a call may still know when the tree only grows and the call of t   *)
(* learns nothing of the new nodes of others.                              *)
LEMMA KnownKeeps ==
    ASSUME NamespaceAssumption, NamesTypes, CallsOK,
           NEW t \in Thread, NEW d \in Call, Go(t, d),
           Live \subseteq Live', d.step # "attach", KnowsNodes(t, d)
    PROVE  \A u \in Thread : KnowsNodes(u, call[u])'
<1>1. /\ call'[t] = d
      /\ \A u \in Thread \ {t} : call'[u] = call[u]
  BY OnlyCall DEF NamesTypes
<1>2. ASSUME NEW u \in Thread, NEW x, Known(u, x)
      PROVE  Known(u, x)'
  BY <1>1, <1>2 DEF Known
<1>3. \A u \in Thread : KnowsNodes(u, call'[u])
  BY <1>1 DEF CallsOK
<1> QED
  BY <1>2, <1>3 DEF KnowsNodes

(* What a call has found depends on the call alone.                        *)
LEMMA FoundKeeps ==
    ASSUME NamesTypes, CallsOK, NEW t \in Thread, NEW d \in Call, Go(t, d), Found(t, d)
    PROVE  \A u \in Thread : Found(u, call[u])'
<1>1. /\ call'[t] = d
      /\ \A u \in Thread \ {t} : call'[u] = call[u]
  BY OnlyCall DEF NamesTypes
<1>2. \A u \in Thread : Found(u, call'[u])
  BY <1>1 DEF CallsOK
<1> QED
  BY <1>2 DEF Found

(* The parents that a step of thread t may set.                            *)
NewParents(t) ==
    \A m \in Live :
        \/ nodes'[m].parent \in {NULL, nodes[m].parent}
        \/ /\ Known(t, m) /\ Known(t, nodes'[m].parent)
           /\ t \in Mover \/ (call[t].step = "attach" /\ m = call[t].node)

(* Nodes that are not attached stay so, and a move finds its node in its   *)
(* place, while t attaches its own node or is the one that moves.          *)
LEMMA PlacesKeep ==
    ASSUME NamespaceAssumption, OneMover, NamesTypes, CallsOK,
           NEW t \in Thread, NEW d \in Call, Go(t, d),
           Live' = Live, NewParents(t), d.step # "attach", InPlace(d)'
    PROVE  \A u \in Thread : Unattached(u)' /\ InPlace(call[u])'
<1>1. /\ call'[t] = d
      /\ \A u \in Thread \ {t} : call'[u] = call[u]
  BY OnlyCall DEF NamesTypes
<1>2. ASSUME NEW u \in Thread, call'[u].step = "attach"
      PROVE  /\ call'[u].node # Root
             /\ nodes'[call'[u].node].parent = NULL
             /\ \A m \in Live' : nodes'[m].parent # call'[u].node
  <2>1. u # t /\ call'[u] = call[u]
    BY <1>1, <1>2
  <2>2. DEFINE n == call[u].node
  <2>3. n # NULL /\ Known(u, n)
    BY <1>2, <2>1 DEF CallsOK, Found, KnowsNodes
  <2>4. n \in Live
    BY <2>3 DEF Known
  <2>5. /\ n # Root /\ nodes[n].parent = NULL
        /\ \A m \in Live : nodes[m].parent # n
    BY <1>2, <2>1 DEF CallsOK, Unattached
  <2>6. ~Known(t, n)
    BY <1>2, <2>1, <2>3 DEF Known
  <2> QED
    BY <2>1, <2>3, <2>4, <2>5, <2>6 DEF NewParents
<1>3. ASSUME NEW u \in Thread \ {t}, call[u].step \in {"replace", "rename"}
      PROVE  nodes'[call[u].source].parent \in {call[u].prev, NULL}
  <2>1. u \in Mover /\ call[u].source # NULL /\ Known(u, call[u].source)
    BY <1>3 DEF CallsOK, Found, KnowsNodes, Moving
  <2>2. t \notin Mover
    BY <2>1, <1>3 DEF OneMover
  <2>3. call[u].source \in Live /\ (call[t].step = "attach" => call[u].source # call[t].node)
    BY <2>1 DEF Known
  <2>4. nodes[call[u].source].parent \in {call[u].prev, NULL}
    BY <1>3 DEF CallsOK, InPlace
  <2> QED
    BY <2>2, <2>3, <2>4 DEF NewParents
<1>4. \A u \in Thread : Unattached(u)'
  BY <1>2 DEF Unattached
<1>5. \A u \in Thread \ {t} : InPlace(call[u])'
  BY <1>1, <1>3 DEF InPlace
<1>6. InPlace(call[t])'
  BY <1>1 DEF InPlace
<1> QED
  BY <1>4, <1>5, <1>6

(* The calls are as they should be after a step of t that creates no node. *)
LEMMA CallsKeep ==
    ASSUME NamespaceAssumption, OneMover, NamesTypes, CallsOK,
           NEW t \in Thread, NEW d \in Call, Go(t, d),
           Live' = Live, NewParents(t), d.step # "attach",
           Found(t, d), KnowsNodes(t, d), InPlace(d)'
    PROVE  CallsOK'
<1>1. \A u \in Thread : KnowsNodes(u, call[u])'
  BY KnownKeeps
<1>2. \A u \in Thread : Found(u, call[u])'
  BY FoundKeeps
<1>3. \A u \in Thread : Unattached(u)' /\ InPlace(call[u])'
  BY PlacesKeep
<1> QED
  BY <1>1, <1>2, <1>3 DEF CallsOK

-----------------------------------------------------------------------------
(* The descriptors are as they should be when t neither opens nor closes   *)
(* a file in this step.                                                    *)
LEMMA TableStays ==
    ASSUME NamesTypes, TableOK, NEW t \in Thread, NEW d \in Call, Go(t, d),
           UNCHANGED <<of, files, owner>>, Live \subseteq Live',
           d.op = "open" <=> call[t].op = "open",
           d.op = "open" => d.fd = call[t].fd,
           call[t].step \notin {"delete", "release"}, d.step \notin {"delete", "release"}
    PROVE  TableOK'
<1>1. /\ call'[t] = d
      /\ \A u \in Thread \ {t} : call'[u] = call[u]
  BY OnlyCall DEF NamesTypes
<1>2. \A u \in Thread : HasSlot(u, call[u])'
  BY <1>1, SMT DEF TableOK, HasSlot
<1>3. \A p \in Process, f \in Fd : files[p][f] \notin {NULL, Invalid} => files[p][f].node \in Live'
  BY DEF TableOK
<1>4. SlotsAccounted'
  <2>1. ASSUME NEW p \in Process, NEW f \in Fd, files[p][f] = Invalid
        PROVE  \E u \in Thread : owner[p] = u /\ call'[u].op = "open" /\ call'[u].fd = f
    BY <1>1, <2>1, SMT DEF TableOK, SlotsAccounted
  <2>2. ASSUME NEW p \in Process, NEW f \in Fd, files[p][f] # NULL, files[p][f].freed
        PROVE  \E u \in Thread :
                  of[u] = p /\ call'[u].step \in {"delete", "release"} /\ call'[u].fd = f
    BY <1>1, <2>2, SMT DEF TableOK, SlotsAccounted
  <2>3. Invalid' = Invalid
    BY DEF Invalid
  <2> QED
    BY <2>1, <2>2, <2>3, SMT DEF SlotsAccounted
<1>5. \A v, u \in Thread :
          /\ call'[v].step \in {"delete", "release"}
          /\ call'[u].step \in {"delete", "release"}
          /\ of[v] = of[u] /\ call'[v].fd = call'[u].fd
          => v = u
  BY <1>1 DEF TableOK
<1>6. \A p \in Process : owner[p] # NULL => of[owner[p]] = p
  BY DEF TableOK
<1> QED
  BY <1>2, <1>3, <1>4, <1>5, <1>6 DEF TableOK, Invalid

(* Thread t opens no directory and begins or ends no move in this step.    *)
Quiet(t, d) ==
    /\ call[t].file = NULL /\ d.file = NULL
    /\ call[t].step \in Moving <=> d.step \in Moving
    /\ d.source = call[t].source \/ d.step \notin Moving

(* A step that opens and moves nothing changes no count of a node.         *)
LEMMA QuietCounts ==
    ASSUME NamesTypes, NEW t \in Thread, NEW d \in Call, Go(t, d), Quiet(t, d), NEW n
    PROVE  Openers(n)' = Openers(n) /\ MovesOf(n)' = MovesOf(n)
<1>1. /\ call'[t] = d
      /\ \A u \in Thread \ {t} : call'[u] = call[u]
  BY OnlyCall DEF NamesTypes
<1>2. Openers(n)' = Openers(n)
  BY <1>1 DEF Openers, Quiet
<1>3. MovesOf(n)' = MovesOf(n)
  BY <1>1 DEF MovesOf, Quiet, Moving
<1> QED
  BY <1>2, <1>3

(* The sets that the references of a node count are finite.                *)
LEMMA Finite ==
    ASSUME NamespaceAssumption, NEW n
    PROVE  /\ IsFiniteSet(Holders(n)) /\ IsFiniteSet(Openers(n)) /\ IsFiniteSet(MovesOf(n))
           /\ Cardinality(Holders(n)) \in Nat /\ Cardinality(Openers(n)) \in Nat
           /\ Cardinality(MovesOf(n)) \in Nat
<1>1. IsFiniteSet(Process \X Fd)
  BY FS_Product DEF NamespaceAssumption
<1>2. IsFiniteSet(Holders(n))
  BY <1>1, FS_Subset DEF Holders
<1>3. Openers(n) \subseteq Thread /\ MovesOf(n) \subseteq Thread
  BY DEF Openers, MovesOf
<1>4. IsFiniteSet(Openers(n)) /\ IsFiniteSet(MovesOf(n))
  BY <1>3, FS_Subset DEF NamespaceAssumption
<1> QED
  BY <1>2, <1>4, FS_CardinalityType

(* A step that changes the call of t and nothing else.                     *)
LEMMA CallOnly ==
    ASSUME NamespaceAssumption, OneMover, NamesInv, NEW t \in Thread, NEW d \in Call, Go(t, d),
           UNCHANGED <<of, nodes, childs, lastID, files, owner>>,
           d.step \notin {"attach", "delete", "release"}, call[t].step \notin {"delete", "release"},
           d.op = "open" <=> call[t].op = "open",
           d.op = "open" => d.fd = call[t].fd,
           Quiet(t, d), Found(t, d), KnowsNodes(t, d), InPlace(d)
    PROVE  NamesInv'
<1>1. NamesTypes /\ TreeOK /\ CallsOK /\ TableOK /\ ReferencesExact
  BY DEF NamesInv
<1>2. NamesTypes'
  BY <1>1, OnlyCall DEF NamesTypes
<1>3. Live' = Live
  BY DEF Live
<1>4. TreeOK'
  BY <1>1, <1>3, SMT DEF TreeOK
<1>5. NewParents(t)
  BY DEF NewParents
<1>6. InPlace(d)'
  BY DEF InPlace
<1>7. CallsOK'
  BY <1>1, <1>3, <1>5, <1>6, CallsKeep
<1>8. TableOK'
  BY <1>1, <1>3, TableStays
<1>9. ReferencesExact'
  <2>1. \A n : Openers(n)' = Openers(n) /\ MovesOf(n)' = MovesOf(n)
    BY <1>1, QuietCounts
  <2>2. \A n : Holders(n)' = Holders(n)
    BY DEF Holders, OfNode
  <2>3. \A n : OpenFiles(n)' = OpenFiles(n) /\ Cardinality(MovesOf(n)') = Cardinality(MovesOf(n))
    BY <2>1, <2>2 DEF OpenFiles
  <2> QED
    BY <1>1, <1>3, <2>3 DEF ReferencesExact
<1> QED
  BY <1>2, <1>4, <1>7, <1>8, <1>9 DEF NamesInv

-----------------------------------------------------------------------------
(* Whoever follows entries and parents from the root comes to no node that *)
(* is not attached.                                                        *)
LEMMA KnownPlaces ==
    ASSUME NamespaceAssumption, NamesInv, NEW t \in Thread
    PROVE  /\ Root \in Live /\ Root # NULL /\ Known(t, Root)
           /\ \A n \in Live : Known(t, nodes[n].parent)
           /\ \A d \in NodeId, x \in Name : Known(t, childs[d][x])
<1>1. NamesTypes /\ TreeOK /\ CallsOK
  BY DEF NamesInv
<1>2. Root \in NodeId /\ Root # NULL
  BY SMT DEF NamespaceAssumption, Root, NodeId
<1>3. Root \in Live
  BY <1>1, <1>2, SMT DEF TreeOK, NamesTypes, Root
<1>4. \A u \in Thread : call[u].step = "attach" =>
        call[u].node # Root /\ nodes[call[u].node].parent = NULL
        /\ \A m \in Live : nodes[m].parent # call[u].node
  BY <1>1 DEF CallsOK, Unattached
<1>5. \A n \in Live : Known(t, nodes[n].parent)
  BY <1>1, <1>4, SMT DEF Known, TreeOK
<1>6. ASSUME NEW d \in NodeId, NEW x \in Name, childs[d][x] # NULL
      PROVE  Known(t, childs[d][x])
  <2>1. d \in Live /\ childs[d][x] \in Live
    BY <1>1, <1>6 DEF TreeOK
  <2>2. nodes[childs[d][x]].parent = d
    BY <1>1, <2>1 DEF TreeOK
  <2>3. d # NULL
    BY <1>1, <2>1, LiveIsNode
  <2> QED
    BY <1>4, <2>1, <2>2, <2>3 DEF Known
<1>7. \A d \in NodeId, x \in Name : Known(t, childs[d][x])
  BY <1>6 DEF Known
<1> QED
  BY <1>2, <1>3, <1>4, <1>5, <1>7 DEF Known

(* What there is to know of the call of a thread.                          *)
LEMMA CallOf ==
    ASSUME NamespaceAssumption, NamesInv, NEW t \in Thread
    PROVE  /\ call[t] \in Call /\ Found(t, call[t]) /\ KnowsNodes(t, call[t])
           /\ InPlace(call[t]) /\ HasSlot(t, call[t])
           /\ \A x \in {call[t].node, call[t].prev, call[t].source, call[t].target} :
                 x # NULL => x \in Live /\ x \in NodeId /\ nodes[x] \in NodeType
<1>1. NamesTypes /\ CallsOK /\ TableOK
  BY DEF NamesInv
<1>2. call[t] \in Call
  BY <1>1 DEF NamesTypes
<1>3. Found(t, call[t]) /\ KnowsNodes(t, call[t]) /\ InPlace(call[t]) /\ HasSlot(t, call[t])
  BY <1>1 DEF CallsOK, TableOK
<1>4. \A x \in {call[t].node, call[t].prev, call[t].source, call[t].target} :
         x # NULL => x \in Live
  BY <1>3, SMT DEF KnowsNodes, Known
<1> QED
  BY <1>1, <1>2, <1>3, <1>4, LiveIsNode

(* A path that is resolved has a last element, and the parent it was       *)
(* resolved to is known.                                                   *)
LEMMA ResolvedParent ==
    ASSUME NamespaceAssumption, NamesInv, NEW t \in Thread,
           call[t].step \in {"walk", "parent"}, WalkOver(call[t])
    PROVE  /\ call[t].prev # NULL /\ call[t].name \in Name
           /\ Known(t, Parent(call[t])) /\ Parent(call[t]) \in Ref
<1>1. Found(t, call[t]) /\ call[t] \in Call /\ KnowsNodes(t, call[t])
  BY CallOf
<1>2. Root # NULL
  BY KnownPlaces
<1>3. call[t].prev # NULL /\ call[t].name \in Name
  BY <1>1, <1>2 DEF Found, WalkOver
<1>4. call[t].prev \in Live
  BY <1>3, CallOf
<1>5. Known(t, nodes[call[t].prev].parent) /\ Known(t, call[t].prev) /\ Known(t, NULL)
  BY <1>1, <1>4, KnownPlaces DEF Known, KnowsNodes
<1>6. nodes[call[t].prev].parent \in Ref /\ call[t].prev \in Ref /\ NULL \in Ref
  BY <1>4, LiveIsNode DEF Ref, NamesInv
<1> QED
  BY <1>3, <1>5, <1>6 DEF Parent

(* vfs_pathNextElement(): the walk goes on with a node it may know.        *)
LEMMA PathNextKeeps ==
    ASSUME NamespaceAssumption, OneMover, NamesInv, NEW t \in Thread, PathNextElement(t)
    PROVE  NamesInv'
<1> DEFINE c == call[t]
<1>1. PICK d : d = [c EXCEPT !.rest = Tail(c.rest), !.name = Head(c.rest), !.prev = c.node,
                             !.node = NextNode(c.node, Head(c.rest))]
  OBVIOUS
<1>2. /\ c.step \in {"walk", "parent"} /\ c.rest # <<>> /\ c.node # NULL
      /\ Go(t, d) /\ UNCHANGED <<of, nodes, childs, lastID, files, owner>>
  BY <1>1 DEF PathNextElement, tree, table
<1>3. c \in Call /\ Found(t, c) /\ KnowsNodes(t, c) /\ c.node \in Live /\ c.node \in NodeId
  BY <1>2, CallOf
<1>4. c.rest \in Seq(Name)
  BY <1>3 DEF Call
<1>5. Head(c.rest) \in Name /\ Tail(c.rest) \in Seq(Name)
  BY <1>2, <1>4, SMT
<1>6. Known(t, NULL) /\ NULL \in Ref
  BY DEF Known, Ref
<1>7. Known(t, NextNode(c.node, Head(c.rest)))
  BY <1>3, <1>5, <1>6, KnownPlaces DEF NextNode, AccessNode
<1>8. NextNode(c.node, Head(c.rest)) \in Ref
  BY <1>7 DEF Known, Live, Ref
<1>9. d \in Call
  BY <1>1, <1>3, <1>5, <1>8 DEF Call, Ref
<1>10. /\ d.step = c.step /\ d.op = c.op /\ d.fd = c.fd /\ d.file = c.file /\ d.dest = c.dest
       /\ d.source = c.source /\ d.target = c.target /\ d.prev = c.node
       /\ d.name \in Name /\ d.node = NextNode(c.node, Head(c.rest))
  BY <1>1, <1>3, <1>5 DEF Call
<1>11. Found(t, d)
  BY <1>2, <1>3, <1>10 DEF Found, Moving
<1>12. Quiet(t, d)
  BY <1>2, <1>3, <1>10 DEF Quiet, Moving, Found
<1>13. KnowsNodes(t, d) /\ InPlace(d)
  BY <1>2, <1>3, <1>7, <1>10 DEF KnowsNodes, InPlace
<1> QED
  BY <1>2, <1>9, <1>10, <1>11, <1>12, <1>13, CallOnly

(* A thread that is in no call.                                            *)
LEMMA IdleFits ==
    ASSUME NamespaceAssumption, NEW t \in Thread
    PROVE  /\ Idle \in Call /\ Found(t, Idle) /\ KnowsNodes(t, Idle) /\ InPlace(Idle)
           /\ Idle.step = "idle" /\ Idle.op = "none" /\ Idle.file = NULL
           /\ Idle.source = NULL /\ Idle.target = NULL /\ Idle.fd = NULL
<1>1. Idle \in Call
  <2>1. <<>> \in Seq(Name)
    BY SMT
  <2> QED
    BY <2>1 DEF Idle, Call, Ref
<1>2. /\ Idle.step = "idle" /\ Idle.op = "none" /\ Idle.file = NULL /\ Idle.node = NULL
      /\ Idle.source = NULL /\ Idle.target = NULL /\ Idle.fd = NULL /\ Idle.prev = NULL
  BY DEF Idle
<1> QED
  BY <1>1, <1>2 DEF Found, KnowsNodes, Known, InPlace, Moving

(* A call that begins to resolve a path.                                   *)
LEMMA WalkFits ==
    ASSUME NamespaceAssumption, NamesInv, NEW t \in Thread, NEW c \in Call, NEW path \in Path,
           c.file = NULL, c.op = "move" => t \in Mover,
           c.op \in {"open", "move"} => c.dest \in Path,
           Known(t, c.source), Known(t, c.target),
           NEW d, d = Walk(c, path) \/ d = ResolveParent(c, path)
    PROVE  /\ d \in Call /\ d.step \in {"walk", "parent"}
           /\ d.op = c.op /\ d.fd = c.fd /\ d.file = NULL /\ d.source = c.source
           /\ Found(t, d) /\ KnowsNodes(t, d) /\ InPlace(d)
<1>1. path \in Seq(Name) /\ path # <<>>
  BY DEF NamespaceAssumption
<1>2. Root \in Ref /\ NULL \in Ref /\ Known(t, Root) /\ Known(t, NULL)
  BY KnownPlaces DEF Ref, Live, Known
<1>3. d \in Call
  <2>1. PICK w : w = Walk(c, path)
    OBVIOUS
  <2>2. w \in Call
    BY <1>1, <1>2, <2>1, ZenonT(60) DEF Walk, Call
  <2>3. [w EXCEPT !.step = "parent"] \in Call
    BY <2>2, SMT DEF Call
  <2> QED
    BY <2>1, <2>2, <2>3 DEF ResolveParent
<1>4. /\ d.step \in {"walk", "parent"} /\ d.op = c.op /\ d.fd = c.fd /\ d.file = NULL
      /\ d.source = c.source /\ d.target = c.target
      /\ d.prev = NULL /\ d.node = Root /\ d.rest = path /\ d.dest = c.dest
  BY DEF Walk, ResolveParent, Call
<1>5. Found(t, d)
  BY <1>1, <1>4 DEF Found, Moving
<1> QED
  BY <1>2, <1>3, <1>4, <1>5 DEF KnowsNodes, InPlace

(* A step that neither changes the tree, the table nor a call.             *)
LEMMA NamesStutter ==
    ASSUME NamesInv, UNCHANGED <<of, nodes, childs, lastID, files, owner, call>>
    PROVE  NamesInv'
<1>1. NamesTypes'
  BY DEF NamesInv, NamesTypes
<1>2. Live' = Live
  BY DEF Live
<1>3. TreeOK'
  BY <1>2, SMT DEF NamesInv, TreeOK
<1>4. CallsOK'
  BY <1>2, SMT DEF NamesInv, CallsOK, Found, KnowsNodes, Known, Unattached, InPlace
<1>5. TableOK'
  <2>1. Invalid' = Invalid
    BY DEF Invalid
  <2>2. SlotsAccounted'
    BY <2>1, SMT DEF NamesInv, TableOK, SlotsAccounted
  <2> QED
    BY <1>2, <2>1, <2>2 DEF NamesInv, TableOK, HasSlot
<1>6. ReferencesExact'
  BY <1>2 DEF NamesInv, ReferencesExact, OpenFiles, Holders, OfNode, Openers, MovesOf
<1> QED
  BY <1>1, <1>3, <1>4, <1>5, <1>6 DEF NamesInv

(* The calls that begin by resolving a path.                               *)
LEMMA BeginKeeps ==
    ASSUME NamespaceAssumption, OneMover, NamesInv, NEW t \in Thread,
           Mkdir(t) \/ RemoveOrStat(t) \/ Move(t)
    PROVE  NamesInv'
<1>1. PICK b \in Call, path \in Path :
        /\ call[t] = Idle
        /\ b.file = NULL /\ b.op # "open" /\ (b.op = "move" => t \in Mover /\ b.dest \in Path)
        /\ b.source = NULL /\ b.target = NULL
        /\ Go(t, Walk(b, path)) \/ Go(t, ResolveParent(b, path))
        /\ UNCHANGED <<of, nodes, childs, lastID, files, owner>>
  <2>0. Idle \in Call
    BY IdleFits
  <2>1. ASSUME Mkdir(t)
        PROVE  \E b \in Call, path \in Path :
                 /\ call[t] = Idle
                 /\ b.file = NULL /\ b.op # "open" /\ (b.op = "move" => t \in Mover /\ b.dest \in Path)
                 /\ b.source = NULL /\ b.target = NULL
                 /\ Go(t, Walk(b, path)) \/ Go(t, ResolveParent(b, path))
                 /\ UNCHANGED <<of, nodes, childs, lastID, files, owner>>
    <3>1. PICK b : b = [Idle EXCEPT !.op = "mkdir"]
      OBVIOUS
    <3>2. b \in Call /\ b.file = NULL /\ b.op = "mkdir" /\ b.source = NULL /\ b.target = NULL
      BY <2>0, <3>1 DEF Call, Idle
    <3> QED
      BY <2>1, <3>1, <3>2 DEF Mkdir, Begin, tree, table
  <2>2. ASSUME RemoveOrStat(t)
        PROVE  \E b \in Call, path \in Path :
                 /\ call[t] = Idle
                 /\ b.file = NULL /\ b.op # "open" /\ (b.op = "move" => t \in Mover /\ b.dest \in Path)
                 /\ b.source = NULL /\ b.target = NULL
                 /\ Go(t, Walk(b, path)) \/ Go(t, ResolveParent(b, path))
                 /\ UNCHANGED <<of, nodes, childs, lastID, files, owner>>
    <3>1. PICK op \in {"remove", "stat"}, path \in Path :
            Go(t, Walk([Idle EXCEPT !.op = op], path))
      BY <2>2 DEF RemoveOrStat
    <3>2. PICK b : b = [Idle EXCEPT !.op = op]
      OBVIOUS
    <3>3. b \in Call /\ b.file = NULL /\ b.op = op /\ b.source = NULL /\ b.target = NULL
      BY <2>0, <3>2 DEF Call, Idle
    <3> QED
      BY <2>2, <3>1, <3>2, <3>3 DEF RemoveOrStat, Begin, tree, table
  <2>3. ASSUME Move(t)
        PROVE  \E b \in Call, path \in Path :
                 /\ call[t] = Idle
                 /\ b.file = NULL /\ b.op # "open" /\ (b.op = "move" => t \in Mover /\ b.dest \in Path)
                 /\ b.source = NULL /\ b.target = NULL
                 /\ Go(t, Walk(b, path)) \/ Go(t, ResolveParent(b, path))
                 /\ UNCHANGED <<of, nodes, childs, lastID, files, owner>>
    <3>1. PICK path \in Path, dest \in Path :
            Go(t, Walk([Idle EXCEPT !.op = "move", !.dest = dest], path))
      BY <2>3 DEF Move
    <3>2. PICK b : b = [Idle EXCEPT !.op = "move", !.dest = dest]
      OBVIOUS
    <3>3. /\ b \in Call /\ b.file = NULL /\ b.op = "move" /\ b.source = NULL /\ b.target = NULL
          /\ b.dest = dest
      BY <2>0, <3>2 DEF Call, Idle
    <3> QED
      BY <2>3, <3>1, <3>2, <3>3 DEF Move, Begin, tree, table
  <2> QED
    BY <2>1, <2>2, <2>3
<1>0. PICK d : /\ d = Walk(b, path) \/ d = ResolveParent(b, path)
               /\ Go(t, d)
  BY <1>1
<1>2. Known(t, b.source) /\ Known(t, b.target)
  BY <1>1 DEF Known
<1>3. /\ d \in Call /\ d.step \in {"walk", "parent"}
      /\ d.op = b.op /\ d.file = NULL
      /\ Found(t, d) /\ KnowsNodes(t, d) /\ InPlace(d)
  BY <1>1, <1>0, <1>2, WalkFits, SMT
<1>4. call[t].step = "idle" /\ call[t].op = "none" /\ call[t].file = NULL
  BY <1>1, IdleFits
<1>5. Quiet(t, d)
  BY <1>3, <1>4 DEF Quiet, Moving
<1> QED
  BY <1>1, <1>0, <1>3, <1>4, <1>5, CallOnly

(* The calls that go on when a path is resolved: vfs_mkdir(), vfs_stat(),  *)
(* vfs_remove() and vfs_move().                                            *)
LEMMA ParentOfKeeps ==
    ASSUME NamespaceAssumption, OneMover, NamesInv, NEW t \in Thread,
           MkdirResolved(t) \/ OpenParent(t)
    PROVE  NamesInv'
<1> DEFINE c == call[t]
<1>1. CASE UNCHANGED <<of, nodes, childs, lastID, files, owner, call>>
  BY <1>1, NamesStutter
<1>2. CASE ~UNCHANGED <<of, nodes, childs, lastID, files, owner, call>>
  <2>1. c.op \in {"mkdir", "open"} /\ c.step = "parent" /\ WalkOver(c)
    BY DEF MkdirResolved, OpenParent
  <2>2. /\ c \in Call /\ Found(t, c) /\ KnowsNodes(t, c)
        /\ c.prev # NULL /\ c.name \in Name /\ Known(t, Parent(c)) /\ Parent(c) \in Ref
    BY <2>1, CallOf, ResolvedParent
  <2>3. PICK d : d = [c EXCEPT !.step = "create", !.target = Parent(c)]
    OBVIOUS
  <2>4. /\ UNCHANGED <<of, nodes, childs, lastID, files, owner>>
        /\ (c.op = "mkdir" /\ Go(t, Idle)) \/ (Parent(c) # NULL /\ Go(t, d))
    BY <1>2, <2>3 DEF MkdirResolved, OpenParent, Fault, Return, tree, table
  <2>5. CASE c.op = "mkdir" /\ Go(t, Idle)
    <3>1. Quiet(t, Idle)
      BY <2>1, <2>2, IdleFits DEF Quiet, Moving, Found
    <3> QED
      BY <2>1, <2>4, <2>5, <3>1, IdleFits, CallOnly
  <2>6. CASE Parent(c) # NULL /\ Go(t, d)
    <3>1. d \in Call
      BY <2>2, <2>3 DEF Call
    <3>2. /\ d.step = "create" /\ d.op = c.op /\ d.fd = c.fd /\ d.file = c.file /\ d.dest = c.dest
          /\ d.source = c.source /\ d.target = Parent(c) /\ d.prev = c.prev
          /\ d.name = c.name /\ d.node = c.node
      BY <2>2, <2>3 DEF Call
    <3>3. Found(t, d)
      BY <2>1, <2>2, <2>6, <3>2 DEF Found, Moving
    <3>4. Quiet(t, d)
      BY <2>1, <2>2, <3>2 DEF Quiet, Moving, Found
    <3>5. KnowsNodes(t, d) /\ InPlace(d)
      BY <2>2, <3>2 DEF KnowsNodes, InPlace
    <3> QED
      BY <2>1, <2>4, <2>6, <3>1, <3>2, <3>3, <3>4, <3>5, CallOnly
  <2> QED
    BY <2>4, <2>5, <2>6
<1> QED
  BY <1>1, <1>2

(* The end of the walk of vfs_remove() and vfs_stat().                     *)
LEMMA RemoveOrStatKeeps ==
    ASSUME NamespaceAssumption, OneMover, NamesInv, NEW t \in Thread,
           RemoveResolved(t) \/ Stat(t)
    PROVE  NamesInv'
<1> DEFINE c == call[t]
<1>1. CASE UNCHANGED <<of, nodes, childs, lastID, files, owner, call>>
  BY <1>1, NamesStutter
<1>2. CASE ~UNCHANGED <<of, nodes, childs, lastID, files, owner, call>>
  <2>1. c.op \in {"remove", "stat"} /\ c.step = "walk"
    BY DEF RemoveResolved, Stat
  <2>2. /\ c \in Call /\ Found(t, c) /\ KnowsNodes(t, c)
    BY CallOf
  <2>3. PICK d : d = [c EXCEPT !.step = "remove", !.target = nodes[c.node].parent]
    OBVIOUS
  <2>4. /\ UNCHANGED <<of, nodes, childs, lastID, files, owner>>
        /\ \/ Go(t, Idle)
           \/ /\ c.op = "remove" /\ c.node # NULL /\ nodes[c.node].parent # NULL
              /\ Go(t, d)
    BY <1>2, <2>3 DEF RemoveResolved, Stat, Fault, Return, tree, table
  <2>5. CASE Go(t, Idle)
    <3>1. c.step \notin Moving /\ c.file = NULL /\ c.step \notin {"delete", "release"}
      BY <2>1, <2>2 DEF Found, Moving
    <3>2. Quiet(t, Idle)
      BY <3>1, IdleFits DEF Quiet, Moving
    <3> QED
      BY <2>1, <2>4, <2>5, <3>1, <3>2, IdleFits, CallOnly
  <2>6. CASE c.op = "remove" /\ c.node # NULL /\ nodes[c.node].parent # NULL /\ Go(t, d)
    <3>0. /\ Known(t, nodes[c.node].parent)
          /\ nodes[c.node].parent \in Ref
      BY <2>6, CallOf, KnownPlaces, LiveIsNode DEF NamesInv
    <3>1. d \in Call
      BY <2>2, <2>3, <3>0 DEF Call
    <3>2. /\ d.step = "remove" /\ d.op = c.op /\ d.fd = c.fd /\ d.file = c.file /\ d.dest = c.dest
          /\ d.source = c.source /\ d.target = nodes[c.node].parent /\ d.prev = c.prev
          /\ d.name = c.name /\ d.node = c.node
      BY <2>2, <2>3 DEF Call
    <3>3. Found(t, d)
      BY <2>1, <2>2, <2>6, <3>2 DEF Found, Moving
    <3>4. Quiet(t, d)
      BY <2>1, <2>2, <2>6, <3>2 DEF Quiet, Moving, Found
    <3>5. KnowsNodes(t, d) /\ InPlace(d)
      BY <2>2, <3>0, <3>2 DEF KnowsNodes, InPlace
    <3> QED
      BY <2>1, <2>4, <2>6, <3>1, <3>2, <3>3, <3>4, <3>5, CallOnly
  <2> QED
    BY <2>4, <2>5, <2>6
<1> QED
  BY <1>1, <1>2

(* The ends of the two walks of vfs_move().                                *)
LEMMA MoveResolvedKeeps ==
    ASSUME NamespaceAssumption, OneMover, NamesInv, NEW t \in Thread, MoveResolved(t)
    PROVE  NamesInv'
<1> DEFINE c == call[t]
<1>1. /\ c.op = "move" /\ c.step \in {"walk", "parent"} /\ WalkOver(c)
      /\ UNCHANGED <<of, nodes, childs, lastID, files, owner>>
  BY DEF MoveResolved, tree, table
<1>2. /\ c \in Call /\ Found(t, c) /\ KnowsNodes(t, c)
      /\ c.prev # NULL /\ c.name \in Name /\ Known(t, Parent(c)) /\ Parent(c) \in Ref
  BY <1>1, CallOf, ResolvedParent
<1>3. t \in Mover /\ c.file = NULL /\ c.step \notin Moving \cup {"delete", "release"} /\ c.dest \in Path
  BY <1>1, <1>2 DEF Found, Call, Moving
<1>4. PICK b : b = [c EXCEPT !.source = c.node]
  OBVIOUS
<1>5. /\ b \in Call /\ b.op = "move" /\ b.file = NULL /\ b.source = c.node
      /\ b.target = c.target /\ b.dest = c.dest
  BY <1>1, <1>2, <1>3, <1>4, SMT DEF Call
<1>6. PICK d : d = [c EXCEPT !.step = "retain", !.target = c.node, !.name = NULL]
  OBVIOUS
<1>7. PICK e : e = [c EXCEPT !.step = "retain", !.target = Parent(c)]
  OBVIOUS
<1>8. \/ Go(t, Idle)
      \/ c.node # NULL /\ Go(t, Walk(b, c.dest))
      \/ Go(t, ResolveParent(c, c.dest))
      \/ c.source # NULL /\ c.node # NULL /\ Go(t, d)
      \/ c.source # NULL /\ Parent(c) # NULL /\ Go(t, e)
  BY <1>4, <1>6, <1>7 DEF MoveResolved
<1>9. CASE Go(t, Idle)
  <2>1. Quiet(t, Idle)
    BY <1>3, IdleFits DEF Quiet, Moving
  <2> QED
    BY <1>1, <1>3, <1>9, <2>1, IdleFits, CallOnly
<1>10. ASSUME NEW w \in Call, w = b \/ w = c, NEW x, x = Walk(w, c.dest) \/ x = ResolveParent(w, c.dest),
              Go(t, x)
       PROVE  NamesInv'
  <2>2. w.file = NULL /\ w.dest \in Path /\ w.op = "move" /\ Known(t, w.source) /\ Known(t, w.target)
    BY <1>1, <1>2, <1>3, <1>5, <1>10 DEF KnowsNodes
  <2>3. /\ x \in Call /\ x.step \in {"walk", "parent"} /\ x.op = "move" /\ x.file = NULL
        /\ Found(t, x) /\ KnowsNodes(t, x) /\ InPlace(x)
    BY <1>3, <1>10, <2>2, WalkFits, SMT
  <2>4. Quiet(t, x)
    BY <1>3, <2>3 DEF Quiet, Moving
  <2> QED
    BY <1>1, <1>3, <1>10, <2>3, <2>4, CallOnly
<1>11. ASSUME NEW x, x = d \/ x = e, x.target # NULL, c.source # NULL, Go(t, x)
       PROVE  NamesInv'
  <2>1. x \in Call
    BY <1>2, <1>6, <1>7, <1>11, ZenonT(60) DEF Call
  <2>2. /\ x.step = "retain" /\ x.op = "move" /\ x.file = NULL /\ x.source = c.source
        /\ x.node = c.node /\ x.prev = c.prev /\ x.dest = c.dest /\ x.target \in {c.node, Parent(c)}
    <3>1. CASE x = d
      BY <1>1, <1>2, <1>3, <1>6, <3>1 DEF Call
    <3>2. CASE x = e
      BY <1>1, <1>2, <1>3, <1>7, <3>2 DEF Call
    <3> QED
      BY <1>11, <3>1, <3>2
  <2>3. Found(t, x)
    BY <1>3, <1>11, <2>2 DEF Found, Moving
  <2>4. Quiet(t, x)
    BY <1>3, <2>2 DEF Quiet, Moving
  <2>5. KnowsNodes(t, x) /\ InPlace(x)
    BY <1>2, <2>2 DEF KnowsNodes, InPlace
  <2> QED
    BY <1>1, <1>3, <1>11, <2>1, <2>2, <2>3, <2>4, <2>5, CallOnly
<1>12. (c.node # NULL => d.target # NULL) /\ (Parent(c) # NULL => e.target # NULL)
  BY <1>2, <1>6, <1>7 DEF Call
<1> QED
  BY <1>2, <1>5, <1>8, <1>9, <1>10, <1>11, <1>12

-----------------------------------------------------------------------------
(* One slot of one process changes.                                        *)
LEMMA OneSlot ==
    ASSUME files \in [Process -> [Fd -> FileType \cup {NULL}]],
           NEW p \in Process, NEW f \in Fd, NEW g \in FileType \cup {NULL},
           files' = [files EXCEPT ![p][f] = g]
    PROVE  /\ files' \in [Process -> [Fd -> FileType \cup {NULL}]]
           /\ files'[p][f] = g
           /\ \A q \in Process, h \in Fd : <<q, h>> # <<p, f>> => files'[q][h] = files[q][h]
OBVIOUS

(* kSDInvalidFile is no file.                                              *)
LEMMA InvalidIsNone ==
    ASSUME NamespaceAssumption
    PROVE  Invalid \in FileType /\ Invalid # NULL /\ ~Invalid.freed /\ Invalid.node = NULL
<1>1. Invalid \in FileType
  BY SMT DEF Invalid, FileType
<1> QED
  BY <1>1 DEF Invalid, NamespaceAssumption

(* vfs_open() reserves a slot and locks the process.                       *)
LEMMA OpenTable ==
    ASSUME NamespaceAssumption, NamesTypes, TableOK, NEW t \in Thread, NEW d \in Call,
           Go(t, d), NEW f \in Fd, files[of[t]][f] = NULL, owner[of[t]] = NULL,
           call[t].step = "idle", d.op = "open", d.fd = f, d.step \notin {"delete", "release"},
           files' = [files EXCEPT ![of[t]][f] = Invalid],
           owner' = [owner EXCEPT ![of[t]] = t],
           UNCHANGED of, Live' = Live
    PROVE  TableOK'
<1>1. /\ call'[t] = d
      /\ \A u \in Thread \ {t} : call'[u] = call[u]
  BY OnlyCall DEF NamesTypes
<1>2. of[t] \in Process
  BY DEF NamesTypes
<1>3. /\ files'[of[t]][f] = Invalid
      /\ \A q \in Process, h \in Fd : <<q, h>> # <<of[t], f>> => files'[q][h] = files[q][h]
  BY <1>2, OneSlot, InvalidIsNone, SMT DEF NamesTypes
<1>4. owner'[of[t]] = t /\ \A q \in Process \ {of[t]} : owner'[q] = owner[q]
  BY <1>2 DEF NamesTypes
<1>5. t # NULL
  BY DEF NamespaceAssumption
<1>6. \A u \in Thread : HasSlot(u, call[u])'
  <2> SUFFICES ASSUME NEW u \in Thread PROVE HasSlot(u, call[u])'
    OBVIOUS
  <2>1. HasSlot(u, call[u]) /\ of[u] \in Process /\ u # NULL
    BY DEF TableOK, NamesTypes, NamespaceAssumption
  <2>2. CASE u = t
    BY <1>1, <1>3, <1>4, <2>2 DEF HasSlot, Invalid
  <2>3. CASE u # t
    <3>1. Invalid' = Invalid
      BY DEF Invalid
    <3>2. call[u].op = "open" => of[u] # of[t]
      BY <2>1 DEF HasSlot
    <3> QED
      BY <1>1, <1>3, <1>4, <2>1, <2>3, <3>1, <3>2, SMT DEF HasSlot
  <2> QED
    BY <2>2, <2>3
<1>7. \A v, u \in Thread :
          /\ call'[v].step \in {"delete", "release"}
          /\ call'[u].step \in {"delete", "release"}
          /\ of[v] = of[u] /\ call'[v].fd = call'[u].fd
          => v = u
  BY <1>1, SMT DEF TableOK
<1>8. \A p \in Process : owner'[p] # NULL => of[owner'[p]] = p
  BY <1>4, SMT DEF TableOK
<1>9. \A p \in Process, h \in Fd :
          files'[p][h] \notin {NULL, Invalid} => files'[p][h].node \in Live
  BY <1>3 DEF TableOK
<1>10. SlotsAccounted'
  <2>1. ASSUME NEW p \in Process, NEW h \in Fd, files'[p][h] = Invalid
        PROVE  \E u \in Thread : owner'[p] = u /\ call'[u].op = "open" /\ call'[u].fd = h
    <3>1. CASE p = of[t] /\ h = f
      BY <1>1, <1>4, <3>1
    <3>2. CASE <<p, h>> # <<of[t], f>>
      <4>1. PICK u \in Thread : owner[p] = u /\ call[u].op = "open" /\ call[u].fd = h
        BY <1>3, <2>1, <3>2, SMT DEF TableOK, SlotsAccounted
      <4>2. p # of[t] /\ u # t
        BY <4>1, <1>5, <1>4, SMT DEF TableOK, NamespaceAssumption
      <4> QED
        BY <1>1, <1>4, <4>1, <4>2
    <3> QED
      BY <3>1, <3>2
  <2>2. ASSUME NEW p \in Process, NEW h \in Fd, files'[p][h] # NULL, files'[p][h].freed
        PROVE  \E u \in Thread :
                  of[u] = p /\ call'[u].step \in {"delete", "release"} /\ call'[u].fd = h
    <3>1. files'[p][h] = files[p][h]
      BY <1>3, <2>2, InvalidIsNone
    <3>2. PICK u \in Thread : of[u] = p /\ call[u].step \in {"delete", "release"} /\ call[u].fd = h
      BY <2>2, <3>1, SMT DEF TableOK, SlotsAccounted
    <3> QED
      BY <1>1, <3>2
  <2>3. Invalid' = Invalid
    BY DEF Invalid
  <2> QED
    BY <2>1, <2>2, <2>3, SMT DEF SlotsAccounted
<1>11. Invalid' = Invalid
  BY DEF Invalid
<1> QED
  BY <1>6, <1>7, <1>8, <1>9, <1>10, <1>11 DEF TableOK

(* vfs_open() fills or frees the slot it reserved.                         *)
LEMMA LeaveTable ==
    ASSUME NamespaceAssumption, NamesTypes, TableOK, NEW t \in Thread,
           call[t].op = "open", call[t].step \notin {"delete", "release"},
           NEW g \in FileType \cup {NULL}, LeaveOpen(t, g),
           g # NULL => g.node \in Live /\ ~g.freed,
           UNCHANGED of, Live' = Live
    PROVE  TableOK'
<1> DEFINE f == call[t].fd
<1>1. /\ call'[t] = Idle
      /\ \A u \in Thread \ {t} : call'[u] = call[u]
  BY OnlyCall, IdleFits DEF NamesTypes, LeaveOpen, Return
<1>2. /\ of[t] \in Process /\ f \in Fd
      /\ files[of[t]][f] = Invalid /\ owner[of[t]] = t
  BY DEF NamesTypes, TableOK, HasSlot
<1>3. /\ files'[of[t]][f] = g
      /\ \A q \in Process, h \in Fd : <<q, h>> # <<of[t], f>> => files'[q][h] = files[q][h]
  BY <1>2, OneSlot, SMT DEF NamesTypes, LeaveOpen
<1>4. owner'[of[t]] = NULL /\ \A q \in Process \ {of[t]} : owner'[q] = owner[q]
  BY <1>2 DEF NamesTypes, LeaveOpen
<1>5. t # NULL /\ Invalid # NULL /\ ~Invalid.freed /\ g # Invalid /\ Invalid' = Invalid
  <2>1. NULL \notin Live
    BY LiveIsNode
  <2> QED
    BY <2>1, InvalidIsNone DEF NamespaceAssumption, Invalid
<1>6. \A u \in Thread : HasSlot(u, call[u])'
  <2> SUFFICES ASSUME NEW u \in Thread PROVE HasSlot(u, call[u])'
    OBVIOUS
  <2>1. HasSlot(u, call[u]) /\ of[u] \in Process /\ u # NULL
    BY DEF TableOK, NamesTypes, NamespaceAssumption
  <2>2. CASE u = t
    BY <1>1, <2>2, IdleFits DEF HasSlot
  <2>3. CASE u # t
    <3>2. call[u].op = "open" => of[u] # of[t]
      BY <1>2, <2>1, <2>3 DEF HasSlot
    <3>3. call[u].step \in {"delete", "release"} => <<of[u], call[u].fd>> # <<of[t], f>>
      BY <1>2, <1>5, <2>1 DEF HasSlot
    <3>4. call[u].step \in {"delete", "release"} =>
             call[u].fd \in Fd /\ files'[of[u]][call[u].fd] = files[of[u]][call[u].fd]
      BY <1>3, <2>1, <3>3 DEF HasSlot
    <3>5. call[u].op = "open" =>
             /\ call[u].fd \in Fd /\ files'[of[u]][call[u].fd] = Invalid
             /\ owner'[of[u]] = u
      BY <1>3, <1>4, <2>1, <3>2, SMT DEF HasSlot
    <3> QED
      BY <1>1, <1>5, <2>1, <2>3, <3>4, <3>5 DEF HasSlot
  <2> QED
    BY <2>2, <2>3
<1>7. \A v, u \in Thread :
          /\ call'[v].step \in {"delete", "release"}
          /\ call'[u].step \in {"delete", "release"}
          /\ of[v] = of[u] /\ call'[v].fd = call'[u].fd
          => v = u
  BY <1>1, IdleFits, SMT DEF TableOK
<1>8. \A p \in Process : owner'[p] # NULL => of[owner'[p]] = p
  BY <1>4 DEF TableOK
<1>9. \A p \in Process, h \in Fd :
          files'[p][h] \notin {NULL, Invalid} => files'[p][h].node \in Live
  BY <1>3 DEF TableOK
<1>10. SlotsAccounted'
  <2>1. ASSUME NEW p \in Process, NEW h \in Fd, files'[p][h] = Invalid
        PROVE  \E u \in Thread : owner'[p] = u /\ call'[u].op = "open" /\ call'[u].fd = h
    <3>1. <<p, h>> # <<of[t], f>> /\ files[p][h] = Invalid
      BY <1>3, <1>5, <2>1
    <3>2. PICK u \in Thread : owner[p] = u /\ call[u].op = "open" /\ call[u].fd = h
      BY <3>1, SMT DEF TableOK, SlotsAccounted
    <3>3. u # NULL /\ of[u] = p
      BY <3>2 DEF TableOK, NamespaceAssumption
    <3>4. u # t
      BY <3>1, <3>2, <3>3
    <3>5. p # of[t]
      BY <1>2, <3>2, <3>4
    <3> QED
      BY <1>1, <1>4, <3>2, <3>4, <3>5
  <2>2. ASSUME NEW p \in Process, NEW h \in Fd, files'[p][h] # NULL, files'[p][h].freed
        PROVE  \E u \in Thread :
                  of[u] = p /\ call'[u].step \in {"delete", "release"} /\ call'[u].fd = h
    <3>1. files'[p][h] = files[p][h]
      BY <1>3, <2>2
    <3>2. PICK u \in Thread : of[u] = p /\ call[u].step \in {"delete", "release"} /\ call[u].fd = h
      BY <2>2, <3>1, SMT DEF TableOK, SlotsAccounted
    <3> QED
      BY <1>1, <3>2
  <2> QED
    BY <1>5, <2>1, <2>2, SMT DEF SlotsAccounted
<1> QED
  BY <1>5, <1>6, <1>7, <1>8, <1>9, <1>10 DEF TableOK

(* vfs_close() frees the file of a slot, vfs_readDir() moves its offset.   *)
LEMMA FileTable ==
    ASSUME NamespaceAssumption, NamesTypes, TableOK, NEW t \in Thread, NEW d \in Call,
           Go(t, d), call[t] = Idle, d.op # "open",
           NEW f \in Fd, files[of[t]][f] \notin {NULL, Invalid}, ~files[of[t]][f].freed,
           NEW g \in FileType, g.node = files[of[t]][f].node,
           g.freed <=> d.step \in {"delete", "release"},
           d.step \in {"delete", "release"} => d.fd = f,
           d.step = "delete" => d.file.node = g.node,
           files' = [files EXCEPT ![of[t]][f] = g],
           UNCHANGED <<of, owner>>, Live' = Live
    PROVE  TableOK'
<1>1. /\ call'[t] = d
      /\ \A u \in Thread \ {t} : call'[u] = call[u]
  BY OnlyCall DEF NamesTypes
<1>2. of[t] \in Process /\ call[t].step = "idle" /\ call[t].op = "none"
  BY IdleFits DEF NamesTypes
<1>3. /\ files'[of[t]][f] = g
      /\ \A q \in Process, h \in Fd : <<q, h>> # <<of[t], f>> => files'[q][h] = files[q][h]
  BY <1>2, OneSlot, SMT DEF NamesTypes
<1>4. g.node \in Live
  BY <1>2 DEF TableOK
<1>5. Invalid' = Invalid /\ g # Invalid /\ g # NULL
  <2>1. NULL \notin Live
    BY LiveIsNode
  <2> QED
    BY <1>4, <2>1, InvalidIsNone DEF NamespaceAssumption, Invalid
<1>6. \A u \in Thread : HasSlot(u, call[u])'
  <2> SUFFICES ASSUME NEW u \in Thread PROVE HasSlot(u, call[u])'
    OBVIOUS
  <2>1. HasSlot(u, call[u]) /\ of[u] \in Process
    BY DEF TableOK, NamesTypes
  <2>2. CASE u = t
    BY <1>1, <1>3, <1>5, <2>2 DEF HasSlot
  <2>3. CASE u # t
    <3>1. (call[u].op = "open" \/ call[u].step \in {"delete", "release"}) =>
            <<of[u], call[u].fd>> # <<of[t], f>>
      BY <2>1 DEF HasSlot
    <3> QED
      BY <1>1, <1>3, <1>5, <2>1, <2>3, <3>1, SMT DEF HasSlot
  <2> QED
    BY <2>2, <2>3
<1>7. \A v, u \in Thread :
          /\ call'[v].step \in {"delete", "release"}
          /\ call'[u].step \in {"delete", "release"}
          /\ of[v] = of[u] /\ call'[v].fd = call'[u].fd
          => v = u
  <2>1. \A u \in Thread : call[u].step \in {"delete", "release"} => <<of[u], call[u].fd>> # <<of[t], f>>
    BY DEF TableOK, HasSlot
  <2> QED
    BY <1>1, <2>1, SMT DEF TableOK
<1>8. \A p \in Process : owner[p] # NULL => of[owner[p]] = p
  BY DEF TableOK
<1>9. \A p \in Process, h \in Fd :
          files'[p][h] \notin {NULL, Invalid} => files'[p][h].node \in Live
  BY <1>3, <1>4 DEF TableOK
<1>10. SlotsAccounted'
  <2>1. ASSUME NEW p \in Process, NEW h \in Fd, files'[p][h] = Invalid
        PROVE  \E u \in Thread : owner[p] = u /\ call'[u].op = "open" /\ call'[u].fd = h
    <3>1. files[p][h] = Invalid
      BY <1>3, <1>5, <2>1
    <3>2. PICK u \in Thread : owner[p] = u /\ call[u].op = "open" /\ call[u].fd = h
      BY <3>1, SMT DEF TableOK, SlotsAccounted
    <3> QED
      BY <1>1, <1>2, <3>2
  <2>2. ASSUME NEW p \in Process, NEW h \in Fd, files'[p][h] # NULL, files'[p][h].freed
        PROVE  \E u \in Thread :
                  of[u] = p /\ call'[u].step \in {"delete", "release"} /\ call'[u].fd = h
    <3>1. CASE p = of[t] /\ h = f
      BY <1>1, <1>3, <2>2, <3>1
    <3>2. CASE <<p, h>> # <<of[t], f>>
      <4>1. PICK u \in Thread : of[u] = p /\ call[u].step \in {"delete", "release"} /\ call[u].fd = h
        BY <1>3, <2>2, <3>2, SMT DEF TableOK, SlotsAccounted
      <4> QED
        BY <1>1, <1>2, <4>1
    <3> QED
      BY <3>1, <3>2
  <2> QED
    BY <1>5, <2>1, <2>2, SMT DEF SlotsAccounted
<1> QED
  BY <1>5, <1>6, <1>7, <1>8, <1>9, <1>10 DEF TableOK

(* vfs_fileDelete() leaves the slot of the file it frees as it is.         *)
LEMMA DeleteTable ==
    ASSUME NamesTypes, TableOK, NEW t \in Thread, NEW d \in Call, Go(t, d),
           call[t].step = "delete", call[t].op # "open",
           d.step = "release", d.op = call[t].op, d.fd = call[t].fd,
           UNCHANGED <<of, files, owner>>, Live' = Live
    PROVE  TableOK'
<1>1. /\ call'[t] = d
      /\ \A u \in Thread \ {t} : call'[u] = call[u]
  BY OnlyCall DEF NamesTypes
<1>2. \A u \in Thread :
         /\ call'[u].op = call[u].op /\ call'[u].fd = call[u].fd
         /\ call'[u].step \in {"delete", "release"} <=> call[u].step \in {"delete", "release"}
         /\ call'[u].step = "delete" => call'[u] = call[u]
  BY <1>1
<1>3. ASSUME NEW u \in Thread PROVE HasSlot(u, call[u])'
  <2>1. HasSlot(u, call[u]) /\ Invalid' = Invalid
    BY DEF TableOK, Invalid
  <2>2. CASE u = t
    BY <1>1, <2>1, <2>2 DEF HasSlot
  <2>3. CASE u # t
    BY <1>1, <2>1, <2>3 DEF HasSlot
  <2> QED
    BY <2>2, <2>3
<1>4. SlotsAccounted'
  <2>1. ASSUME NEW p \in Process, NEW f \in Fd, files[p][f] = Invalid
        PROVE  \E u \in Thread : owner[p] = u /\ call'[u].op = "open" /\ call'[u].fd = f
    <3>1. PICK u \in Thread : owner[p] = u /\ call[u].op = "open" /\ call[u].fd = f
      BY <2>1, SMT DEF TableOK, SlotsAccounted
    <3> QED
      BY <1>2, <3>1
  <2>2. ASSUME NEW p \in Process, NEW f \in Fd, files[p][f] # NULL, files[p][f].freed
        PROVE  \E u \in Thread :
                  of[u] = p /\ call'[u].step \in {"delete", "release"} /\ call'[u].fd = f
    <3>1. PICK u \in Thread :
             of[u] = p /\ call[u].step \in {"delete", "release"} /\ call[u].fd = f
      BY <2>2, SMT DEF TableOK, SlotsAccounted
    <3> QED
      BY <1>2, <3>1
  <2>3. Invalid' = Invalid
    BY DEF Invalid
  <2> QED
    BY <2>1, <2>2, <2>3, SMT DEF SlotsAccounted
<1>5. \A v, u \in Thread :
          /\ call'[v].step \in {"delete", "release"}
          /\ call'[u].step \in {"delete", "release"}
          /\ of[v] = of[u] /\ call'[v].fd = call'[u].fd
          => v = u
  BY <1>2, SMT DEF TableOK
<1>6. \A p \in Process : owner[p] # NULL => of[owner[p]] = p
  BY DEF TableOK
<1>7. \A p \in Process, f \in Fd : files[p][f] \notin {NULL, Invalid} => files[p][f].node \in Live
  BY DEF TableOK
<1> QED
  BY <1>3, <1>4, <1>5, <1>6, <1>7 DEF TableOK, Invalid

(* vfs_close() releases the slot of the file it freed.                     *)
LEMMA ReleaseTable ==
    ASSUME NamespaceAssumption, NamesTypes, TableOK, NEW t \in Thread, Go(t, Idle),
           call[t].step = "release", call[t].op # "open",
           files' = [files EXCEPT ![of[t]][call[t].fd] = NULL],
           UNCHANGED <<of, owner>>, Live' = Live
    PROVE  TableOK'
<1> DEFINE f == call[t].fd
<1>1. /\ call'[t] = Idle
      /\ \A u \in Thread \ {t} : call'[u] = call[u]
  BY OnlyCall, IdleFits DEF NamesTypes
<1>2. of[t] \in Process /\ f \in Fd /\ files[of[t]][f] # NULL /\ files[of[t]][f].freed
  BY DEF NamesTypes, TableOK, HasSlot
<1>3. /\ files'[of[t]][f] = NULL
      /\ \A q \in Process, h \in Fd : <<q, h>> # <<of[t], f>> => files'[q][h] = files[q][h]
  BY <1>2, OneSlot, SMT DEF NamesTypes
<1>4. Invalid' = Invalid /\ Invalid # NULL /\ ~Invalid.freed
  BY InvalidIsNone DEF Invalid
<1>5. \A u \in Thread \ {t} : call[u].step \in {"delete", "release"} => <<of[u], call[u].fd>> # <<of[t], f>>
  BY DEF TableOK
<1>6. \A u \in Thread : HasSlot(u, call[u])'
  <2> SUFFICES ASSUME NEW u \in Thread PROVE HasSlot(u, call[u])'
    OBVIOUS
  <2>1. HasSlot(u, call[u]) /\ of[u] \in Process
    BY DEF TableOK, NamesTypes
  <2>2. CASE u = t
    BY <1>1, <2>2, IdleFits DEF HasSlot
  <2>3. CASE u # t
    <3>1. call[u].op = "open" => <<of[u], call[u].fd>> # <<of[t], f>>
      BY <1>2, <1>4, <2>1 DEF HasSlot
    <3> QED
      BY <1>1, <1>3, <1>4, <1>5, <2>1, <2>3, <3>1, SMT DEF HasSlot
  <2> QED
    BY <2>2, <2>3
<1>7. \A v, u \in Thread :
          /\ call'[v].step \in {"delete", "release"}
          /\ call'[u].step \in {"delete", "release"}
          /\ of[v] = of[u] /\ call'[v].fd = call'[u].fd
          => v = u
  BY <1>1, IdleFits DEF TableOK
<1>8. \A p \in Process : owner[p] # NULL => of[owner[p]] = p
  BY DEF TableOK
<1>9. \A p \in Process, h \in Fd :
          files'[p][h] \notin {NULL, Invalid} => files'[p][h].node \in Live
  BY <1>3 DEF TableOK
<1>10. SlotsAccounted'
  <2>1. ASSUME NEW p \in Process, NEW h \in Fd, files'[p][h] = Invalid
        PROVE  \E u \in Thread : owner[p] = u /\ call'[u].op = "open" /\ call'[u].fd = h
    <3>1. files[p][h] = Invalid
      BY <1>3, <1>4, <2>1
    <3>2. PICK u \in Thread : owner[p] = u /\ call[u].op = "open" /\ call[u].fd = h
      BY <3>1, SMT DEF TableOK, SlotsAccounted
    <3> QED
      BY <1>1, <3>2
  <2>2. ASSUME NEW p \in Process, NEW h \in Fd, files'[p][h] # NULL, files'[p][h].freed
        PROVE  \E u \in Thread :
                  of[u] = p /\ call'[u].step \in {"delete", "release"} /\ call'[u].fd = h
    <3>1. <<p, h>> # <<of[t], f>> /\ files'[p][h] = files[p][h]
      BY <1>3, <2>2
    <3>2. PICK u \in Thread : of[u] = p /\ call[u].step \in {"delete", "release"} /\ call[u].fd = h
      BY <2>2, <3>1, SMT DEF TableOK, SlotsAccounted
    <3> QED
      BY <1>1, <3>1, <3>2
  <2> QED
    BY <1>4, <2>1, <2>2, SMT DEF SlotsAccounted
<1> QED
  BY <1>4, <1>6, <1>7, <1>8, <1>9, <1>10 DEF TableOK

-----------------------------------------------------------------------------
(* The holders of a node's references when one slot changes.               *)
LEMMA HoldersChange ==
    ASSUME NamespaceAssumption, NamesTypes,
           NEW p \in Process, NEW f \in Fd, NEW g \in FileType \cup {NULL},
           files' = [files EXCEPT ![p][f] = g], NEW n
    PROVE  /\ (OfNode(files[p][f], n) <=> OfNode(g, n)) => Holders(n)' = Holders(n)
           /\ ~OfNode(files[p][f], n) /\ OfNode(g, n) =>
                Cardinality(Holders(n)') = Cardinality(Holders(n)) + 1
           /\ OfNode(files[p][f], n) /\ ~OfNode(g, n) =>
                Cardinality(Holders(n)') = Cardinality(Holders(n)) - 1
<1>1. /\ files'[p][f] = g
      /\ \A q \in Process, h \in Fd : <<q, h>> # <<p, f>> => files'[q][h] = files[q][h]
  BY OneSlot, SMT DEF NamesTypes
<1>2. \A q \in Process, h \in Fd : <<q, h>> \in Holders(n) <=> OfNode(files[q][h], n)
  BY DEF Holders
<1>3. \A q \in Process, h \in Fd : <<q, h>> \in Holders(n)' <=> OfNode(files'[q][h], n)
  BY DEF Holders, OfNode
<1>4. /\ \A s \in Holders(n) : \E q \in Process, h \in Fd : s = <<q, h>>
      /\ \A s \in Holders(n)' : \E q \in Process, h \in Fd : s = <<q, h>>
  BY SMT DEF Holders
<1>5. PICK S, T : S = Holders(n) /\ T = Holders(n)'
  OBVIOUS
<1>6. \A s : s # <<p, f>> => (s \in S <=> s \in T)
  BY <1>1, <1>2, <1>3, <1>4, <1>5, SMT
<1>7. (<<p, f>> \in S <=> OfNode(files[p][f], n)) /\ (<<p, f>> \in T <=> OfNode(g, n))
  BY <1>1, <1>2, <1>3, <1>5
<1>8. IsFiniteSet(S) /\ Cardinality(S) \in Nat
  BY <1>5, Finite
<1>9. <<p, f>> \in S /\ <<p, f>> \notin T => T = S \ {<<p, f>>}
  BY <1>6
<1>10. <<p, f>> \notin S /\ <<p, f>> \in T => T = S \cup {<<p, f>>}
  BY <1>6
<1>11. (<<p, f>> \in S <=> <<p, f>> \in T) => T = S
  BY <1>6, SMT
<1>12. <<p, f>> \in S /\ <<p, f>> \notin T => Cardinality(T) = Cardinality(S) - 1
  BY <1>8, <1>9, FS_RemoveElement
<1>13. <<p, f>> \notin S /\ <<p, f>> \in T => Cardinality(T) = Cardinality(S) + 1
  BY <1>8, <1>10, FS_AddElement, SMT
<1> QED
  BY <1>5, <1>7, <1>11, <1>12, <1>13

(* A set of threads that t joins or leaves.                                *)
LEMMA ThreadsChange ==
    ASSUME NamespaceAssumption, NEW t \in Thread, NEW S \in SUBSET Thread, NEW T \in SUBSET Thread,
           \A u \in Thread \ {t} : u \in S <=> u \in T
    PROVE  /\ (t \in S <=> t \in T) => T = S
           /\ t \notin S /\ t \in T => Cardinality(T) = Cardinality(S) + 1
           /\ t \in S /\ t \notin T => Cardinality(T) = Cardinality(S) - 1
<1>1. IsFiniteSet(S)
  BY FS_Subset DEF NamespaceAssumption
<1>2. t \in S /\ t \notin T => T = S \ {t}
  OBVIOUS
<1>3. t \notin S /\ t \in T => T = S \cup {t}
  OBVIOUS
<1>4. t \in S /\ t \notin T => Cardinality(T) = Cardinality(S) - 1
  BY <1>1, <1>2, FS_RemoveElement
<1>5. t \notin S /\ t \in T => Cardinality(T) = Cardinality(S) + 1
  BY <1>1, <1>3, FS_AddElement, SMT
<1> QED
  BY <1>4, <1>5, SMT

(* The threads that open a node as a directory and that move it, when the  *)
(* call of t becomes d.                                                    *)
LEMMA ThreadsOf ==
    ASSUME NamespaceAssumption, NamesTypes, NEW t \in Thread, NEW d \in Call, Go(t, d), NEW n
    PROVE  /\ Openers(n) \in SUBSET Thread /\ Openers(n)' \in SUBSET Thread
           /\ MovesOf(n) \in SUBSET Thread /\ MovesOf(n)' \in SUBSET Thread
           /\ \A u \in Thread \ {t} : u \in Openers(n) <=> u \in Openers(n)'
           /\ \A u \in Thread \ {t} : u \in MovesOf(n) <=> u \in MovesOf(n)'
           /\ t \in Openers(n) <=> call[t].file # NULL /\ call[t].file.node = n
           /\ t \in Openers(n)' <=> d.file # NULL /\ d.file.node = n
           /\ t \in MovesOf(n) <=> call[t].source = n /\ call[t].step \in Moving
           /\ t \in MovesOf(n)' <=> d.source = n /\ d.step \in Moving
<1>1. /\ call'[t] = d
      /\ \A u \in Thread \ {t} : call'[u] = call[u]
  BY OnlyCall DEF NamesTypes
<1>2. /\ Openers(n) \in SUBSET Thread /\ Openers(n)' \in SUBSET Thread
      /\ MovesOf(n) \in SUBSET Thread /\ MovesOf(n)' \in SUBSET Thread
  BY DEF Openers, MovesOf
<1>3. /\ \A u \in Thread : u \in Openers(n) <=> call[u].file # NULL /\ call[u].file.node = n
      /\ \A u \in Thread : u \in Openers(n)' <=> call'[u].file # NULL /\ call'[u].file.node = n
  BY DEF Openers
<1>4. /\ \A u \in Thread : u \in MovesOf(n) <=> call[u].source = n /\ call[u].step \in Moving
      /\ \A u \in Thread : u \in MovesOf(n)' <=> call'[u].source = n /\ call'[u].step \in Moving
  BY DEF MovesOf, Moving
<1> QED
  BY <1>1, <1>2, <1>3, <1>4, SMT

(* The tree is as it was.                                                  *)
LEMMA TreeStays ==
    ASSUME TreeOK, UNCHANGED <<nodes, childs, lastID>>, NEW t \in Thread
    PROVE  TreeOK' /\ Live' = Live /\ NewParents(t)
<1>1. Live' = Live
  BY DEF Live
<1> QED
  BY <1>1, SMT DEF TreeOK, NewParents

(* The references of one node change.                                      *)
LEMMA TreeCounts ==
    ASSUME NamespaceAssumption, NamesTypes, TreeOK, NEW n \in Live, NEW k \in Int,
           nodes' = [nodes EXCEPT ![n].references = k],
           UNCHANGED <<childs, lastID>>, NEW t \in Thread
    PROVE  /\ nodes' \in [NodeId -> NodeType \cup {NULL}]
           /\ TreeOK' /\ Live' = Live /\ NewParents(t)
           /\ \A m \in Live : nodes'[m].parent = nodes[m].parent
           /\ nodes'[n].references = k
           /\ \A m \in Live \ {n} : nodes'[m].references = nodes[m].references
<1>1. n \in NodeId /\ nodes[n] \in NodeType
  BY LiveIsNode
<1>2. PICK y : y = [nodes[n] EXCEPT !.references = k]
  OBVIOUS
<1>3. /\ y \in NodeType /\ y # NULL /\ y.parent = nodes[n].parent /\ y.name = nodes[n].name
      /\ y.references = k
  BY <1>1, <1>2 DEF NodeType, NamespaceAssumption
<1>4. nodes'[n] = y /\ \A m \in NodeId \ {n} : nodes'[m] = nodes[m]
  BY <1>1, <1>2 DEF NamesTypes
<1>5. nodes' \in [NodeId -> NodeType \cup {NULL}]
  BY <1>1, <1>2, <1>3 DEF NamesTypes
<1>6. Live' = Live
  BY <1>3, <1>4 DEF Live
<1>7. Live \subseteq NodeId /\ Root \in NodeId
  BY SMT DEF Live, Root, NodeId, NamespaceAssumption
<1>8. \A m \in NodeId : nodes'[m].parent = nodes[m].parent /\ nodes'[m].name = nodes[m].name
  BY <1>3, <1>4
<1>9. TreeOK'
  BY <1>6, <1>7, <1>8, SMT DEF TreeOK
<1> QED
  BY <1>3, <1>4, <1>5, <1>6, <1>7, <1>8, <1>9 DEF NewParents

(* The directory's share in the references of a node.                      *)
Entered(y) == IF y.parent # NULL THEN 1 ELSE 0

(* Before and after a step the references are numbers.                     *)
LEMMA Numbers ==
    ASSUME NamespaceAssumption, NamesTypes, NamesTypes', Live' = Live, NEW n \in Live
    PROVE  /\ nodes[n].references \in Int /\ nodes'[n].references \in Int
           /\ Entered(nodes[n]) \in Nat /\ Entered(nodes'[n]) \in Nat
           /\ Cardinality(Holders(n)) \in Nat /\ Cardinality(Holders(n)') \in Nat
           /\ Cardinality(Openers(n)) \in Nat /\ Cardinality(Openers(n)') \in Nat
           /\ Cardinality(MovesOf(n)) \in Nat /\ Cardinality(MovesOf(n)') \in Nat
<1>1. IsFiniteSet(Process \X Fd) /\ IsFiniteSet(Thread)
  BY FS_Product DEF NamespaceAssumption
<1>2. /\ Holders(n)' \subseteq Process \X Fd
      /\ Openers(n)' \subseteq Thread /\ MovesOf(n)' \subseteq Thread
  BY DEF Holders, Openers, MovesOf
<1>3. IsFiniteSet(Holders(n)') /\ IsFiniteSet(Openers(n)') /\ IsFiniteSet(MovesOf(n)')
  BY <1>1, <1>2, FS_Subset
<1>4. n \in NodeId /\ nodes'[n] # NULL
  BY DEF Live
<1>5. nodes'[n] \in NodeType
  BY <1>4 DEF NamesTypes
<1>6. nodes'[n].references \in Int
  BY <1>5 DEF NodeType
<1> QED
  BY <1>3, <1>6, LiveIsNode, Finite, FS_CardinalityType DEF Entered

(* The references of a node change by what its holders change by.          *)
LEMMA CountsAgree ==
    ASSUME NamespaceAssumption, NamesTypes, NamesTypes', ReferencesExact, Live' = Live,
           \A n \in Live :
              nodes'[n].references - nodes[n].references
                = (Entered(nodes'[n]) - Entered(nodes[n]))
                  + (Cardinality(Holders(n)') - Cardinality(Holders(n)))
                  + (Cardinality(Openers(n)') - Cardinality(Openers(n)))
                  + (Cardinality(MovesOf(n)') - Cardinality(MovesOf(n)))
    PROVE  ReferencesExact'
<1> SUFFICES ASSUME NEW n \in Live
             PROVE  nodes'[n].references = (IF n = Root THEN 2 ELSE 1) + Entered(nodes'[n])
                        + (Cardinality(Holders(n)') + Cardinality(Openers(n)'))
                        + Cardinality(MovesOf(n)')
  BY DEF ReferencesExact, OpenFiles, Entered
<1>1. nodes[n].references = (IF n = Root THEN 2 ELSE 1) + Entered(nodes[n])
        + (Cardinality(Holders(n)) + Cardinality(Openers(n))) + Cardinality(MovesOf(n))
  BY DEF ReferencesExact, OpenFiles, Entered
<1>2. /\ nodes[n].references \in Int /\ nodes'[n].references \in Int
      /\ Entered(nodes[n]) \in Nat /\ Entered(nodes'[n]) \in Nat
      /\ Cardinality(Holders(n)) \in Nat /\ Cardinality(Holders(n)') \in Nat
      /\ Cardinality(Openers(n)) \in Nat /\ Cardinality(Openers(n)') \in Nat
      /\ Cardinality(MovesOf(n)) \in Nat /\ Cardinality(MovesOf(n)') \in Nat
  BY Numbers
<1> QED
  BY <1>1, <1>2, SMT

(* vfs_open() up to the walk.                                              *)
LEMMA OpenKeeps ==
    ASSUME NamespaceAssumption, OneMover, NamesInv, NEW t \in Thread, Open(t)
    PROVE  NamesInv'
<1>1. CASE FreeFds(of[t]) = {}
  BY <1>1, NamesStutter DEF Open, tree, table
<1>2. CASE FreeFds(of[t]) # {}
  <2>1. PICK f : f = FirstFree(of[t])
    OBVIOUS
  <2>2. f \in FreeFds(of[t])
    <3>1. FreeFds(of[t]) \in SUBSET Nat
      BY DEF FreeFds, NamespaceAssumption
    <3>2. \E h \in FreeFds(of[t]) : \A g \in FreeFds(of[t]) : h <= g
      BY <1>2, <3>1, FirstNumber
    <3> QED
      BY <2>1, <3>2 DEF FirstFree
  <2>3. f \in Fd /\ files[of[t]][f] = NULL
    BY <2>2 DEF FreeFds
  <2>4. PICK path \in Path, flags \in Flags :
          /\ owner' = [owner EXCEPT ![of[t]] = t]
          /\ files' = [files EXCEPT ![of[t]][f] = Invalid]
          /\ Go(t, Walk([Idle EXCEPT !.op = "open", !.dest = path, !.flags = flags, !.fd = f], path))
    BY <1>2, <2>1 DEF Open
  <2>5. PICK b : b = [Idle EXCEPT !.op = "open", !.dest = path, !.flags = flags, !.fd = f]
    OBVIOUS
  <2>6. /\ b \in Call /\ b.op = "open" /\ b.dest = path /\ b.fd = f /\ b.file = NULL
        /\ b.source = NULL /\ b.target = NULL
    <3>1. Idle \in Call
      BY IdleFits
    <3>2. b \in Call
      BY <2>3, <2>5, <3>1, ZenonT(60) DEF Call
    <3> QED
      BY <2>5, <3>2 DEF Idle
  <2>7. PICK d : d = Walk(b, path)
    OBVIOUS
  <2>8. /\ d \in Call /\ d.step \in {"walk", "parent"}
        /\ d.op = "open" /\ d.fd = f /\ d.file = NULL
        /\ Found(t, d) /\ KnowsNodes(t, d) /\ InPlace(d)
    BY <2>6, <2>7, WalkFits, SMT DEF Known
  <2>9. /\ Go(t, d) /\ call[t] = Idle /\ owner[of[t]] = NULL
        /\ UNCHANGED <<of, nodes, childs, lastID>>
    BY <2>4, <2>5, <2>7 DEF Open, Begin, tree
  <2>10. call[t].step = "idle" /\ call[t].op = "none" /\ call[t].file = NULL
    BY <2>9, IdleFits
  <2>11. NamesTypes /\ TreeOK /\ CallsOK /\ TableOK /\ ReferencesExact /\ of[t] \in Process
    BY DEF NamesInv, NamesTypes
  <2>12. TreeOK' /\ Live' = Live /\ NewParents(t)
    BY <2>9, <2>11, TreeStays
  <2>13. NamesTypes'
    <3>1. call' \in [Thread -> Call]
      BY <2>8, <2>9, <2>11, OnlyCall DEF NamesTypes
    <3>2. files' \in [Process -> [Fd -> FileType \cup {NULL}]]
      BY <2>3, <2>4, <2>11, OneSlot, InvalidIsNone DEF NamesTypes
    <3>3. owner' \in [Process -> Thread \cup {NULL}]
      BY <2>4, <2>11 DEF NamesTypes
    <3> QED
      BY <2>9, <2>11, <3>1, <3>2, <3>3 DEF NamesTypes
  <2>14. InPlace(d)'
    BY <2>8 DEF InPlace
  <2>15. CallsOK'
    BY <2>8, <2>9, <2>11, <2>12, <2>14, CallsKeep
  <2>16. TableOK'
    BY <2>3, <2>4, <2>8, <2>9, <2>10, <2>11, <2>12, OpenTable
  <2>17. ReferencesExact'
    <3>1. Quiet(t, d)
      BY <2>8, <2>10 DEF Quiet, Moving
    <3>2. \A n : Openers(n)' = Openers(n) /\ MovesOf(n)' = MovesOf(n)
      BY <2>8, <2>9, <2>11, <3>1, QuietCounts
    <3>3. NULL \notin Live
      BY <2>11, LiveIsNode
    <3>4. \A n \in Live : ~OfNode(files[of[t]][f], n) /\ ~OfNode(Invalid, n)
      BY <2>3, <3>3, InvalidIsNone DEF OfNode
    <3>5. \A n \in Live : Holders(n)' = Holders(n)
      BY <2>3, <2>4, <2>11, <3>4, InvalidIsNone, HoldersChange
    <3>6. \A n \in Live : OpenFiles(n)' = OpenFiles(n) /\ Cardinality(MovesOf(n)') = Cardinality(MovesOf(n))
      BY <3>2, <3>5 DEF OpenFiles
    <3> QED
      BY <2>9, <2>11, <2>12, <3>6 DEF ReferencesExact
  <2> QED
    BY <2>12, <2>13, <2>15, <2>16, <2>17 DEF NamesInv
<1> QED
  BY <1>1, <1>2

(* What a way out of vfs_open() leaves, but for the references.            *)
LEMMA LeaveFits ==
    ASSUME NamespaceAssumption, OneMover, NamesInv, NEW t \in Thread,
           call[t].op = "open", call[t].step \notin {"delete", "release"},
           NEW g \in FileType \cup {NULL}, LeaveOpen(t, g),
           g # NULL => g.node \in Live /\ ~g.freed,
           UNCHANGED <<of, childs, lastID>>, nodes' \in [NodeId -> NodeType \cup {NULL}],
           Live' = Live, NewParents(t)
    PROVE  NamesTypes' /\ CallsOK' /\ TableOK'
<1>1. NamesTypes /\ CallsOK /\ TableOK
  BY DEF NamesInv
<1>2. Go(t, Idle) /\ Idle \in Call
  BY IdleFits DEF LeaveOpen, Return
<1>3. NamesTypes'
  <2>1. call' \in [Thread -> Call]
    BY <1>1, <1>2, OnlyCall DEF NamesTypes
  <2>2. of[t] \in Process /\ call[t].fd \in Fd
    BY <1>1 DEF NamesTypes, TableOK, HasSlot
  <2>3. files' \in [Process -> [Fd -> FileType \cup {NULL}]]
    BY <1>1, <2>2, OneSlot DEF NamesTypes, LeaveOpen
  <2>4. owner' \in [Process -> Thread \cup {NULL}]
    BY <1>1, <2>2 DEF NamesTypes, LeaveOpen
  <2> QED
    BY <1>1, <2>1, <2>3, <2>4 DEF NamesTypes
<1>4. CallsOK'
  <2>1. Found(t, Idle) /\ KnowsNodes(t, Idle) /\ Idle.step = "idle"
    BY IdleFits
  <2>2. InPlace(Idle)'
    BY <2>1 DEF InPlace, Idle
  <2> QED
    BY <1>1, <1>2, <2>1, <2>2, CallsKeep
<1>5. TableOK'
  BY <1>1, LeaveTable
<1> QED
  BY <1>3, <1>4, <1>5

(* The slot of a file that is being opened holds no reference.             *)
LEMMA Reserved ==
    ASSUME NamespaceAssumption, NamesInv, NEW t \in Thread, call[t].op = "open"
    PROVE  /\ of[t] \in Process /\ call[t].fd \in Fd
           /\ \A n \in Live : ~OfNode(files[of[t]][call[t].fd], n)
<1>1. of[t] \in Process /\ call[t].fd \in Fd /\ files[of[t]][call[t].fd] = Invalid
  BY DEF NamesInv, NamesTypes, TableOK, HasSlot
<1>2. NULL \notin Live
  BY LiveIsNode DEF NamesInv
<1> QED
  BY <1>1, <1>2, InvalidIsNone DEF OfNode

(* vfs_open() leaves without a file.                                       *)
LEMMA LeaveEmpty ==
    ASSUME NamespaceAssumption, OneMover, NamesInv, NEW t \in Thread,
           call[t].op = "open", call[t].step \in {"walk", "fileOpen"}, LeaveOpen(t, NULL),
           UNCHANGED <<of, nodes, childs, lastID>>
    PROVE  NamesInv'
<1>1. NamesTypes /\ TreeOK /\ ReferencesExact
  BY DEF NamesInv
<1>2. TreeOK' /\ Live' = Live /\ NewParents(t)
  BY <1>1, TreeStays
<1>3. nodes' \in [NodeId -> NodeType \cup {NULL}]
  BY <1>1 DEF NamesTypes
<1>4. NamesTypes' /\ CallsOK' /\ TableOK'
  BY <1>2, <1>3, LeaveFits
<1>5. ReferencesExact'
  <2>1. Go(t, Idle) /\ Idle \in Call
    BY IdleFits DEF LeaveOpen, Return
  <2>2. Quiet(t, Idle)
    BY CallOf, IdleFits DEF Quiet, Moving, Found
  <2>3. \A n : Openers(n)' = Openers(n) /\ MovesOf(n)' = MovesOf(n)
    BY <1>1, <2>1, <2>2, QuietCounts
  <2>4. ASSUME NEW n \in Live
        PROVE  Holders(n)' = Holders(n)
    <3>1. PICK p \in Process, f \in Fd : p = of[t] /\ f = call[t].fd
      BY Reserved
    <3>2. ~OfNode(files[p][f], n) /\ ~OfNode(NULL, n)
      BY <3>1, Reserved DEF OfNode
    <3>3. files' = [files EXCEPT ![p][f] = NULL]
      BY <3>1 DEF LeaveOpen
    <3> QED
      BY <1>1, <3>2, <3>3, HoldersChange
  <2>5. \A n \in Live : OpenFiles(n)' = OpenFiles(n) /\ Cardinality(MovesOf(n)') = Cardinality(MovesOf(n))
    BY <2>3, <2>4 DEF OpenFiles
  <2> QED
    BY <1>1, <1>2, <2>5 DEF ReferencesExact
<1> QED
  BY <1>2, <1>4, <1>5 DEF NamesInv

(* The end of the walk of vfs_open().                                      *)
LEMMA OpenResolvedKeeps ==
    ASSUME NamespaceAssumption, OneMover, NamesInv, NEW t \in Thread, OpenResolved(t)
    PROVE  NamesInv'
<1> DEFINE c == call[t]
<1>1. /\ c.op = "open" /\ c.step = "walk" /\ WalkOver(c)
      /\ UNCHANGED <<of, nodes, childs, lastID>>
  BY DEF OpenResolved, tree
<1>2. c \in Call /\ Found(t, c) /\ KnowsNodes(t, c)
  BY CallOf
<1>3. PICK d : d = [c EXCEPT !.step = "fileOpen"]
  OBVIOUS
<1>4. \/ c.node # NULL /\ Go(t, d) /\ UNCHANGED <<files, owner>>
      \/ LeaveOpen(t, NULL)
      \/ Go(t, ResolveParent(c, c.dest)) /\ UNCHANGED <<files, owner>>
  BY <1>3 DEF OpenResolved, table
<1>5. CASE c.node # NULL /\ Go(t, d) /\ UNCHANGED <<files, owner>>
  <2>1. d \in Call
    BY <1>2, <1>3 DEF Call
  <2>2. /\ d.step = "fileOpen" /\ d.op = c.op /\ d.fd = c.fd /\ d.file = c.file /\ d.dest = c.dest
        /\ d.source = c.source /\ d.target = c.target /\ d.prev = c.prev /\ d.node = c.node
    BY <1>2, <1>3 DEF Call
  <2>3. Found(t, d)
    BY <1>1, <1>2, <1>5, <2>2 DEF Found, Moving
  <2>4. Quiet(t, d)
    BY <1>1, <1>2, <2>2 DEF Quiet, Moving, Found
  <2>5. KnowsNodes(t, d) /\ InPlace(d)
    BY <1>2, <2>2 DEF KnowsNodes, InPlace
  <2> QED
    BY <1>1, <1>5, <2>1, <2>2, <2>3, <2>4, <2>5, CallOnly
<1>6. CASE LeaveOpen(t, NULL)
  BY <1>1, <1>6, LeaveEmpty
<1>7. CASE Go(t, ResolveParent(c, c.dest)) /\ UNCHANGED <<files, owner>>
  <2>1. PICK x : x = ResolveParent(c, c.dest)
    OBVIOUS
  <2>2. c.file = NULL /\ c.dest \in Path /\ Known(t, c.source) /\ Known(t, c.target)
    BY <1>1, <1>2 DEF Found, KnowsNodes
  <2>3. /\ x \in Call /\ x.step \in {"walk", "parent"} /\ x.op = "open" /\ x.fd = c.fd /\ x.file = NULL
        /\ Found(t, x) /\ KnowsNodes(t, x) /\ InPlace(x)
    BY <1>1, <1>2, <2>1, <2>2, WalkFits, SMT
  <2>4. Quiet(t, x)
    BY <1>1, <2>2, <2>3 DEF Quiet, Moving
  <2> QED
    BY <1>1, <1>7, <2>1, <2>3, <2>4, CallOnly
<1> QED
  BY <1>4, <1>5, <1>6, <1>7

(* The entries of a directory are copied and the slot is filled.           *)
LEMMA CopyKeeps ==
    ASSUME NamespaceAssumption, OneMover, NamesInv, NEW t \in Thread, CopyEntries(t)
    PROVE  NamesInv'
<1> DEFINE c == call[t]
<1>1. PICK g : g = c.file
  OBVIOUS
<1>2. /\ c.step = "entries" /\ LeaveOpen(t, g) /\ UNCHANGED <<of, nodes, childs, lastID>>
  BY <1>1 DEF CopyEntries, tree
<1>3. c \in Call /\ Found(t, c)
  BY CallOf
<1>4. /\ c.op = "open" /\ c.file # NULL /\ g \in FileType /\ g.node = c.node /\ ~g.freed
      /\ c.node # NULL
  BY <1>1, <1>2, <1>3 DEF Found, Call
<1>5. c.node \in Live /\ g # NULL
  BY <1>1, <1>4, CallOf
<1>6. NamesTypes /\ TreeOK /\ ReferencesExact
  BY DEF NamesInv
<1>7. TreeOK' /\ Live' = Live /\ NewParents(t)
  BY <1>2, <1>6, TreeStays
<1>8. nodes' \in [NodeId -> NodeType \cup {NULL}]
  BY <1>2, <1>6 DEF NamesTypes
<1>9. NamesTypes' /\ CallsOK' /\ TableOK'
  BY <1>2, <1>4, <1>5, <1>7, <1>8, LeaveFits
<1>10. ReferencesExact'
  <2>1. Go(t, Idle) /\ Idle \in Call /\ Idle.file = NULL /\ Idle.step = "idle"
    BY <1>2, IdleFits DEF LeaveOpen, Return
  <2>2. ASSUME NEW n \in Live
        PROVE  nodes'[n].references - nodes[n].references
                 = (Entered(nodes'[n]) - Entered(nodes[n]))
                   + (Cardinality(Holders(n)') - Cardinality(Holders(n)))
                   + (Cardinality(Openers(n)') - Cardinality(Openers(n)))
                   + (Cardinality(MovesOf(n)') - Cardinality(MovesOf(n)))
    <3>1. MovesOf(n)' = MovesOf(n)
      <4>1. t \notin MovesOf(n) /\ t \notin MovesOf(n)'
        BY <1>2, <1>6, <2>1, ThreadsOf DEF Moving
      <4> QED
        BY <1>6, <2>1, <4>1, ThreadsOf, ThreadsChange, SMT
    <3>2. t \notin Openers(n)' /\ (t \in Openers(n) <=> c.node = n)
      BY <1>1, <1>4, <1>6, <2>1, ThreadsOf
    <3>3. /\ c.node # n => Openers(n)' = Openers(n)
          /\ c.node = n => Cardinality(Openers(n)') = Cardinality(Openers(n)) - 1
      BY <1>6, <2>1, <3>2, ThreadsOf, ThreadsChange, SMT
    <3>4. OfNode(g, n) <=> c.node = n
      BY <1>4, <1>5 DEF OfNode
    <3>5. /\ c.node # n => Holders(n)' = Holders(n)
          /\ c.node = n => Cardinality(Holders(n)') = Cardinality(Holders(n)) + 1
      <4>1. PICK p \in Process, f \in Fd : p = of[t] /\ f = c.fd
        BY <1>4, Reserved
      <4>2. ~OfNode(files[p][f], n)
        BY <1>4, <4>1, Reserved
      <4>3. files' = [files EXCEPT ![p][f] = g]
        BY <1>2, <4>1 DEF LeaveOpen
      <4> QED
        BY <1>4, <1>6, <3>4, <4>2, <4>3, HoldersChange
    <3>6. /\ nodes[n].references \in Int /\ Entered(nodes[n]) \in Nat
          /\ Cardinality(Holders(n)) \in Nat /\ Cardinality(Openers(n)) \in Nat
          /\ Cardinality(MovesOf(n)) \in Nat
      BY <1>6, <1>7, <1>9, Numbers
    <3> QED
      BY <1>2, <3>1, <3>3, <3>5, <3>6, SMT
  <2> QED
    BY <1>6, <1>7, <1>9, <2>2, CountsAgree
<1> QED
  BY <1>7, <1>9, <1>10 DEF NamesInv

(* ffs_fileOpen() of a file.                                               *)
LEMMA OpenedFile ==
    ASSUME NamespaceAssumption, OneMover, NamesInv, NEW t \in Thread,
           call[t].step = "fileOpen", Retain(call[t].node),
           NEW g \in FileType, g.node = call[t].node, ~g.freed, LeaveOpen(t, g),
           UNCHANGED <<of, childs, lastID>>
    PROVE  NamesInv'
<1> DEFINE c == call[t]
<1>1. NamesTypes /\ TreeOK /\ ReferencesExact
  BY DEF NamesInv
<1>2. c \in Call /\ c.op = "open" /\ c.node # NULL /\ c.file = NULL
  BY CallOf DEF Found
<1>3. c.node \in Live /\ g # NULL
  BY <1>2, CallOf DEF NamespaceAssumption
<1>4. PICK k \in Int : k = nodes[c.node].references + 1
  BY <1>1, <1>3, LiveIsNode, SMT
<1>5. nodes' = [nodes EXCEPT ![c.node].references = k]
  BY <1>4 DEF Retain
<1>6. /\ nodes' \in [NodeId -> NodeType \cup {NULL}]
      /\ TreeOK' /\ Live' = Live /\ NewParents(t)
      /\ \A m \in Live : nodes'[m].parent = nodes[m].parent
      /\ nodes'[c.node].references = k
      /\ \A m \in Live \ {c.node} : nodes'[m].references = nodes[m].references
  BY <1>1, <1>3, <1>5, TreeCounts
<1>7. NamesTypes' /\ CallsOK' /\ TableOK'
  BY <1>2, <1>3, <1>6, LeaveFits
<1>8. ReferencesExact'
  <2>1. Go(t, Idle) /\ Idle \in Call
    BY IdleFits DEF LeaveOpen, Return
  <2>2. Quiet(t, Idle)
    BY <1>2, IdleFits DEF Quiet, Moving
  <2>3. ASSUME NEW n \in Live
        PROVE  nodes'[n].references - nodes[n].references
                 = (Entered(nodes'[n]) - Entered(nodes[n]))
                   + (Cardinality(Holders(n)') - Cardinality(Holders(n)))
                   + (Cardinality(Openers(n)') - Cardinality(Openers(n)))
                   + (Cardinality(MovesOf(n)') - Cardinality(MovesOf(n)))
    <3>1. Openers(n)' = Openers(n) /\ MovesOf(n)' = MovesOf(n)
      BY <1>1, <2>1, <2>2, QuietCounts
    <3>2. OfNode(g, n) <=> c.node = n
      BY <1>3 DEF OfNode
    <3>3. /\ c.node # n => Holders(n)' = Holders(n)
          /\ c.node = n => Cardinality(Holders(n)') = Cardinality(Holders(n)) + 1
      <4>1. PICK p \in Process, f \in Fd : p = of[t] /\ f = c.fd
        BY <1>2, Reserved
      <4>2. ~OfNode(files[p][f], n)
        BY <1>2, <4>1, Reserved
      <4>3. files' = [files EXCEPT ![p][f] = g]
        BY <4>1 DEF LeaveOpen
      <4> QED
        BY <1>1, <3>2, <4>2, <4>3, HoldersChange
    <3>4. /\ nodes[n].references \in Int /\ Entered(nodes[n]) \in Nat
          /\ Cardinality(Holders(n)) \in Nat /\ Cardinality(Openers(n)) \in Nat
          /\ Cardinality(MovesOf(n)) \in Nat
      BY <1>1, <1>6, <1>7, Numbers
    <3>5. Entered(nodes'[n]) = Entered(nodes[n])
      BY <1>6 DEF Entered
    <3> QED
      BY <1>4, <1>6, <3>1, <3>3, <3>4, <3>5, SMT
  <2> QED
    BY <1>1, <1>6, <1>7, <2>3, CountsAgree
<1> QED
  BY <1>6, <1>7, <1>8 DEF NamesInv

(* A step of t that changes the references of a node, and t's own call.    *)
LEMMA CountedFits ==
    ASSUME NamespaceAssumption, OneMover, NamesInv, NEW t \in Thread, NEW d \in Call, Go(t, d),
           NEW n \in Live, NEW k \in Int, nodes' = [nodes EXCEPT ![n].references = k],
           UNCHANGED <<of, childs, lastID, files, owner>>,
           d.step \notin {"attach", "delete", "release"}, call[t].step \notin {"delete", "release"},
           d.op = "open" <=> call[t].op = "open",
           d.op = "open" => d.fd = call[t].fd,
           Found(t, d), KnowsNodes(t, d), InPlace(d)
    PROVE  /\ NamesTypes' /\ TreeOK' /\ CallsOK' /\ TableOK' /\ Live' = Live
           /\ \A m \in Live : nodes'[m].parent = nodes[m].parent
           /\ nodes'[n].references = k
           /\ \A m \in Live \ {n} : nodes'[m].references = nodes[m].references
<1>1. NamesTypes /\ TreeOK /\ CallsOK /\ TableOK
  BY DEF NamesInv
<1>2. /\ nodes' \in [NodeId -> NodeType \cup {NULL}]
      /\ TreeOK' /\ Live' = Live /\ NewParents(t)
      /\ \A m \in Live : nodes'[m].parent = nodes[m].parent
      /\ nodes'[n].references = k
      /\ \A m \in Live \ {n} : nodes'[m].references = nodes[m].references
  BY <1>1, TreeCounts
<1>3. NamesTypes'
  BY <1>1, <1>2, OnlyCall DEF NamesTypes
<1>4. InPlace(d)'
  <2>1. d.step \in {"replace", "rename"} => d.source \in Live
    BY DEF Found, KnowsNodes, Known, Moving
  <2> QED
    BY <1>2, <2>1 DEF InPlace
<1>5. CallsOK'
  BY <1>1, <1>2, <1>4, CallsKeep
<1>6. TableOK'
  BY <1>1, <1>2, TableStays
<1> QED
  BY <1>2, <1>3, <1>5, <1>6

(* ffs_fileOpen() of a directory, up to the count of its entries.          *)
LEMMA OpenedDirectory ==
    ASSUME NamespaceAssumption, OneMover, NamesInv, NEW t \in Thread,
           call[t].step = "fileOpen", Retain(call[t].node),
           NEW g \in FileType, g.node = call[t].node, ~g.freed,
           Go(t, [call[t] EXCEPT !.step = "entries", !.file = g]),
           UNCHANGED <<of, childs, lastID, files, owner>>
    PROVE  NamesInv'
<1> DEFINE c == call[t]
<1>1. NamesTypes /\ TreeOK /\ ReferencesExact
  BY DEF NamesInv
<1>2. c \in Call /\ Found(t, c) /\ KnowsNodes(t, c)
  BY CallOf
<1>3. c.op = "open" /\ c.node # NULL /\ c.file = NULL
  BY <1>2 DEF Found
<1>4. c.node \in Live /\ g # NULL
  BY <1>3, CallOf DEF NamespaceAssumption
<1>5. PICK d : d = [c EXCEPT !.step = "entries", !.file = g]
  OBVIOUS
<1>6. d \in Call
  BY <1>2, <1>5 DEF Call
<1>7. /\ d.step = "entries" /\ d.op = c.op /\ d.fd = c.fd /\ d.file = g /\ d.dest = c.dest
      /\ d.source = c.source /\ d.target = c.target /\ d.prev = c.prev /\ d.node = c.node
  BY <1>2, <1>5 DEF Call
<1>8. Found(t, d)
  BY <1>2, <1>3, <1>4, <1>7 DEF Found, Moving
<1>9. KnowsNodes(t, d) /\ InPlace(d)
  BY <1>2, <1>7 DEF KnowsNodes, InPlace
<1>10. PICK k \in Int : k = nodes[c.node].references + 1
  BY <1>1, <1>4, LiveIsNode, SMT
<1>11. nodes' = [nodes EXCEPT ![c.node].references = k] /\ Go(t, d)
  BY <1>5, <1>10 DEF Retain
<1>12. /\ NamesTypes' /\ TreeOK' /\ CallsOK' /\ TableOK' /\ Live' = Live
       /\ \A m \in Live : nodes'[m].parent = nodes[m].parent
       /\ nodes'[c.node].references = k
       /\ \A m \in Live \ {c.node} : nodes'[m].references = nodes[m].references
  BY <1>4, <1>6, <1>7, <1>8, <1>9, <1>11, CountedFits, ZenonT(60)
<1>13. ReferencesExact'
  <2>1. ASSUME NEW n \in Live
        PROVE  nodes'[n].references - nodes[n].references
                 = (Entered(nodes'[n]) - Entered(nodes[n]))
                   + (Cardinality(Holders(n)') - Cardinality(Holders(n)))
                   + (Cardinality(Openers(n)') - Cardinality(Openers(n)))
                   + (Cardinality(MovesOf(n)') - Cardinality(MovesOf(n)))
    <3>1. MovesOf(n)' = MovesOf(n)
      <4>1. t \notin MovesOf(n) /\ t \notin MovesOf(n)'
        BY <1>1, <1>6, <1>7, <1>11, ThreadsOf DEF Moving
      <4> QED
        BY <1>1, <1>6, <1>11, <4>1, ThreadsOf, ThreadsChange, SMT
    <3>2. t \notin Openers(n) /\ (t \in Openers(n)' <=> c.node = n)
      BY <1>1, <1>3, <1>4, <1>6, <1>7, <1>11, ThreadsOf, SMT
    <3>3. /\ c.node # n => Openers(n)' = Openers(n)
          /\ c.node = n => Cardinality(Openers(n)') = Cardinality(Openers(n)) + 1
      BY <1>1, <1>6, <1>11, <3>2, ThreadsOf, ThreadsChange, SMT
    <3>4. Holders(n)' = Holders(n)
      BY DEF Holders, OfNode
    <3>5. /\ nodes[n].references \in Int /\ Entered(nodes[n]) \in Nat
          /\ Cardinality(Holders(n)) \in Nat /\ Cardinality(Openers(n)) \in Nat
          /\ Cardinality(MovesOf(n)) \in Nat
      BY <1>1, <1>12, Numbers
    <3>6. Entered(nodes'[n]) = Entered(nodes[n])
      BY <1>12 DEF Entered
    <3> QED
      BY <1>10, <1>12, <3>1, <3>3, <3>4, <3>5, <3>6, SMT
  <2> QED
    BY <1>1, <1>12, <2>1, CountsAgree
<1> QED
  BY <1>12, <1>13 DEF NamesInv

(* ffs_fileOpen(): the file that is opened holds one more reference.       *)
LEMMA OpenFileKeeps ==
    ASSUME NamespaceAssumption, OneMover, NamesInv, NEW t \in Thread, OpenFile(t)
    PROVE  NamesInv'
<1> DEFINE c == call[t]
<1>1. PICK file : file = [node |-> c.node, offset |-> 0, count |-> 0, freed |-> FALSE]
  OBVIOUS
<1>2. c \in Call /\ c.step = "fileOpen" /\ c.op = "open" /\ c.node # NULL
  BY CallOf DEF OpenFile, Found
<1>3. c.node \in NodeId
  BY <1>2, CallOf
<1>4. file \in FileType /\ file.node = c.node /\ ~file.freed
  BY <1>1, <1>3, SMT DEF FileType
<1>5. PICK g : g = [file EXCEPT !.count = Cardinality(Entries(c.node))]
  OBVIOUS
<1>6. g \in FileType /\ g.node = c.node /\ ~g.freed
  <2>1. Cardinality(Entries(c.node)) \in Nat
    BY FS_Subset, FS_CardinalityType DEF Entries, NamespaceAssumption
  <2> QED
    BY <1>4, <1>5, <2>1, SMT DEF FileType
<1>7. UNCHANGED <<of, childs, lastID>>
  BY DEF OpenFile
<1>8. \/ LeaveOpen(t, NULL) /\ UNCHANGED nodes
      \/ Retain(c.node) /\ LeaveOpen(t, file)
      \/ /\ Retain(c.node) /\ Go(t, [c EXCEPT !.step = "entries", !.file = g])
         /\ UNCHANGED <<files, owner>>
  BY <1>1, <1>5 DEF OpenFile, table
<1> QED
  BY <1>2, <1>4, <1>6, <1>7, <1>8, LeaveEmpty, OpenedFile, OpenedDirectory

(* A step that changes one slot and leaves the directories alone.          *)
LEMMA SlotFits ==
    ASSUME NamespaceAssumption, OneMover, NamesInv, NEW t \in Thread, NEW d \in Call, Go(t, d),
           NEW f \in Fd, NEW g \in FileType \cup {NULL},
           files' = [files EXCEPT ![of[t]][f] = g],
           UNCHANGED <<of, owner, childs, lastID>>, nodes' \in [NodeId -> NodeType \cup {NULL}],
           Live' = Live, NewParents(t), d.step \in {"idle", "delete", "release"},
           Found(t, d), KnowsNodes(t, d)
    PROVE  NamesTypes' /\ CallsOK'
<1>1. NamesTypes /\ CallsOK
  BY DEF NamesInv
<1>2. call' \in [Thread -> Call] /\ of[t] \in Process
  BY <1>1, OnlyCall DEF NamesTypes
<1>3. files' \in [Process -> [Fd -> FileType \cup {NULL}]]
  BY <1>1, <1>2, OneSlot DEF NamesTypes
<1>4. NamesTypes'
  BY <1>1, <1>2, <1>3 DEF NamesTypes
<1>5. InPlace(d)'
  BY DEF InPlace
<1>6. CallsOK'
  BY <1>1, <1>5, CallsKeep
<1> QED
  BY <1>4, <1>6

(* An open file that is not freed has a node.                              *)
LEMMA OpenHasNode ==
    ASSUME NamespaceAssumption, NamesInv, NEW t \in Thread, NEW f \in Fd,
           files[of[t]][f] \notin {NULL, Invalid}
    PROVE  /\ of[t] \in Process /\ files[of[t]][f] \in FileType
           /\ files[of[t]][f].node \in Live
BY SMT DEF NamesInv, NamesTypes, TableOK

(* The slot f of a process gets the file g.                                *)
Replaced(p, f, g) == files' = [files EXCEPT ![p][f] = g]

(* The holders of the nodes when a slot's file g is freed: the slot does   *)
(* not hold its node any more.                                             *)
LEMMA HoldersLess ==
    ASSUME NamespaceAssumption, NamesTypes, NEW p \in Process, NEW f \in Fd,
           NEW g \in FileType \cup {NULL}, NEW n, NEW m,
           ~OfNode(g, m), OfNode(files[p][f], m) <=> n = m,
           Replaced(p, f, g)
    PROVE  /\ n # m => Holders(m)' = Holders(m)
           /\ n = m => Cardinality(Holders(m)') = Cardinality(Holders(m)) - 1
<1>1. /\ (OfNode(files[p][f], m) <=> OfNode(g, m)) => Holders(m)' = Holders(m)
      /\ OfNode(files[p][f], m) /\ ~OfNode(g, m) =>
           Cardinality(Holders(m)') = Cardinality(Holders(m)) - 1
  BY HoldersChange DEF Replaced
<1> QED
  BY <1>1

(* The call that closes descriptor f, at one of its steps.                 *)
CloseCall(d, step, f, file) ==
    /\ d.op = "close" /\ d.step = step /\ d.fd = f /\ d.file = file
    /\ d.node = NULL /\ d.prev = NULL /\ d.source = NULL /\ d.target = NULL

(* ffs_fileClose() of a file frees it and gives its reference back.        *)
LEMMA ClosedFile ==
    ASSUME NamespaceAssumption, OneMover, NamesInv, NEW t \in Thread, NEW f \in Fd,
           call[t] = Idle, files[of[t]][f] \notin {NULL, Invalid}, ~files[of[t]][f].freed,
           NEW g \in FileType, g.node = files[of[t]][f].node, g.freed,
           Replaced(of[t], f, g), Release(g.node),
           NEW d \in Call, Go(t, d), CloseCall(d, "release", f, NULL),
           UNCHANGED <<of, childs, lastID, owner>>
    PROVE  NamesInv'
<1>1. PICK n : n = g.node
  OBVIOUS
<1>2. of[t] \in Process /\ n \in Live
  BY <1>1, OpenHasNode
<1>3. NamesTypes /\ TreeOK /\ CallsOK /\ TableOK /\ ReferencesExact
  BY DEF NamesInv
<1>4. PICK k \in Int : k = nodes[n].references - 1
  BY <1>2, <1>3, LiveIsNode, SMT
<1>5. nodes' = [nodes EXCEPT ![n].references = k]
  BY <1>1, <1>4 DEF Release
<1>6. /\ nodes' \in [NodeId -> NodeType \cup {NULL}]
      /\ TreeOK' /\ Live' = Live /\ NewParents(t)
      /\ \A m \in Live : nodes'[m].parent = nodes[m].parent
      /\ nodes'[n].references = k
      /\ \A m \in Live \ {n} : nodes'[m].references = nodes[m].references
  BY <1>2, <1>3, <1>5, TreeCounts
<1>7. /\ d.op = "close" /\ d.step = "release" /\ d.fd = f /\ d.file = NULL
      /\ d.node = NULL /\ d.prev = NULL /\ d.source = NULL /\ d.target = NULL
  BY DEF CloseCall
<1>8. Found(t, d) /\ KnowsNodes(t, d)
  BY <1>7 DEF Found, KnowsNodes, Known, Moving
<1>9. NamesTypes' /\ CallsOK'
  BY <1>6, <1>7, <1>8, SlotFits DEF Replaced
<1>10. TableOK'
  <2>1. d.op # "open" /\ g.node = files[of[t]][f].node /\ d.fd = f
    BY <1>1, <1>7
  <2>2. /\ g.freed <=> d.step \in {"delete", "release"}
        /\ d.step \in {"delete", "release"} => d.fd = f
        /\ d.step = "delete" => d.file.node = g.node
    BY <1>7
  <2>3. /\ call[t] = Idle /\ files[of[t]][f] \notin {NULL, Invalid} /\ ~files[of[t]][f].freed
        /\ UNCHANGED <<of, owner>>
    OBVIOUS
  <2> QED
    BY <1>3, <1>6, <2>1, <2>2, <2>3, FileTable DEF Replaced
<1>11. ReferencesExact'
  <2>1. Quiet(t, d)
    BY <1>7, IdleFits DEF Quiet, Moving
  <2>2. ASSUME NEW m \in Live
        PROVE  nodes'[m].references - nodes[m].references
                 = (Entered(nodes'[m]) - Entered(nodes[m]))
                   + (Cardinality(Holders(m)') - Cardinality(Holders(m)))
                   + (Cardinality(Openers(m)') - Cardinality(Openers(m)))
                   + (Cardinality(MovesOf(m)') - Cardinality(MovesOf(m)))
    <3>1. Openers(m)' = Openers(m) /\ MovesOf(m)' = MovesOf(m)
      BY <1>3, <2>1, QuietCounts
    <3>2. ~OfNode(g, m) /\ (OfNode(files[of[t]][f], m) <=> n = m)
      BY <1>1 DEF OfNode
    <3>3. /\ n # m => Holders(m)' = Holders(m)
          /\ n = m => Cardinality(Holders(m)') = Cardinality(Holders(m)) - 1
      <4>1. g \in FileType \cup {NULL}
        OBVIOUS
      <4>2. PICK p \in Process : p = of[t]
        BY <1>2
      <4>3. Replaced(p, f, g)
        BY <4>2 DEF Replaced
      <4>4. ~OfNode(g, m) /\ (OfNode(files[p][f], m) <=> n = m)
        BY <3>2, <4>2
      <4> QED
        BY <1>3, <4>1, <4>3, <4>4, HoldersLess
    <3>4. /\ nodes[m].references \in Int /\ Entered(nodes[m]) \in Nat
          /\ Cardinality(Holders(m)) \in Nat /\ Cardinality(Openers(m)) \in Nat
          /\ Cardinality(MovesOf(m)) \in Nat
      BY <1>3, <1>6, <1>9, Numbers
    <3>5. Entered(nodes'[m]) = Entered(nodes[m])
      BY <1>6 DEF Entered
    <3> QED
      BY <1>4, <1>6, <3>1, <3>3, <3>4, <3>5, SMT
  <2> QED
    BY <1>3, <1>6, <1>9, <2>2, CountsAgree
<1> QED
  BY <1>6, <1>9, <1>10, <1>11 DEF NamesInv

(* ffs_fileClose() of a directory frees its entries; the reference is the  *)
(* call's until vfs_fileDelete() gives it back.                            *)
LEMMA ClosedDirectory ==
    ASSUME NamespaceAssumption, OneMover, NamesInv, NEW t \in Thread, NEW f \in Fd,
           call[t] = Idle, files[of[t]][f] \notin {NULL, Invalid}, ~files[of[t]][f].freed,
           NEW g \in FileType, g.node = files[of[t]][f].node, g.freed,
           Replaced(of[t], f, g),
           NEW d \in Call, Go(t, d), CloseCall(d, "delete", f, files[of[t]][f]),
           UNCHANGED <<of, nodes, childs, lastID, owner>>
    PROVE  NamesInv'
<1>1. PICK n : n = g.node
  OBVIOUS
<1>2. of[t] \in Process /\ n \in Live
  BY <1>1, OpenHasNode
<1>3. NamesTypes /\ TreeOK /\ CallsOK /\ TableOK /\ ReferencesExact
  BY DEF NamesInv
<1>4. TreeOK' /\ Live' = Live /\ NewParents(t)
  BY <1>3, TreeStays
<1>5. nodes' \in [NodeId -> NodeType \cup {NULL}]
  BY <1>3 DEF NamesTypes
<1>6. /\ d.op = "close" /\ d.step = "delete" /\ d.fd = f /\ d.file # NULL /\ d.file.node = n
      /\ d.node = NULL /\ d.prev = NULL /\ d.source = NULL /\ d.target = NULL
  BY <1>1 DEF CloseCall
<1>7. Found(t, d) /\ KnowsNodes(t, d)
  BY <1>6 DEF Found, KnowsNodes, Known, Moving
<1>8. NamesTypes' /\ CallsOK'
  BY <1>4, <1>5, <1>6, <1>7, SlotFits DEF Replaced
<1>9. TableOK'
  <2>1. d.op # "open" /\ g.node = files[of[t]][f].node
    BY <1>1, <1>6
  <2>2. /\ g.freed <=> d.step \in {"delete", "release"}
        /\ d.step \in {"delete", "release"} => d.fd = f
        /\ d.step = "delete" => d.file.node = g.node
    BY <1>1, <1>6
  <2>3. /\ call[t] = Idle /\ files[of[t]][f] \notin {NULL, Invalid} /\ ~files[of[t]][f].freed
        /\ UNCHANGED <<of, owner>>
    OBVIOUS
  <2> QED
    BY <1>3, <1>4, <2>1, <2>2, <2>3, FileTable, ZenonT(60) DEF Replaced
<1>10. ReferencesExact'
  <2>1. Idle.file = NULL /\ Idle.step = "idle"
    BY IdleFits
  <2>2. ASSUME NEW m \in Live
        PROVE  nodes'[m].references - nodes[m].references
                 = (Entered(nodes'[m]) - Entered(nodes[m]))
                   + (Cardinality(Holders(m)') - Cardinality(Holders(m)))
                   + (Cardinality(Openers(m)') - Cardinality(Openers(m)))
                   + (Cardinality(MovesOf(m)') - Cardinality(MovesOf(m)))
    <3>1. MovesOf(m)' = MovesOf(m)
      <4>1. t \notin MovesOf(m) /\ t \notin MovesOf(m)'
        BY <1>3, <1>6, <2>1, ThreadsOf DEF Moving
      <4> QED
        BY <1>3, <4>1, ThreadsOf, ThreadsChange, SMT
    <3>2. t \notin Openers(m) /\ (t \in Openers(m)' <=> n = m)
      <4>1. /\ t \in Openers(m) <=> call[t].file # NULL /\ call[t].file.node = m
            /\ t \in Openers(m)' <=> d.file # NULL /\ d.file.node = m
        BY <1>3, ThreadsOf
      <4>2. call[t].file = NULL
        BY <2>1
      <4> QED
        BY <1>6, <4>1, <4>2
    <3>3. /\ n # m => Openers(m)' = Openers(m)
          /\ n = m => Cardinality(Openers(m)') = Cardinality(Openers(m)) + 1
      BY <1>3, <3>2, ThreadsOf, ThreadsChange, SMT
    <3>4. ~OfNode(g, m) /\ (OfNode(files[of[t]][f], m) <=> n = m)
      BY <1>1, <1>2 DEF OfNode
    <3>5. /\ n # m => Holders(m)' = Holders(m)
          /\ n = m => Cardinality(Holders(m)') = Cardinality(Holders(m)) - 1
      <4>1. g \in FileType \cup {NULL}
        OBVIOUS
      <4>2. PICK p \in Process : p = of[t]
        BY <1>2
      <4>3. Replaced(p, f, g)
        BY <4>2 DEF Replaced
      <4>4. ~OfNode(g, m) /\ (OfNode(files[p][f], m) <=> n = m)
        BY <3>4, <4>2
      <4> QED
        BY <1>3, <4>1, <4>3, <4>4, HoldersLess
    <3>6. /\ nodes[m].references \in Int /\ Entered(nodes[m]) \in Nat
          /\ Cardinality(Holders(m)) \in Nat /\ Cardinality(Openers(m)) \in Nat
          /\ Cardinality(MovesOf(m)) \in Nat
      BY <1>3, <1>4, <1>8, Numbers
    <3> QED
      BY <3>1, <3>3, <3>5, <3>6, SMT
  <2> QED
    BY <1>3, <1>4, <1>8, <2>2, CountsAgree
<1> QED
  BY <1>4, <1>8, <1>9, <1>10 DEF NamesInv

(* ffs_fileClose(), in the first of its steps.                             *)
LEMMA CloseKeeps ==
    ASSUME NamespaceAssumption, OneMover, NamesInv, NEW t \in Thread, Close(t)
    PROVE  NamesInv'
<1>1. CASE UNCHANGED <<of, nodes, childs, lastID, files, owner, call>>
  BY <1>1, NamesStutter
<1>2. CASE ~UNCHANGED <<of, nodes, childs, lastID, files, owner, call>>
  <2>1. PICK f \in Fd :
          /\ call[t] = Idle /\ files[of[t]][f] \notin {NULL, Invalid} /\ ~files[of[t]][f].freed
          /\ files' = [files EXCEPT ![of[t]][f].freed = TRUE]
          /\ \/ /\ Go(t, [Idle EXCEPT !.op = "close", !.step = "delete", !.fd = f,
                                       !.file = files[of[t]][f]])
                /\ UNCHANGED nodes
             \/ /\ Release(files[of[t]][f].node)
                /\ Go(t, [Idle EXCEPT !.op = "close", !.step = "release", !.fd = f])
          /\ UNCHANGED <<of, childs, lastID, owner>>
    BY <1>2 DEF Close, Begin, tree, table
  <2>2. PICK h : h = files[of[t]][f]
    OBVIOUS
  <2>3. of[t] \in Process /\ h \in FileType
    BY <2>1, <2>2, OpenHasNode
  <2>4. PICK g : g = [h EXCEPT !.freed = TRUE]
    OBVIOUS
  <2>5. g \in FileType /\ g.node = h.node /\ g.freed
    BY <2>3, <2>4 DEF FileType
  <2>6. Replaced(of[t], f, g)
    BY <2>1, <2>2, <2>4 DEF Replaced
  <2>7. CASE /\ Go(t, [Idle EXCEPT !.op = "close", !.step = "delete", !.fd = f, !.file = h])
             /\ UNCHANGED nodes
    <3>1. PICK d : d = [Idle EXCEPT !.op = "close", !.step = "delete", !.fd = f, !.file = h]
      OBVIOUS
    <3>2. Idle \in Call
      BY IdleFits
    <3>3. d \in Call /\ CloseCall(d, "delete", f, h)
      BY <2>3, <3>1, <3>2 DEF Call, CloseCall, Idle
    <3>4. Go(t, d)
      BY <2>7, <3>1
    <3> QED
      BY <2>1, <2>2, <2>5, <2>6, <2>7, <3>3, <3>4, ClosedDirectory, ZenonT(60)
  <2>8. CASE /\ Release(h.node)
             /\ Go(t, [Idle EXCEPT !.op = "close", !.step = "release", !.fd = f])
    <3>1. PICK d : d = [Idle EXCEPT !.op = "close", !.step = "release", !.fd = f]
      OBVIOUS
    <3>2. Idle \in Call
      BY IdleFits
    <3>3. d \in Call /\ CloseCall(d, "release", f, NULL)
      BY <3>1, <3>2 DEF Call, CloseCall, Idle
    <3>4. Go(t, d) /\ Release(g.node)
      BY <2>5, <2>8, <3>1
    <3> QED
      BY <2>1, <2>2, <2>5, <2>6, <3>3, <3>4, ClosedFile, ZenonT(60)
  <2> QED
    BY <2>1, <2>2, <2>7, <2>8
<1> QED
  BY <1>1, <1>2

(* vfs_fileDelete() gives the reference of the call back.                  *)
LEMMA DeleteKeeps ==
    ASSUME NamespaceAssumption, OneMover, NamesInv, NEW t \in Thread, DeleteFile(t)
    PROVE  NamesInv'
<1> DEFINE c == call[t]
<1>1. /\ c.step = "delete" /\ Release(c.file.node)
      /\ Go(t, [c EXCEPT !.step = "release", !.file = NULL])
      /\ UNCHANGED <<of, childs, lastID, files, owner>>
  BY DEF DeleteFile, table
<1>2. /\ c \in Call /\ Found(t, c) /\ KnowsNodes(t, c) /\ HasSlot(t, c)
      /\ c.op = "close" /\ c.file # NULL
  BY <1>1, CallOf DEF Found
<1>3. NamesTypes /\ TreeOK /\ CallsOK /\ TableOK /\ ReferencesExact
  BY DEF NamesInv
<1>4. PICK n : n = c.file.node
  OBVIOUS
<1>5. n \in Live
  <2>1. /\ c.fd \in Fd /\ files[of[t]][c.fd] # NULL /\ files[of[t]][c.fd].freed
        /\ files[of[t]][c.fd].node = n
    BY <1>1, <1>2, <1>4 DEF HasSlot
  <2>2. files[of[t]][c.fd] \notin {NULL, Invalid}
    BY <2>1, InvalidIsNone
  <2> QED
    BY <2>1, <2>2, OpenHasNode
<1>6. PICK k \in Int : k = nodes[n].references - 1
  BY <1>3, <1>5, LiveIsNode, SMT
<1>7. nodes' = [nodes EXCEPT ![n].references = k]
  BY <1>1, <1>4, <1>6 DEF Release
<1>8. /\ nodes' \in [NodeId -> NodeType \cup {NULL}]
      /\ TreeOK' /\ Live' = Live /\ NewParents(t)
      /\ \A m \in Live : nodes'[m].parent = nodes[m].parent
      /\ nodes'[n].references = k
      /\ \A m \in Live \ {n} : nodes'[m].references = nodes[m].references
  BY <1>1, <1>3, <1>5, <1>7, TreeCounts
<1>9. PICK d : d = [c EXCEPT !.step = "release", !.file = NULL]
  OBVIOUS
<1>10. d \in Call
  BY <1>2, <1>9 DEF Call
<1>11. /\ d.step = "release" /\ d.op = c.op /\ d.fd = c.fd /\ d.file = NULL /\ d.dest = c.dest
       /\ d.source = c.source /\ d.target = c.target /\ d.prev = c.prev /\ d.node = c.node
  BY <1>2, <1>9 DEF Call
<1>12. Found(t, d) /\ KnowsNodes(t, d)
  BY <1>2, <1>11 DEF Found, KnowsNodes, Moving
<1>13. Go(t, d) /\ InPlace(d)'
  BY <1>1, <1>9, <1>11 DEF InPlace
<1>14. NamesTypes'
  BY <1>1, <1>3, <1>8, <1>10, <1>13, OnlyCall DEF NamesTypes
<1>15. CallsOK'
  BY <1>3, <1>8, <1>10, <1>11, <1>12, <1>13, CallsKeep
<1>16. TableOK'
  BY <1>1, <1>2, <1>3, <1>8, <1>10, <1>11, <1>13, DeleteTable
<1>17. ReferencesExact'
  <2>1. ASSUME NEW m \in Live
        PROVE  nodes'[m].references - nodes[m].references
                 = (Entered(nodes'[m]) - Entered(nodes[m]))
                   + (Cardinality(Holders(m)') - Cardinality(Holders(m)))
                   + (Cardinality(Openers(m)') - Cardinality(Openers(m)))
                   + (Cardinality(MovesOf(m)') - Cardinality(MovesOf(m)))
    <3>1. MovesOf(m)' = MovesOf(m)
      <4>1. t \notin MovesOf(m) /\ t \notin MovesOf(m)'
        BY <1>1, <1>3, <1>10, <1>11, <1>13, ThreadsOf DEF Moving
      <4> QED
        BY <1>3, <1>10, <1>13, <4>1, ThreadsOf, ThreadsChange, SMT
    <3>2. t \notin Openers(m)' /\ (t \in Openers(m) <=> n = m)
      BY <1>2, <1>3, <1>4, <1>10, <1>11, <1>13, ThreadsOf
    <3>3. /\ n # m => Openers(m)' = Openers(m)
          /\ n = m => Cardinality(Openers(m)') = Cardinality(Openers(m)) - 1
      BY <1>3, <1>10, <1>13, <3>2, ThreadsOf, ThreadsChange, SMT
    <3>4. Holders(m)' = Holders(m)
      BY <1>1 DEF Holders, OfNode
    <3>5. /\ nodes[m].references \in Int /\ Entered(nodes[m]) \in Nat
          /\ Cardinality(Holders(m)) \in Nat /\ Cardinality(Openers(m)) \in Nat
          /\ Cardinality(MovesOf(m)) \in Nat
      BY <1>3, <1>8, <1>14, Numbers
    <3>6. Entered(nodes'[m]) = Entered(nodes[m])
      BY <1>8 DEF Entered
    <3> QED
      BY <1>6, <1>8, <3>1, <3>3, <3>4, <3>5, <3>6, SMT
  <2> QED
    BY <1>3, <1>8, <1>14, <2>1, CountsAgree
<1> QED
  BY <1>8, <1>14, <1>15, <1>16, <1>17 DEF NamesInv

(* A step that changes a slot but neither what it holds of any node nor    *)
(* the tree.                                                               *)
LEMMA SlotCounts ==
    ASSUME NamespaceAssumption, NamesInv, NEW t \in Thread, Go(t, Idle),
           call[t].file = NULL, call[t].step \notin Moving,
           NEW p \in Process, NEW f \in Fd, NEW g \in FileType \cup {NULL},
           files' = [files EXCEPT ![p][f] = g], UNCHANGED nodes,
           \A n \in Live : OfNode(files[p][f], n) <=> OfNode(g, n)
    PROVE  ReferencesExact'
<1>1. NamesTypes /\ ReferencesExact
  BY DEF NamesInv
<1>2. Idle \in Call /\ Quiet(t, Idle)
  BY IdleFits DEF Quiet, Moving
<1>3. \A n : Openers(n)' = Openers(n) /\ MovesOf(n)' = MovesOf(n)
  BY <1>1, <1>2, QuietCounts
<1>4. \A n \in Live : Holders(n)' = Holders(n)
  BY <1>1, HoldersChange
<1>5. Live' = Live
  BY DEF Live
<1>6. \A n \in Live : OpenFiles(n)' = OpenFiles(n) /\ Cardinality(MovesOf(n)') = Cardinality(MovesOf(n))
  BY <1>3, <1>4 DEF OpenFiles
<1> QED
  BY <1>1, <1>5, <1>6 DEF ReferencesExact

(* The descriptor of a freed file is released.                             *)
LEMMA ReleaseFileKeeps ==
    ASSUME NamespaceAssumption, OneMover, NamesInv, NEW t \in Thread, ReleaseFiledescriptor(t)
    PROVE  NamesInv'
<1> DEFINE c == call[t]
<1>1. /\ c.step = "release" /\ Go(t, Idle)
      /\ files' = [files EXCEPT ![of[t]][c.fd] = NULL]
      /\ UNCHANGED <<of, nodes, childs, lastID, owner>>
  BY DEF ReleaseFiledescriptor, Return, tree
<1>2. c.op = "close" /\ c.file = NULL /\ c.step \notin Moving
  BY <1>1, CallOf DEF Found, Moving
<1>3. /\ of[t] \in Process /\ c.fd \in Fd /\ files[of[t]][c.fd].freed
  BY <1>1, CallOf DEF HasSlot, NamesInv, NamesTypes
<1>4. NamesTypes /\ TreeOK /\ TableOK
  BY DEF NamesInv
<1>5. TreeOK' /\ Live' = Live /\ NewParents(t)
  BY <1>1, <1>4, TreeStays
<1>6. nodes' \in [NodeId -> NodeType \cup {NULL}]
  BY <1>1, <1>4 DEF NamesTypes
<1>7. Idle \in Call /\ Found(t, Idle) /\ KnowsNodes(t, Idle) /\ Idle.step = "idle"
  BY IdleFits
<1>8. NamesTypes' /\ CallsOK'
  BY <1>1, <1>3, <1>5, <1>6, <1>7, SlotFits
<1>9. TableOK'
  BY <1>1, <1>2, <1>4, <1>5, ReleaseTable
<1>10. \A n \in Live : OfNode(files[of[t]][c.fd], n) <=> OfNode(NULL, n)
  BY <1>3 DEF OfNode
<1>11. ReferencesExact'
  BY <1>1, <1>2, <1>3, <1>10, SlotCounts, ZenonT(60)
<1> QED
  BY <1>5, <1>8, <1>9, <1>11 DEF NamesInv

(* ffs_dirRead() moves the offset of a file only.                          *)
LEMMA ReadDirKeeps ==
    ASSUME NamespaceAssumption, OneMover, NamesInv, NEW t \in Thread, ReadDir(t)
    PROVE  NamesInv'
<1>1. CASE UNCHANGED <<of, nodes, childs, lastID, files, owner, call>>
  BY <1>1, NamesStutter
<1>2. CASE ~UNCHANGED <<of, nodes, childs, lastID, files, owner, call>>
  <2>1. PICK f \in Fd, n \in 1..2 :
          /\ call[t] = Idle /\ files[of[t]][f] \notin {NULL, Invalid} /\ ~files[of[t]][f].freed
          /\ files' = [files EXCEPT ![of[t]][f].offset =
                         @ + (IF n < files[of[t]][f].count - @ THEN n ELSE files[of[t]][f].count - @)]
          /\ UNCHANGED <<of, nodes, childs, lastID, owner, call>>
    BY <1>2 DEF ReadDir, Begin, tree, table
  <2>2. of[t] \in Process /\ files[of[t]][f] \in FileType /\ files[of[t]][f].node \in Live
    BY <2>1, OpenHasNode
  <2>3. PICK o \in Int : o = files[of[t]][f].offset
    BY <2>2 DEF FileType
  <2>4. PICK k \in Int : k = o + (IF n < files[of[t]][f].count - o THEN n ELSE files[of[t]][f].count - o)
    <3>1. PICK m \in Int : m = files[of[t]][f].count
      BY <2>2 DEF FileType
    <3>2. o + (IF n < m - o THEN n ELSE m - o) \in Int
      BY SMT
    <3> QED
      BY <3>1, <3>2
  <2>5. PICK g : g = [files[of[t]][f] EXCEPT !.offset = k]
    OBVIOUS
  <2>6. g \in FileType /\ g.node = files[of[t]][f].node /\ ~g.freed
    BY <2>1, <2>2, <2>5 DEF FileType
  <2>7. files' = [files EXCEPT ![of[t]][f] = g]
    BY <2>1, <2>3, <2>4, <2>5
  <2>8. NamesTypes /\ TreeOK /\ TableOK /\ CallsOK
    BY DEF NamesInv
  <2>9. Go(t, Idle)
    BY <2>1, <2>8 DEF Go, NamesTypes
  <2>10. TreeOK' /\ Live' = Live /\ NewParents(t)
    BY <2>1, <2>8, TreeStays
  <2>11. nodes' \in [NodeId -> NodeType \cup {NULL}]
    BY <2>1, <2>8 DEF NamesTypes
  <2>12. /\ Idle \in Call /\ Found(t, Idle) /\ KnowsNodes(t, Idle) /\ Idle.step = "idle"
         /\ Idle.op = "none" /\ Idle.file = NULL
    BY IdleFits
  <2>13. NamesTypes' /\ CallsOK'
    BY <2>1, <2>6, <2>7, <2>9, <2>10, <2>11, <2>12, SlotFits, ZenonT(60)
  <2>14. TableOK'
    <3>1. /\ Idle.op # "open"
          /\ Idle.step \in {"delete", "release"} => Idle.fd = f
          /\ Idle.step = "delete" => Idle.file.node = g.node
      BY <2>12
    <3>2. g.freed <=> Idle.step \in {"delete", "release"}
      <4>1. Idle.step \notin {"delete", "release"}
        BY <2>12
      <4> QED
        BY <2>6, <4>1
    <3>3. /\ call[t] = Idle /\ files[of[t]][f] \notin {NULL, Invalid} /\ ~files[of[t]][f].freed
          /\ UNCHANGED <<of, owner>>
      BY <2>1
    <3> QED
      BY <2>6, <2>7, <2>8, <2>9, <2>10, <2>12, <3>1, <3>2, <3>3, FileTable
  <2>15. \A m \in Live : OfNode(files[of[t]][f], m) <=> OfNode(g, m)
    BY <2>1, <2>6 DEF OfNode, NamespaceAssumption
  <2>16. ReferencesExact'
    BY <2>1, <2>2, <2>6, <2>7, <2>9, <2>12, <2>15, SlotCounts, ZenonT(60) DEF Moving
  <2> QED
    BY <2>10, <2>13, <2>14, <2>16 DEF NamesInv
<1> QED
  BY <1>1, <1>2

-----------------------------------------------------------------------------
(* One node changes.                                                       *)
LEMMA OneNode ==
    ASSUME NamespaceAssumption, NamesTypes, NEW n \in NodeId, NEW y \in NodeType,
           nodes' = [nodes EXCEPT ![n] = y]
    PROVE  /\ nodes' \in [NodeId -> NodeType \cup {NULL}]
           /\ nodes'[n] = y /\ \A m \in NodeId \ {n} : nodes'[m] = nodes[m]
           /\ Live' = Live \cup {n}
<1>1. nodes'[n] = y /\ \A m \in NodeId \ {n} : nodes'[m] = nodes[m]
  BY DEF NamesTypes
<1>2. y # NULL
  BY DEF NamespaceAssumption
<1>3. Live' = Live \cup {n}
  BY <1>1, <1>2 DEF Live
<1>4. nodes' \in [NodeId -> NodeType \cup {NULL}]
  BY DEF NamesTypes
<1> QED
  BY <1>1, <1>3, <1>4

(* A node leaves its directory, if it is in one, and may get a new name.   *)
LEMMA Detached ==
    ASSUME NamespaceAssumption, NamesTypes, TreeOK, NEW t \in Thread,
           NEW n \in Live, n # Root, NEW y \in NodeType, y.parent = NULL, y.name \in Name,
           nodes' = [nodes EXCEPT ![n] = y],
           nodes[n].parent = NULL => UNCHANGED childs,
           nodes[n].parent # NULL =>
               childs' = [childs EXCEPT ![nodes[n].parent][nodes[n].name] = NULL],
           UNCHANGED lastID
    PROVE  /\ nodes' \in [NodeId -> NodeType \cup {NULL}]
           /\ childs' \in [NodeId -> [Name -> Ref]]
           /\ nodes'[n] = y /\ \A m \in Live \ {n} : nodes'[m] = nodes[m]
           /\ TreeOK' /\ Live' = Live /\ NewParents(t)
<1>1. n \in NodeId /\ nodes[n].name \in Name /\ nodes[n].parent \in Live \cup {NULL}
  BY LiveIsNode DEF TreeOK
<1>2. Live \subseteq NodeId /\ Root \in NodeId /\ NULL \notin Live
  BY LiveIsNode, SMT DEF Root, NodeId, NamespaceAssumption
<1>3. /\ nodes' \in [NodeId -> NodeType \cup {NULL}] /\ nodes'[n] = y
      /\ \A m \in NodeId \ {n} : nodes'[m] = nodes[m]
      /\ Live' = Live
  <2>1. /\ nodes' \in [NodeId -> NodeType \cup {NULL}]
        /\ nodes'[n] = y /\ \A m \in NodeId \ {n} : nodes'[m] = nodes[m]
        /\ Live' = Live \cup {n}
    BY <1>1, OneNode
  <2> QED
    BY <2>1, SMT
<1>4. /\ childs' \in [NodeId -> [Name -> Ref]]
      /\ \A e \in NodeId, z \in Name :
            childs'[e][z] = IF e = nodes[n].parent /\ z = nodes[n].name THEN NULL ELSE childs[e][z]
  <2>1. CASE nodes[n].parent = NULL
    BY <1>2, <2>1, SMT DEF NamesTypes, NamespaceAssumption
  <2>2. CASE nodes[n].parent # NULL
    <3>1. PICK d \in NodeId, x \in Name : d = nodes[n].parent /\ x = nodes[n].name
      BY <1>1, <1>2, <2>2
    <3>2. childs' = [childs EXCEPT ![d][x] = NULL] /\ NULL \in Ref
      BY <2>2, <3>1 DEF Ref
    <3>3. /\ childs' \in [NodeId -> [Name -> Ref]] /\ childs'[d][x] = NULL
          /\ \A e \in NodeId, z \in Name : <<e, z>> # <<d, x>> => childs'[e][z] = childs[e][z]
      BY <3>2 DEF NamesTypes
    <3> QED
      BY <3>1, <3>3
  <2> QED
    BY <2>1, <2>2
<1>5. \A e \in Live, z \in Name : childs'[e][z] # n
  BY <1>2, <1>4, SMT DEF TreeOK
<1>6. \A e, m \in Live, z \in Name :
         childs'[e][z] = m <=> nodes'[m].parent = e /\ nodes'[m].name = z
  <2> SUFFICES ASSUME NEW e \in Live, NEW m \in Live, NEW z \in Name
               PROVE  childs'[e][z] = m <=> nodes'[m].parent = e /\ nodes'[m].name = z
    OBVIOUS
  <2>1. CASE m = n
    BY <1>2, <1>3, <1>5, <2>1
  <2>2. CASE m # n
    <3>1. nodes'[m] = nodes[m] /\ (childs[e][z] = m <=> nodes[m].parent = e /\ nodes[m].name = z)
      BY <1>2, <1>3, <2>2, SMT DEF TreeOK
    <3>2. CASE e = nodes[n].parent /\ z = nodes[n].name
      <4>1. childs[e][z] = n /\ childs'[e][z] = NULL
        BY <1>2, <1>4, <3>2, SMT DEF TreeOK
      <4> QED
        BY <1>2, <2>2, <3>1, <4>1
    <3>3. CASE ~(e = nodes[n].parent /\ z = nodes[n].name)
      BY <1>2, <1>4, <3>1, <3>3, SMT
    <3> QED
      BY <3>2, <3>3
  <2> QED
    BY <2>1, <2>2
<1>7. nodes'[Root] = nodes[Root]
  BY <1>2, <1>3
<1>8. \A m \in Live : /\ m # Root => nodes'[m].name \in Name
                      /\ nodes'[m].parent \in Live \cup {NULL}
  BY <1>2, <1>3 DEF TreeOK
<1>9. \A e \in NodeId, z \in Name : childs'[e][z] # NULL => e \in Live /\ childs'[e][z] \in Live
  BY <1>4, SMT DEF TreeOK
<1>10. TreeOK'
  BY <1>3, <1>6, <1>7, <1>8, <1>9 DEF TreeOK
<1>11. NewParents(t)
  BY <1>2, <1>3 DEF NewParents
<1> QED
  BY <1>2, <1>3, <1>4, <1>10, <1>11

(* A node enters a directory under a name that is free there.              *)
LEMMA Attached ==
    ASSUME NamespaceAssumption, NamesTypes, TreeOK, NEW t \in Thread,
           NEW n \in Live, n # Root, NEW d \in Live, CanAttach(nodes, childs, d, n),
           NEW y \in NodeType, y.parent = d, y.name = nodes[n].name,
           nodes' = [nodes EXCEPT ![n] = y],
           childs' = [childs EXCEPT ![d][nodes[n].name] = n],
           UNCHANGED lastID, Known(t, n), Known(t, d),
           t \in Mover \/ (call[t].step = "attach" /\ n = call[t].node)
    PROVE  /\ nodes' \in [NodeId -> NodeType \cup {NULL}]
           /\ childs' \in [NodeId -> [Name -> Ref]]
           /\ nodes'[n] = y /\ \A m \in Live \ {n} : nodes'[m] = nodes[m]
           /\ TreeOK' /\ Live' = Live /\ NewParents(t)
<1>1. n \in NodeId /\ d \in NodeId /\ n \in Ref /\ nodes[n].name \in Name
  BY LiveIsNode DEF TreeOK, Ref
<1>2. Live \subseteq NodeId /\ Root \in NodeId /\ NULL \notin Live
  BY LiveIsNode, SMT DEF Root, NodeId, NamespaceAssumption
<1>3. /\ nodes' \in [NodeId -> NodeType \cup {NULL}] /\ nodes'[n] = y
      /\ \A m \in NodeId \ {n} : nodes'[m] = nodes[m]
      /\ Live' = Live
  <2>1. /\ nodes' \in [NodeId -> NodeType \cup {NULL}]
        /\ nodes'[n] = y /\ \A m \in NodeId \ {n} : nodes'[m] = nodes[m]
        /\ Live' = Live \cup {n}
    BY <1>1, OneNode
  <2> QED
    BY <2>1
<1>4. /\ childs' \in [NodeId -> [Name -> Ref]]
      /\ childs'[d][nodes[n].name] = n
      /\ \A e \in NodeId, z \in Name :
            <<e, z>> # <<d, nodes[n].name>> => childs'[e][z] = childs[e][z]
  <2>1. PICK x \in Name : x = nodes[n].name
    BY <1>1
  <2>2. childs' = [childs EXCEPT ![d][x] = n]
    BY <2>1
  <2>3. /\ childs' \in [NodeId -> [Name -> Ref]] /\ childs'[d][x] = n
        /\ \A e \in NodeId, z \in Name : <<e, z>> # <<d, x>> => childs'[e][z] = childs[e][z]
    BY <1>1, <2>2, SMT DEF NamesTypes
  <2> QED
    BY <2>1, <2>3
<1>5. nodes[n].parent = NULL /\ childs[d][nodes[n].name] = NULL
  BY DEF CanAttach
<1>6. \A e, m \in Live, z \in Name :
         childs'[e][z] = m <=> nodes'[m].parent = e /\ nodes'[m].name = z
  <2> SUFFICES ASSUME NEW e \in Live, NEW m \in Live, NEW z \in Name
               PROVE  childs'[e][z] = m <=> nodes'[m].parent = e /\ nodes'[m].name = z
    OBVIOUS
  <2>1. childs[e][z] = m <=> nodes[m].parent = e /\ nodes[m].name = z
    BY SMT DEF TreeOK
  <2>2. CASE e = d /\ z = nodes[n].name
    BY <1>2, <1>3, <1>4, <1>5, <2>1, <2>2, SMT
  <2>3. CASE <<e, z>> # <<d, nodes[n].name>>
    <3>1. childs'[e][z] = childs[e][z]
      BY <1>2, <1>4, <2>3
    <3>2. CASE m = n
      BY <1>2, <1>3, <1>5, <2>1, <2>3, <3>1, <3>2, ZenonT(60)
    <3>3. CASE m # n
      BY <1>2, <1>3, <2>1, <3>1, <3>3
    <3> QED
      BY <3>2, <3>3
  <2> QED
    BY <2>2, <2>3
<1>7. nodes'[Root] = nodes[Root]
  BY <1>2, <1>3
<1>8. \A m \in Live : /\ m # Root => nodes'[m].name \in Name
                      /\ nodes'[m].parent \in Live \cup {NULL}
  BY <1>1, <1>2, <1>3 DEF TreeOK
<1>9. \A e \in NodeId, z \in Name : childs'[e][z] # NULL => e \in Live /\ childs'[e][z] \in Live
  BY <1>4, SMT DEF TreeOK
<1>10. TreeOK'
  BY <1>3, <1>6, <1>7, <1>8, <1>9, SMT DEF TreeOK
<1>11. NewParents(t)
  BY <1>2, <1>3 DEF NewParents
<1> QED
  BY <1>2, <1>3, <1>4, <1>10, <1>11

(* The share of a call in the references of a node that it moves.          *)
InMove(c, n) == IF c.source = n /\ c.step \in Moving THEN 1 ELSE 0

(* A step of t that changes one node.                                      *)
LEMMA NodeStep ==
    ASSUME NamespaceAssumption, OneMover, NamesInv, NEW t \in Thread, NEW d \in Call, Go(t, d),
           NEW n \in Live, nodes' \in [NodeId -> NodeType \cup {NULL}],
           \A m \in Live \ {n} : nodes'[m] = nodes[m],
           childs' \in [NodeId -> [Name -> Ref]], TreeOK', Live' = Live, NewParents(t),
           UNCHANGED <<of, lastID, files, owner>>,
           d.step \notin {"attach", "delete", "release"}, call[t].step \notin {"delete", "release"},
           d.op = "open" <=> call[t].op = "open", d.op = "open" => d.fd = call[t].fd,
           d.file = NULL, call[t].file = NULL,
           Found(t, d), KnowsNodes(t, d), InPlace(d)',
           nodes'[n].references - nodes[n].references
             = (Entered(nodes'[n]) - Entered(nodes[n])) + (InMove(d, n) - InMove(call[t], n)),
           \A m \in Live \ {n} : InMove(d, m) = InMove(call[t], m)
    PROVE  NamesInv'
<1>1. NamesTypes /\ TreeOK /\ CallsOK /\ TableOK /\ ReferencesExact
  BY DEF NamesInv
<1>2. NamesTypes'
  BY <1>1, OnlyCall DEF NamesTypes
<1>3. CallsOK'
  BY <1>1, CallsKeep
<1>4. TableOK'
  BY <1>1, TableStays
<1>5. ReferencesExact'
  <2>1. ASSUME NEW m \in Live
        PROVE  nodes'[m].references - nodes[m].references
                 = (Entered(nodes'[m]) - Entered(nodes[m]))
                   + (Cardinality(Holders(m)') - Cardinality(Holders(m)))
                   + (Cardinality(Openers(m)') - Cardinality(Openers(m)))
                   + (Cardinality(MovesOf(m)') - Cardinality(MovesOf(m)))
    <3>1. Holders(m)' = Holders(m)
      BY DEF Holders, OfNode
    <3>2. t \notin Openers(m) /\ t \notin Openers(m)'
      BY <1>1, ThreadsOf
    <3>3. Openers(m)' = Openers(m)
      BY <1>1, <3>2, ThreadsOf, ThreadsChange, SMT
    <3>4. (t \in MovesOf(m) <=> InMove(call[t], m) = 1) /\ (t \in MovesOf(m)' <=> InMove(d, m) = 1)
      BY <1>1, ThreadsOf, SMT DEF InMove
    <3>5. InMove(call[t], m) \in {0, 1} /\ InMove(d, m) \in {0, 1}
      BY DEF InMove
    <3>6. /\ nodes[m].references \in Int /\ nodes'[m].references \in Int
          /\ Entered(nodes[m]) \in Nat /\ Entered(nodes'[m]) \in Nat
          /\ Cardinality(Holders(m)) \in Nat /\ Cardinality(Openers(m)) \in Nat
          /\ Cardinality(MovesOf(m)) \in Nat
      BY <1>1, <1>2, Numbers
    <3>7. /\ (t \in MovesOf(m) <=> t \in MovesOf(m)') => MovesOf(m)' = MovesOf(m)
          /\ t \notin MovesOf(m) /\ t \in MovesOf(m)' =>
               Cardinality(MovesOf(m)') = Cardinality(MovesOf(m)) + 1
          /\ t \in MovesOf(m) /\ t \notin MovesOf(m)' =>
               Cardinality(MovesOf(m)') = Cardinality(MovesOf(m)) - 1
      BY <1>1, ThreadsOf, ThreadsChange, SMT
    <3>8. Cardinality(MovesOf(m)') = Cardinality(MovesOf(m)) + (InMove(d, m) - InMove(call[t], m))
      BY <3>4, <3>5, <3>6, <3>7, SMT
    <3>9. CASE m = n
      BY <3>1, <3>3, <3>5, <3>6, <3>8, <3>9, SMT
    <3>10. CASE m # n
      <4>1. nodes'[m] = nodes[m] /\ InMove(d, m) = InMove(call[t], m)
        BY <3>10
      <4> QED
        BY <3>1, <3>3, <3>5, <3>6, <3>8, <4>1, SMT
    <3> QED
      BY <3>9, <3>10
  <2> QED
    BY <1>1, <1>2, <2>1, CountsAgree
<1> QED
  BY <1>2, <1>3, <1>4, <1>5 DEF NamesInv

(* Facts of the idle call in the form of NodeStep.                         *)
LEMMA IdleStep ==
    ASSUME NamespaceAssumption, NEW t \in Thread
    PROVE  /\ Idle \in Call /\ Found(t, Idle) /\ KnowsNodes(t, Idle) /\ InPlace(Idle)'
           /\ Idle.step \notin {"attach", "delete", "release"} /\ Idle.op # "open" /\ Idle.file = NULL
           /\ \A n : InMove(Idle, n) = 0
<1>1. Idle.step = "idle"
  BY IdleFits
<1>2. InPlace(Idle)'
  BY DEF InPlace, Idle
<1>3. \A n : InMove(Idle, n) = 0
  BY <1>1 DEF InMove, Moving
<1> QED
  BY <1>1, <1>2, <1>3, IdleFits

(* ffs_attachNode() locks the directory, or answers that the name is taken. *)
LEMMA AttachKeeps ==
    ASSUME NamespaceAssumption, OneMover, NamesInv, NEW t \in Thread, AttachNode(t)
    PROVE  NamesInv'
<1>1. UNCHANGED <<of, nodes, childs, lastID, files, owner, call>>
  BY DEF AttachNode, Fault, tree, table
<1> QED
  BY <1>1, NamesStutter

(* The directory holds a reference to its new entry.                       *)
LEMMA InsertKeeps ==
    ASSUME NamespaceAssumption, OneMover, NamesInv, NEW t \in Thread, InsertNode(t)
    PROVE  NamesInv'
<1> DEFINE c == call[t]
<1>1. CASE UNCHANGED <<of, nodes, childs, lastID, files, owner, call>>
  BY <1>1, NamesStutter
<1>2. CASE ~UNCHANGED <<of, nodes, childs, lastID, files, owner, call>>
  <2>1. /\ c.step = "attach" /\ DirectoryAttachNode(c.target, c.node)
        /\ Go(t, IF c.op = "open" THEN [c EXCEPT !.step = "fileOpen"] ELSE Idle)
        /\ UNCHANGED <<of, lastID, files, owner>>
    BY <1>2 DEF InsertNode, Doubled, tree, table
  <2>2. /\ c \in Call /\ Found(t, c) /\ KnowsNodes(t, c)
        /\ c.node # NULL /\ c.target # NULL /\ c.file = NULL
    BY <2>1, CallOf DEF Found
  <2>3. NamesTypes /\ TreeOK /\ CallsOK
    BY DEF NamesInv
  <2>4. PICK n \in Live, p \in Live : n = c.node /\ p = c.target
    BY <2>2, CallOf
  <2>5. n # Root /\ nodes[n].parent = NULL /\ n \in NodeId /\ p \in NodeId
    BY <2>1, <2>3, <2>4, LiveIsNode DEF CallsOK, Unattached
  <2>6. PICK y : y = [nodes[n] EXCEPT !.parent = p, !.references = @ + 1]
    OBVIOUS
  <2>7. /\ y \in NodeType /\ y.parent = p /\ y.name = nodes[n].name
        /\ y.references = nodes[n].references + 1 /\ nodes[n].references \in Int
    <3>1. nodes[n] \in NodeType /\ nodes[n].references \in Int
      BY <2>3, LiveIsNode
    <3>2. nodes[n].references + 1 \in Int
      BY <3>1, SMT
    <3> QED
      BY <2>5, <2>6, <3>1, <3>2 DEF NodeType
  <2>8. /\ CanAttach(nodes, childs, p, n)
        /\ nodes' = [nodes EXCEPT ![n] = y]
        /\ childs' = [childs EXCEPT ![p][nodes[n].name] = n]
    <3>1. /\ CanAttach(nodes, childs, p, n)
          /\ nodes' = [nodes EXCEPT ![n].parent = p, ![n].references = @ + 1]
          /\ childs' = [childs EXCEPT ![p][nodes[n].name] = n]
      BY <2>1, <2>4 DEF DirectoryAttachNode
    <3>2. nodes' = [nodes EXCEPT ![n] = y]
      BY <2>3, <2>5, <2>6, <3>1 DEF NamesTypes
    <3> QED
      BY <3>1, <3>2
  <2>9. Known(t, n) /\ Known(t, p)
    BY <2>2, <2>4 DEF KnowsNodes
  <2>10. /\ nodes' \in [NodeId -> NodeType \cup {NULL}]
         /\ childs' \in [NodeId -> [Name -> Ref]]
         /\ nodes'[n] = y /\ \A m \in Live \ {n} : nodes'[m] = nodes[m]
         /\ TreeOK' /\ Live' = Live /\ NewParents(t)
    BY <2>1, <2>3, <2>4, <2>5, <2>7, <2>8, <2>9, Attached, ZenonT(60)
  <2>11. PICK d : d = IF c.op = "open" THEN [c EXCEPT !.step = "fileOpen"] ELSE Idle
    OBVIOUS
  <2>12. /\ d \in Call /\ Found(t, d) /\ KnowsNodes(t, d) /\ InPlace(d)'
         /\ d.step \notin {"attach", "delete", "release"} /\ d.step \notin Moving
         /\ d.op = "open" <=> c.op = "open"
         /\ d.op = "open" => d.fd = c.fd
         /\ d.file = NULL
    <3>1. CASE c.op # "open"
      BY <2>11, <3>1, IdleStep, IdleFits DEF Moving
    <3>2. CASE c.op = "open"
      <4>1. d = [c EXCEPT !.step = "fileOpen"]
        BY <2>11, <3>2
      <4>2. d \in Call
        BY <2>2, <4>1, SMT DEF Call
      <4>3. /\ d.step = "fileOpen" /\ d.op = c.op /\ d.fd = c.fd /\ d.file = c.file /\ d.dest = c.dest
            /\ d.source = c.source /\ d.target = c.target /\ d.prev = c.prev /\ d.node = c.node
        BY <2>2, <4>1 DEF Call
      <4>4. Found(t, d)
        BY <2>1, <2>2, <3>2, <4>3 DEF Found, Moving
      <4>5. KnowsNodes(t, d)
        BY <2>2, <4>3 DEF KnowsNodes
      <4>6. InPlace(d)'
        BY <4>3 DEF InPlace
      <4> QED
        BY <2>2, <3>2, <4>2, <4>3, <4>4, <4>5, <4>6 DEF Moving
    <3> QED
      BY <3>1, <3>2
  <2>13. \A m : InMove(d, m) = 0 /\ InMove(c, m) = 0
    BY <2>1, <2>12 DEF InMove, Moving
  <2>14. Entered(nodes'[n]) = 1 /\ Entered(nodes[n]) = 0
    BY <2>5, <2>7, <2>10, LiveIsNode, <2>3 DEF Entered
  <2>15. nodes'[n].references - nodes[n].references
           = (Entered(nodes'[n]) - Entered(nodes[n])) + (InMove(d, n) - InMove(c, n))
    BY <2>7, <2>10, <2>13, <2>14, SMT
  <2>16. Go(t, d) /\ c.step \notin {"delete", "release"} /\ \A m \in Live \ {n} : InMove(d, m) = InMove(c, m)
    BY <2>1, <2>11, <2>13
  <2> QED
    BY <2>1, <2>2, <2>10, <2>12, <2>15, <2>16, NodeStep
<1> QED
  BY <1>1, <1>2

(* A node leaves the directory it is in: the tree, and its references.     *)
LEMMA RemovedNode ==
    ASSUME NamespaceAssumption, NamesInv, NEW t \in Thread, NEW n \in Live, NEW p \in Live,
           nodes[n].parent = p,
           nodes' = Removed(nodes, p, n), childs' = RemovedEntry(childs, p, n), UNCHANGED lastID
    PROVE  /\ nodes' \in [NodeId -> NodeType \cup {NULL}]
           /\ childs' \in [NodeId -> [Name -> Ref]]
           /\ \A m \in Live \ {n} : nodes'[m] = nodes[m]
           /\ TreeOK' /\ Live' = Live /\ NewParents(t)
           /\ nodes'[n].parent = NULL
           /\ nodes[n].references \in Int /\ nodes'[n].references = nodes[n].references - 1
           /\ Entered(nodes'[n]) = 0 /\ Entered(nodes[n]) = 1
<1>1. NamesTypes /\ TreeOK
  BY DEF NamesInv
<1>2. nodes[n] \in NodeType /\ nodes[n].references \in Int /\ n \in NodeId /\ p # NULL
  BY <1>1, LiveIsNode
<1>3. n # Root /\ nodes[n].name \in Name
  BY <1>1, <1>2 DEF TreeOK
<1>4. PICK k \in Int : k = nodes[n].references - 1
  BY <1>2, SMT
<1>5. PICK y : y = [nodes[n] EXCEPT !.parent = NULL, !.references = k]
  OBVIOUS
<1>6. y \in NodeType /\ y.parent = NULL /\ y.name = nodes[n].name /\ y.references = k
  BY <1>2, <1>5 DEF NodeType
<1>7. nodes' = [nodes EXCEPT ![n] = y]
  <2>1. nodes' = [nodes EXCEPT ![n].parent = NULL, ![n].references = @ - 1]
    BY DEF Removed
  <2> QED
    BY <1>1, <1>2, <1>4, <1>5, <2>1 DEF NamesTypes
<1>8. childs' = [childs EXCEPT ![nodes[n].parent][nodes[n].name] = NULL]
  BY DEF RemovedEntry
<1>9. /\ nodes' \in [NodeId -> NodeType \cup {NULL}]
      /\ childs' \in [NodeId -> [Name -> Ref]]
      /\ nodes'[n] = y /\ \A m \in Live \ {n} : nodes'[m] = nodes[m]
      /\ TreeOK' /\ Live' = Live /\ NewParents(t)
  BY <1>1, <1>2, <1>3, <1>6, <1>7, <1>8, Detached, ZenonT(60)
<1> QED
  BY <1>2, <1>4, <1>6, <1>9 DEF Entered

(* ffs_nodeRemove(): the directory gives its reference back.               *)
LEMMA NodeRemoveKeeps ==
    ASSUME NamespaceAssumption, OneMover, NamesInv, NEW t \in Thread, NodeRemove(t)
    PROVE  NamesInv'
<1> DEFINE c == call[t]
<1>1. /\ c.step = "remove" /\ Go(t, Idle)
      /\ nodes' = Removed(nodes, c.target, c.node)
      /\ childs' = RemovedEntry(childs, c.target, c.node)
      /\ UNCHANGED <<of, lastID, files, owner>>
  BY DEF NodeRemove, Return, table
<1>2. /\ c \in Call /\ c.node # NULL /\ c.target # NULL /\ c.file = NULL /\ c.op # "open"
      /\ c.step \notin Moving
  BY <1>1, CallOf DEF Found, Moving
<1>3. PICK n \in Live, p \in Live : n = c.node /\ p = c.target
  BY <1>2, CallOf
<1>4. CASE nodes[n].parent # p
  <2>1. UNCHANGED <<nodes, childs>>
    BY <1>1, <1>3, <1>4 DEF Removed, RemovedEntry
  <2>2. Quiet(t, Idle)
    BY <1>2, IdleFits DEF Quiet, Moving
  <2> QED
    BY <1>1, <1>2, <2>1, <2>2, IdleFits, CallOnly
<1>5. CASE nodes[n].parent = p
  <2>1. nodes' = Removed(nodes, p, n) /\ childs' = RemovedEntry(childs, p, n)
    BY <1>1, <1>3
  <2>2. /\ nodes' \in [NodeId -> NodeType \cup {NULL}]
        /\ childs' \in [NodeId -> [Name -> Ref]]
        /\ \A m \in Live \ {n} : nodes'[m] = nodes[m]
        /\ TreeOK' /\ Live' = Live /\ NewParents(t)
        /\ nodes[n].references \in Int /\ nodes'[n].references = nodes[n].references - 1
        /\ Entered(nodes'[n]) = 0 /\ Entered(nodes[n]) = 1
    BY <1>1, <1>5, <2>1, RemovedNode
  <2>3. \A m : InMove(Idle, m) = 0 /\ InMove(c, m) = 0
    BY <1>2, IdleStep DEF InMove
  <2>4. nodes'[n].references - nodes[n].references
          = (Entered(nodes'[n]) - Entered(nodes[n])) + (InMove(Idle, n) - InMove(c, n))
    BY <2>2, <2>3, SMT
  <2>5. \A m \in Live \ {n} : InMove(Idle, m) = InMove(c, m)
    BY <2>3
  <2> QED
    BY <1>1, <1>2, <2>2, <2>4, <2>5, IdleStep, NodeStep
<1> QED
  BY <1>4, <1>5

(* ffs_nodeMove() holds a reference to the node it moves.                  *)
LEMMA MoveRetainKeeps ==
    ASSUME NamespaceAssumption, OneMover, NamesInv, NEW t \in Thread, MoveRetain(t)
    PROVE  NamesInv'
<1> DEFINE c == call[t]
<1>1. CASE UNCHANGED <<of, nodes, childs, lastID, files, owner, call>>
  BY <1>1, NamesStutter
<1>2. CASE ~UNCHANGED <<of, nodes, childs, lastID, files, owner, call>>
  <2>1. /\ c.step = "retain" /\ nodes[c.source].parent # NULL /\ Retain(c.source)
        /\ Go(t, [c EXCEPT !.step = "replace", !.prev = nodes[c.source].parent])
        /\ UNCHANGED <<of, childs, lastID, files, owner>>
    BY <1>2 DEF MoveRetain, Fault, tree, table
  <2>2. /\ c \in Call /\ Found(t, c) /\ KnowsNodes(t, c)
        /\ c.source # NULL /\ c.target # NULL /\ c.file = NULL /\ t \in Mover
    BY <2>1, CallOf DEF Found
  <2>3. NamesTypes /\ TreeOK
    BY DEF NamesInv
  <2>4. PICK n \in Live : n = c.source
    BY <2>2, CallOf
  <2>5. PICK p \in Live : p = nodes[n].parent
    BY <2>1, <2>3, <2>4 DEF TreeOK
  <2>6. /\ n # Root /\ p # NULL /\ p \in Ref /\ Known(t, p)
    BY <2>1, <2>3, <2>4, <2>5, LiveIsNode, KnownPlaces DEF TreeOK, Ref
  <2>7. PICK d : d = [c EXCEPT !.step = "replace", !.prev = p]
    OBVIOUS
  <2>8. d \in Call
    BY <2>2, <2>6, <2>7, ZenonT(60) DEF Call, Moving
  <2>9. /\ d.step = "replace" /\ d.op = c.op /\ d.fd = c.fd /\ d.file = c.file /\ d.dest = c.dest
        /\ d.source = c.source /\ d.target = c.target /\ d.prev = p /\ d.node = c.node
    BY <2>2, <2>7 DEF Call
  <2>10. Found(t, d)
    BY <2>1, <2>2, <2>4, <2>6, <2>9 DEF Found, Moving
  <2>11. KnowsNodes(t, d) /\ InPlace(d)
    BY <2>2, <2>4, <2>5, <2>6, <2>9 DEF KnowsNodes, InPlace
  <2>12. PICK k \in Int : k = nodes[n].references + 1 /\ nodes[n].references \in Int
    BY <2>3, LiveIsNode, SMT
  <2>13. nodes' = [nodes EXCEPT ![n].references = k] /\ Go(t, d)
    BY <2>1, <2>4, <2>5, <2>7, <2>12 DEF Retain
  <2>14. /\ nodes' \in [NodeId -> NodeType \cup {NULL}]
         /\ TreeOK' /\ Live' = Live /\ NewParents(t)
         /\ \A m \in Live : nodes'[m].parent = nodes[m].parent
         /\ nodes'[n].references = k
    BY <2>1, <2>3, <2>13, TreeCounts
  <2>15. \A m \in Live \ {n} : nodes'[m] = nodes[m]
    BY <2>3, <2>13 DEF NamesTypes, Live
  <2>16. childs' \in [NodeId -> [Name -> Ref]]
    BY <2>1, <2>3 DEF NamesTypes
  <2>17. InPlace(d)'
    BY <2>4, <2>5, <2>9, <2>14 DEF InPlace
  <2>18. /\ InMove(d, n) = 1 /\ InMove(c, n) = 0
         /\ \A m \in Live \ {n} : InMove(d, m) = InMove(c, m)
    BY <2>1, <2>4, <2>9 DEF InMove, Moving
  <2>19. Entered(nodes'[n]) = Entered(nodes[n]) /\ Entered(nodes[n]) \in Nat
    BY <2>14 DEF Entered
  <2>20. nodes'[n].references - nodes[n].references
           = (Entered(nodes'[n]) - Entered(nodes[n])) + (InMove(d, n) - InMove(c, n))
    BY <2>12, <2>14, <2>18, <2>19, SMT
  <2>21. /\ d.step \notin {"attach", "delete", "release"} /\ c.step \notin {"delete", "release"}
         /\ d.op = "open" <=> c.op = "open" 
         /\ d.op = "open" => d.fd = c.fd
         /\ d.file = NULL
    BY <2>1, <2>2, <2>9
  <2> QED
    BY <2>1, <2>2, <2>8, <2>10, <2>11, <2>13, <2>14, <2>15, <2>16, <2>17, <2>18, <2>20, <2>21, NodeStep
<1> QED
  BY <1>1, <1>2

(* The name that a moved node gets is a name.                              *)
LEMMA NamedAnew ==
    ASSUME NamespaceAssumption, NamesInv, NEW t \in Thread, call[t].step \in Moving
    PROVE  /\ call[t].source \in Live /\ call[t].source # Root /\ NewName(call[t]) \in Name
           /\ call[t].target \in Live /\ call[t].prev \in Live
           /\ call[t].op = "move" /\ call[t].file = NULL /\ t \in Mover
<1> DEFINE c == call[t]
<1>1. /\ c \in Call /\ c.source # NULL /\ c.source # Root /\ c.target # NULL /\ c.prev # NULL
      /\ c.op = "move" /\ c.file = NULL /\ t \in Mover
  BY CallOf DEF Found, Moving
<1>2. c.source \in Live /\ c.target \in Live /\ c.prev \in Live
  BY <1>1, CallOf
<1>3. nodes[c.source].name \in Name
  BY <1>1, <1>2 DEF NamesInv, TreeOK
<1>4. c.name \in Name \cup {NULL}
  BY <1>1 DEF Call
<1> QED
  BY <1>1, <1>2, <1>3, <1>4 DEF NewName

(* The next step of a move finds what it needs.                            *)
LEMMA MovesOn ==
    ASSUME NamespaceAssumption, NamesInv, NEW t \in Thread, call[t].step \in Moving,
           NEW d \in Call, d.step \in {"rename", "reattach", "reinsert"}, d.op = call[t].op,
           d.file = call[t].file, d.dest = call[t].dest, d.node = call[t].node,
           d.source = call[t].source, d.target = call[t].target, d.prev = call[t].prev
    PROVE  /\ Found(t, d) /\ KnowsNodes(t, d)
           /\ d.op = "move" /\ d.file = NULL
           /\ \A n : InMove(d, n) = InMove(call[t], n)
<1> DEFINE c == call[t]
<1>1. /\ c \in Call /\ Found(t, c) /\ KnowsNodes(t, c)
  BY CallOf
<1>2. c.op = "move" /\ c.file = NULL /\ t \in Mover
  BY NamedAnew
<1>3. Found(t, d)
  BY <1>1, <1>2 DEF Found, Moving
<1>4. KnowsNodes(t, d)
  BY <1>1 DEF KnowsNodes
<1>5. \A n : InMove(d, n) = InMove(c, n)
  BY DEF InMove, Moving
<1> QED
  BY <1>2, <1>3, <1>4, <1>5

(* A move that is given up releases its node.                              *)
LEMMA GivenUp ==
    ASSUME NamespaceAssumption, OneMover, NamesInv, NEW t \in Thread, call[t].step \in Moving,
           Release(call[t].source), Go(t, Idle), UNCHANGED <<of, childs, lastID, files, owner>>
    PROVE  NamesInv'
<1> DEFINE c == call[t]
<1>1. NamesTypes /\ TreeOK /\ c.op = "move" /\ c.file = NULL /\ c.step \notin {"delete", "release"}
  BY NamedAnew DEF NamesInv, Moving
<1>2. PICK n \in Live : n = c.source
  BY NamedAnew
<1>3. PICK k \in Int : k = nodes[n].references - 1 /\ nodes[n].references \in Int
  <2>1. nodes[n].references \in Int
    BY <1>1, LiveIsNode
  <2> QED
    BY <2>1, SMT
<1>4. nodes' = [nodes EXCEPT ![n].references = k]
  BY <1>2, <1>3 DEF Release
<1>5. /\ nodes' \in [NodeId -> NodeType \cup {NULL}]
      /\ TreeOK' /\ Live' = Live /\ NewParents(t)
      /\ \A m \in Live : nodes'[m].parent = nodes[m].parent
      /\ nodes'[n].references = k
  BY <1>1, <1>4, TreeCounts
<1>6. \A m \in Live \ {n} : nodes'[m] = nodes[m]
  BY <1>1, <1>4 DEF NamesTypes, Live
<1>7. childs' \in [NodeId -> [Name -> Ref]]
  BY <1>1 DEF NamesTypes
<1>8. /\ InMove(c, n) = 1 /\ \A m \in Live \ {n} : InMove(c, m) = 0
      /\ \A m : InMove(Idle, m) = 0
  BY <1>2, IdleStep DEF InMove
<1>9. Entered(nodes'[n]) = Entered(nodes[n]) /\ Entered(nodes[n]) \in Nat
  BY <1>5 DEF Entered
<1>10. nodes'[n].references - nodes[n].references
         = (Entered(nodes'[n]) - Entered(nodes[n])) + (InMove(Idle, n) - InMove(c, n))
  BY <1>3, <1>5, <1>8, <1>9, SMT
<1>11. \A m \in Live \ {n} : InMove(Idle, m) = InMove(c, m)
  BY <1>8
<1> QED
  BY <1>1, <1>5, <1>6, <1>7, <1>10, <1>11, IdleStep, NodeStep, ZenonT(60)

(* The entry that a move replaces leaves its directory.                    *)
LEMMA MoveReplaceKeeps ==
    ASSUME NamespaceAssumption, OneMover, NamesInv, NEW t \in Thread, MoveReplace(t)
    PROVE  NamesInv'
<1> DEFINE c == call[t]
<1>1. CASE UNCHANGED <<of, nodes, childs, lastID, files, owner, call>>
  BY <1>1, NamesStutter
<1>2. CASE ~UNCHANGED <<of, nodes, childs, lastID, files, owner, call>>
  <2>1. c.step = "replace" /\ c.step \in Moving
    BY DEF MoveReplace, Moving
  <2>2. PICK d : d = [c EXCEPT !.step = "rename"]
    OBVIOUS
  <2>3. PICK e : e = childs[c.target][NewName(c)]
    OBVIOUS
  <2>4. /\ UNCHANGED <<of, lastID, files, owner>>
        /\ \/ Go(t, d) /\ UNCHANGED <<nodes, childs>>
           \/ Release(c.source) /\ Go(t, Idle) /\ UNCHANGED childs
           \/ /\ e # NULL /\ Go(t, d)
              /\ nodes' = Removed(nodes, c.target, e)
              /\ childs' = RemovedEntry(childs, c.target, e)
    BY <1>2, <2>2, <2>3 DEF MoveReplace, Fault, Return, tree, table
  <2>5. /\ d \in Call /\ Found(t, d) /\ KnowsNodes(t, d)
        /\ d.step = "rename" /\ d.op = "move" /\ d.file = NULL
        /\ d.source = c.source /\ d.target = c.target /\ d.prev = c.prev
        /\ \A n : InMove(d, n) = InMove(c, n)
    <3>1. d \in Call
      BY <2>2, CallOf, SMT DEF Call, Moving
    <3>2. /\ d.step = "rename" /\ d.op = c.op /\ d.file = c.file /\ d.dest = c.dest
          /\ d.node = c.node
          /\ d.source = c.source /\ d.target = c.target /\ d.prev = c.prev
      BY <2>2, CallOf DEF Call
    <3> QED
      BY <2>1, <3>1, <3>2, MovesOn
  <2>6. /\ c.source \in Live /\ NewName(c) \in Name /\ c.target \in Live
        /\ c.op = "move" /\ c.file = NULL /\ InPlace(c)
    BY <2>1, NamedAnew, CallOf
  <2>7. InPlace(d)
    BY <2>1, <2>5, <2>6 DEF InPlace
  <2>8. CASE Go(t, d) /\ UNCHANGED <<nodes, childs>>
    <3>1. Quiet(t, d)
      BY <2>1, <2>5, <2>6 DEF Quiet, Moving
    <3> QED
      BY <2>1, <2>4, <2>5, <2>6, <2>7, <2>8, <3>1, CallOnly
  <2>9. CASE Release(c.source) /\ Go(t, Idle) /\ UNCHANGED childs
    BY <2>1, <2>4, <2>9, GivenUp
  <2>10. CASE /\ e # NULL /\ Go(t, d)
              /\ nodes' = Removed(nodes, c.target, e)
              /\ childs' = RemovedEntry(childs, c.target, e)
    <3>1. NamesTypes /\ TreeOK
      BY DEF NamesInv
    <3>2. PICK n \in Live, p \in Live : n = e /\ p = c.target /\ nodes[n].parent = p
      <4>1. c.target \in NodeId /\ e \in Live
        BY <2>3, <2>6, <2>10, <3>1, LiveIsNode DEF TreeOK
      <4>2. nodes[e].parent = c.target
        BY <2>3, <2>6, <3>1, <4>1, SMT DEF TreeOK
      <4> QED
        BY <2>6, <4>1, <4>2
    <3>3. nodes' = Removed(nodes, p, n) /\ childs' = RemovedEntry(childs, p, n)
      BY <2>10, <3>2
    <3>4. /\ nodes' \in [NodeId -> NodeType \cup {NULL}]
          /\ childs' \in [NodeId -> [Name -> Ref]]
          /\ \A m \in Live \ {n} : nodes'[m] = nodes[m]
          /\ TreeOK' /\ Live' = Live /\ NewParents(t)
          /\ nodes'[n].parent = NULL
          /\ nodes[n].references \in Int /\ nodes'[n].references = nodes[n].references - 1
          /\ Entered(nodes'[n]) = 0 /\ Entered(nodes[n]) = 1
      BY <2>4, <3>2, <3>3, RemovedNode
    <3>5. InPlace(d)'
      BY <2>5, <2>6, <2>7, <3>4 DEF InPlace
    <3>6. InMove(d, n) = InMove(c, n) /\ InMove(c, n) \in Nat
      BY <2>5 DEF InMove
    <3>7. nodes'[n].references - nodes[n].references
            = (Entered(nodes'[n]) - Entered(nodes[n])) + (InMove(d, n) - InMove(c, n))
      BY <3>4, <3>6, SMT
    <3>8. \A m \in Live \ {n} : InMove(d, m) = InMove(c, m)
      BY <2>5
    <3> QED
      BY <2>1, <2>4, <2>5, <2>6, <2>10, <3>4, <3>5, <3>7, <3>8, NodeStep, ZenonT(60)
  <2> QED
    BY <2>4, <2>8, <2>9, <2>10
<1> QED
  BY <1>1, <1>2

(* The moved node leaves its directory, and has its new name.              *)
LEMMA MoveRenameKeeps ==
    ASSUME NamespaceAssumption, OneMover, NamesInv, NEW t \in Thread, MoveRename(t)
    PROVE  NamesInv'
<1> DEFINE c == call[t]
<1>1. c.step = "rename" /\ c.step \in Moving
  BY DEF MoveRename, Moving
<1>2. PICK d : d = [c EXCEPT !.step = "reattach"]
  OBVIOUS
<1>3. /\ d \in Call /\ Found(t, d) /\ KnowsNodes(t, d)
      /\ d.step = "reattach" /\ d.op = "move" /\ d.file = NULL
      /\ d.source = c.source /\ d.target = c.target /\ d.prev = c.prev
      /\ \A m : InMove(d, m) = InMove(c, m)
  <2>1. d \in Call
    BY <1>2, CallOf, SMT DEF Call, Moving
  <2>2. /\ d.step = "reattach" /\ d.op = c.op /\ d.file = c.file /\ d.dest = c.dest
        /\ d.node = c.node
        /\ d.source = c.source /\ d.target = c.target /\ d.prev = c.prev
    BY <1>2, CallOf DEF Call
  <2> QED
    BY <1>1, <2>1, <2>2, MovesOn
<1>4. PICK n \in Live, p \in Live, x \in Name :
        /\ n = c.source /\ p = c.prev /\ x = NewName(c) /\ n # Root
        /\ c.op = "move" /\ c.file = NULL
  BY <1>1, NamedAnew
<1>5. /\ UNCHANGED <<of, lastID, files, owner>> /\ Go(t, d)
      /\ nodes' = [Removed(nodes, p, n) EXCEPT ![n].name = x]
      /\ childs' = RemovedEntry(childs, p, n)
  BY <1>2, <1>4 DEF MoveRename, table
<1>6. NamesTypes /\ TreeOK
  BY DEF NamesInv
<1>7. nodes[n] \in NodeType /\ nodes[n].references \in Int /\ n \in NodeId /\ p # NULL
  BY <1>6, LiveIsNode
<1>8. nodes[n].parent \in {p, NULL}
  BY <1>1, <1>4, CallOf DEF InPlace
<1>9. PICK k \in Int : k = nodes[n].references - Entered(nodes[n])
  BY <1>7, SMT DEF Entered
<1>10. PICK y : y = [nodes[n] EXCEPT !.parent = NULL, !.name = x, !.references = k]
  OBVIOUS
<1>11. y \in NodeType /\ y.parent = NULL /\ y.name = x /\ y.references = k
  BY <1>7, <1>10 DEF NodeType
<1>12. /\ nodes' = [nodes EXCEPT ![n] = y]
       /\ nodes[n].parent = NULL => UNCHANGED childs
       /\ nodes[n].parent # NULL =>
              childs' = [childs EXCEPT ![nodes[n].parent][nodes[n].name] = NULL]
  <2>1. CASE nodes[n].parent = NULL
    <3>1. k = nodes[n].references
      BY <1>7, <1>9, <2>1, SMT DEF Entered
    <3>2. y = [nodes[n] EXCEPT !.name = x]
      BY <1>7, <1>10, <2>1, <3>1 DEF NodeType
    <3>3. nodes' = [nodes EXCEPT ![n].name = x] /\ UNCHANGED childs
      BY <1>5, <1>7, <2>1 DEF Removed, RemovedEntry
    <3> QED
      BY <1>6, <1>7, <2>1, <3>2, <3>3 DEF NamesTypes
  <2>2. CASE nodes[n].parent # NULL
    <3>1. nodes[n].parent = p /\ k = nodes[n].references - 1
      BY <1>7, <1>8, <1>9, <2>2 DEF Entered
    <3>2. /\ nodes' = [[nodes EXCEPT ![n].parent = NULL, ![n].references = @ - 1] EXCEPT ![n].name = x]
          /\ childs' = [childs EXCEPT ![p][nodes[n].name] = NULL]
      BY <1>5, <3>1 DEF Removed, RemovedEntry
    <3>3. nodes' = [nodes EXCEPT ![n] =
                      [[nodes[n] EXCEPT !.parent = NULL, !.references = k] EXCEPT !.name = x]]
      BY <1>6, <1>7, <3>1, <3>2 DEF NamesTypes
    <3>4. y = [[nodes[n] EXCEPT !.parent = NULL, !.references = k] EXCEPT !.name = x]
      BY <1>7, <1>10 DEF NodeType
    <3> QED
      BY <2>2, <3>1, <3>2, <3>3, <3>4
  <2> QED
    BY <2>1, <2>2
<1>13. /\ nodes' \in [NodeId -> NodeType \cup {NULL}]
       /\ childs' \in [NodeId -> [Name -> Ref]]
       /\ nodes'[n] = y /\ \A m \in Live \ {n} : nodes'[m] = nodes[m]
       /\ TreeOK' /\ Live' = Live /\ NewParents(t)
  <2>1. /\ n # Root
        /\ y.name \in Name
        /\ UNCHANGED lastID
    BY <1>4, <1>5, <1>11
  <2> QED
    BY <1>6, <1>11, <1>12, <2>1, Detached
<1>14. Entered(nodes'[n]) = 0 /\ Entered(nodes[n]) \in Nat
  BY <1>11, <1>13 DEF Entered
<1>15. InMove(d, n) = InMove(c, n) /\ InMove(c, n) \in Nat
  BY <1>3 DEF InMove
<1>16. nodes'[n].references - nodes[n].references
         = (Entered(nodes'[n]) - Entered(nodes[n])) + (InMove(d, n) - InMove(c, n))
  BY <1>7, <1>9, <1>11, <1>13, <1>14, <1>15, SMT
<1>17. InPlace(d)'
  BY <1>3 DEF InPlace
<1> QED
  <2>1. /\ d.step \notin {"attach", "delete", "release"} /\ c.step \notin {"delete", "release"}
        /\ d.op = "open" <=> c.op = "open"
        /\ d.op = "open" => d.fd = c.fd
        /\ d.file = NULL /\ c.file = NULL
    BY <1>1, <1>4, <1>3
  <2>2. \A m \in Live \ {n} : InMove(d, m) = InMove(c, m)
    BY <1>3
  <2> QED
    BY <1>5, <1>3, <1>13, <1>16, <1>17, <2>1, <2>2, NodeStep

(* The name of a move is looked up: it is free, or the move is given up.   *)
LEMMA MoveAttachKeeps ==
    ASSUME NamespaceAssumption, OneMover, NamesInv, NEW t \in Thread, MoveAttach(t)
    PROVE  NamesInv'
<1> DEFINE c == call[t]
<1>1. c.step = "reattach" /\ c.step \in Moving
  BY DEF MoveAttach, Moving
<1>2. CASE ~CanAttach(nodes, childs, c.target, c.source)
  BY <1>1, <1>2, GivenUp DEF MoveAttach, Return, table
<1>3. CASE CanAttach(nodes, childs, c.target, c.source)
  <2>1. PICK d : d = [c EXCEPT !.step = "reinsert"]
    OBVIOUS
  <2>2. c \in Call /\ c.op = "move" /\ c.file = NULL
    BY <1>1, CallOf, NamedAnew
  <2>3. d \in Call
    BY <2>1, <2>2, SMT DEF Call, Moving
  <2>4. /\ d.step = "reinsert" /\ d.op = c.op /\ d.file = c.file /\ d.dest = c.dest
        /\ d.node = c.node /\ d.fd = c.fd
        /\ d.source = c.source /\ d.target = c.target /\ d.prev = c.prev
    BY <2>1, <2>2 DEF Call
  <2>5. Found(t, d) /\ KnowsNodes(t, d) /\ d.op = "move" /\ d.file = NULL
    BY <1>1, <2>3, <2>4, MovesOn
  <2>6. Go(t, d) /\ UNCHANGED <<of, nodes, childs, lastID, files, owner>>
    BY <1>3, <2>1 DEF MoveAttach, table
  <2>7. Quiet(t, d) /\ InPlace(d)
    BY <1>1, <2>2, <2>4 DEF Quiet, InPlace, Moving
  <2>8. /\ d.step \notin {"attach", "delete", "release"} /\ c.step \notin {"delete", "release"}
        /\ d.op # "open" /\ c.op # "open"
    BY <1>1, <2>2, <2>4, <2>5
  <2> QED
    BY <2>3, <2>5, <2>6, <2>7, <2>8, CallOnly
<1> QED
  BY <1>2, <1>3

(* The move's reference becomes that of the directory.                     *)
LEMMA MoveInsertKeeps ==
    ASSUME NamespaceAssumption, OneMover, NamesInv, NEW t \in Thread, MoveInsert(t)
    PROVE  NamesInv'
<1> DEFINE c == call[t]
<1>1. c.step = "reinsert" /\ c.step \in Moving
  BY DEF MoveInsert, Moving
<1>2. CASE ~CanAttach(nodes, childs, c.target, c.source)
  BY <1>2, NamesStutter DEF MoveInsert, Doubled, tree, table
<1>3. CASE CanAttach(nodes, childs, c.target, c.source)
  <2>1. PICK n \in Live, p \in Live :
          /\ n = c.source /\ p = c.target /\ n # Root
          /\ c.op = "move" /\ c.file = NULL /\ t \in Mover
    BY <1>1, NamedAnew
  <2>2. /\ UNCHANGED <<of, lastID, files, owner>> /\ Go(t, Idle)
        /\ CanAttach(nodes, childs, p, n)
        /\ childs' = [childs EXCEPT ![p][nodes[n].name] = n]
        /\ nodes' = [nodes EXCEPT ![n].parent = p]
    BY <1>3, <2>1 DEF MoveInsert, Return, table
  <2>3. NamesTypes /\ TreeOK
    BY DEF NamesInv
  <2>4. nodes[n] \in NodeType /\ nodes[n].references \in Int /\ n \in NodeId /\ p \in NodeId /\ p # NULL
    BY <2>3, LiveIsNode
  <2>5. PICK y : y = [nodes[n] EXCEPT !.parent = p]
    OBVIOUS
  <2>6. /\ y \in NodeType /\ y.parent = p /\ y.name = nodes[n].name
        /\ y.references = nodes[n].references
    BY <2>4, <2>5 DEF NodeType
  <2>7. nodes' = [nodes EXCEPT ![n] = y]
    BY <2>2, <2>5
  <2>8. Known(t, n) /\ Known(t, p)
    BY <2>1, CallOf DEF KnowsNodes
  <2>9. /\ nodes' \in [NodeId -> NodeType \cup {NULL}]
        /\ childs' \in [NodeId -> [Name -> Ref]]
        /\ nodes'[n] = y /\ \A m \in Live \ {n} : nodes'[m] = nodes[m]
        /\ TreeOK' /\ Live' = Live /\ NewParents(t)
    <3>1. UNCHANGED lastID /\ n # Root /\ t \in Mover
      BY <2>1, <2>2
    <3> QED
      BY <2>2, <2>3, <2>6, <2>7, <2>8, <3>1, Attached
  <2>10. Entered(nodes'[n]) = 1 /\ Entered(nodes[n]) = 0
    BY <2>2, <2>4, <2>6, <2>9 DEF Entered, CanAttach
  <2>11. /\ InMove(c, n) = 1 /\ \A m \in Live \ {n} : InMove(c, m) = 0
         /\ \A m : InMove(Idle, m) = 0
    BY <1>1, <2>1, IdleStep DEF InMove
  <2>12. nodes'[n].references - nodes[n].references
           = (Entered(nodes'[n]) - Entered(nodes[n])) + (InMove(Idle, n) - InMove(c, n))
    BY <2>4, <2>6, <2>9, <2>10, <2>11, SMT
  <2>13. \A m \in Live \ {n} : InMove(Idle, m) = InMove(c, m)
    BY <2>11
  <2> QED
    BY <1>1, <2>1, <2>2, <2>9, <2>12, <2>13, IdleStep, NodeStep
<1> QED
  BY <1>2, <1>3

(* A node that was created is in no directory, and no one has it open.     *)
LEMMA CreatedTree ==
    ASSUME NamespaceAssumption, NamesInv, NEW y \in NodeType, y.parent = NULL, y.name \in Name,
           lastID < MaxNodes, nodes' = [nodes EXCEPT ![lastID] = y],
           lastID' = lastID + 1, UNCHANGED childs
    PROVE  /\ nodes' \in [NodeId -> NodeType \cup {NULL}] /\ lastID' \in 1..MaxNodes
           /\ lastID \in NodeId /\ lastID # NULL /\ lastID # Root /\ lastID \notin Live
           /\ Live' = Live \cup {lastID} /\ nodes'[lastID] = y
           /\ \A m \in Live : nodes'[m] = nodes[m]
           /\ TreeOK'
<1>1. NamesTypes /\ TreeOK
  BY DEF NamesInv
<1>2. lastID \in 1..MaxNodes /\ MaxNodes \in Nat
  BY <1>1 DEF NamesTypes, NamespaceAssumption
<1>3. lastID \in NodeId /\ lastID # Root /\ lastID' \in 1..MaxNodes
  BY <1>2, SMT DEF NodeId, Root
<1>4. lastID # NULL /\ y # NULL
  BY <1>3 DEF NamespaceAssumption
<1>5. lastID \notin Live
  BY <1>1, <1>2, <1>3, SMT DEF TreeOK
<1>6. /\ nodes' \in [NodeId -> NodeType \cup {NULL}]
      /\ nodes'[lastID] = y
      /\ \A m \in NodeId \ {lastID} : nodes'[m] = nodes[m]
  BY <1>1, <1>3 DEF NamesTypes
<1>7. Live' = Live \cup {lastID}
  BY <1>3, <1>4, <1>6 DEF Live
<1>8. \A m \in Live : nodes'[m] = nodes[m] /\ m \in NodeId
  BY <1>5, <1>6 DEF Live
<1>9. \A n \in NodeId : n \in Live' <=> n < lastID'
  <2>1. \A n \in NodeId : n \in Nat
    BY SMT DEF NodeId
  <2>2. \A n \in NodeId : n \in Live <=> n < lastID
    BY <1>1 DEF TreeOK
  <2> QED
    BY <1>2, <1>3, <1>7, <2>1, <2>2, SMT
<1>10. nodes'[Root].parent = NULL
  <2>1. Root \in Live
    BY <1>1, <1>2, SMT DEF TreeOK, NodeId, Root
  <2> QED
    BY <1>1, <1>8, <2>1 DEF TreeOK
<1>11. \A n \in Live' : /\ n # Root => nodes'[n].name \in Name
                        /\ nodes'[n].parent \in Live' \cup {NULL}
  <2>1. \A n \in Live : /\ n # Root => nodes[n].name \in Name
                        /\ nodes[n].parent \in Live \cup {NULL}
    BY <1>1 DEF TreeOK
  <2> QED
    BY <1>6, <1>7, <1>8, <2>1
<1>12. \A d \in NodeId, x \in Name : childs[d][x] # NULL => d \in Live /\ childs[d][x] \in Live
  BY <1>1 DEF TreeOK
<1>13. ASSUME NEW d \in Live', NEW n \in Live', NEW x \in Name
       PROVE  childs[d][x] = n <=> nodes'[n].parent = d /\ nodes'[n].name = x
  <2>1. d \in NodeId /\ d # NULL /\ n # NULL
    BY <1>1, <1>3, <1>4, <1>7, LiveIsNode
  <2>2. CASE n = lastID
    BY <1>5, <1>6, <1>12, <2>1, <2>2
  <2>3. CASE n # lastID /\ d = lastID
    <3>1. n \in Live /\ nodes'[n] = nodes[n] /\ nodes[n].parent \in Live \cup {NULL}
      BY <1>1, <1>7, <1>8, <2>3 DEF TreeOK
    <3> QED
      BY <1>5, <1>12, <2>1, <2>3, <3>1
  <2>4. CASE n # lastID /\ d # lastID
    <3>1. n \in Live /\ nodes'[n] = nodes[n] /\ d \in Live
      BY <1>7, <1>8, <2>4
    <3> QED
      BY <1>1, <3>1, SMT DEF TreeOK
  <2> QED
    BY <2>2, <2>3, <2>4
<1>14. \A d \in NodeId, x \in Name :
         childs'[d][x] # NULL => d \in Live' /\ childs'[d][x] \in Live'
  BY <1>7, <1>12
<1>15. TreeOK'
  BY <1>9, <1>10, <1>11, <1>13, <1>14, SMT DEF TreeOK, Root
<1> QED
  BY <1>3, <1>4, <1>5, <1>6, <1>7, <1>8, <1>15

(* The nodes that the calls and the files have are older than it.          *)
LEMMA CreatedIsNew ==
    ASSUME NamespaceAssumption, NamesInv, NEW n, n # NULL, n \notin Live
    PROVE  Holders(n) = {} /\ Openers(n) = {} /\ MovesOf(n) = {}
<1>1. \A u \in Thread : /\ call[u].node # n /\ call[u].source # n
                        /\ call[u].prev # n /\ call[u].target # n
  BY CallOf, SMT
<1>2. \A p \in Process, f \in Fd : ~OfNode(files[p][f], n)
  <2>1. Invalid.node = NULL
    BY DEF Invalid
  <2>2. \A p \in Process, f \in Fd :
          files[p][f] \notin {NULL, Invalid} => files[p][f].node \in Live
    BY DEF NamesInv, TableOK
  <2> QED
    BY <2>1, <2>2 DEF OfNode
<1>3. ASSUME NEW u \in Thread, call[u].file # NULL
      PROVE  call[u].file.node # n
  <2>1. Found(u, call[u]) /\ HasSlot(u, call[u])
    BY CallOf
  <2>2. CASE call[u].step = "entries"
    BY <1>1, <2>1, <2>2 DEF Found
  <2>3. CASE call[u].step = "delete"
    <3>1. /\ call[u].fd \in Fd /\ files[of[u]][call[u].fd] # NULL
          /\ files[of[u]][call[u].fd].freed
          /\ files[of[u]][call[u].fd].node = call[u].file.node
      BY <2>1, <2>3 DEF HasSlot
    <3>2. files[of[u]][call[u].fd] \notin {NULL, Invalid}
      BY <3>1, InvalidIsNone
    <3> QED
      BY <3>1, <3>2, OpenHasNode
  <2> QED
    BY <1>3, <2>1, <2>2, <2>3 DEF Found
<1> QED
  BY <1>1, <1>2, <1>3 DEF Holders, Openers, MovesOf

(* Only its creator knows a node that was created.                         *)
LEMMA CreatedCalls ==
    ASSUME NamespaceAssumption, NamesInv, NEW t \in Thread, NEW n, n # NULL, n # Root, n \notin Live,
           Live' = Live \cup {n}, \A m \in Live : nodes'[m] = nodes[m],
           nodes'[n].parent = NULL,
           NEW d \in Call, Go(t, d), d.step = "attach", d.node = n, d.prev = call[t].prev,
           d.source = call[t].source, d.target = call[t].target, Found(t, d)
    PROVE  CallsOK'
<1>1. NamesTypes /\ TreeOK /\ CallsOK
  BY DEF NamesInv
<1>2. call'[t] = d /\ \A u \in Thread \ {t} : call'[u] = call[u]
  BY <1>1, OnlyCall DEF NamesTypes
<1>3. \A u \in Thread : Found(u, call[u])'
  BY <1>1, FoundKeeps
<1>4. \A u \in Thread : \A x \in {call[u].node, call[u].prev, call[u].source, call[u].target} :
        Known(u, x) /\ (x # NULL => x \in Live)
  <2>1. \A u \in Thread : KnowsNodes(u, call[u])
    BY <1>1 DEF CallsOK
  <2> QED
    BY <2>1, SMT DEF KnowsNodes, Known
<1>5. ASSUME NEW u \in Thread, NEW x, Known(u, x)
      PROVE  Known(u, x)'
  BY <1>2, <1>5 DEF Known
<1>6. Known(t, n)'
  <2>1. \A u \in Thread \ {t} : call[u].node # n
    BY <1>4
  <2> QED
    BY <1>2, <2>1 DEF Known
<1>7. \A u \in Thread : KnowsNodes(u, call[u])'
  <2>1. ASSUME NEW u \in Thread \ {t}
        PROVE  KnowsNodes(u, call[u])'
    BY <1>2, <1>4, <1>5 DEF KnowsNodes
  <2>2. KnowsNodes(t, call[t])'
    BY <1>2, <1>4, <1>5, <1>6 DEF KnowsNodes
  <2> QED
    BY <2>1, <2>2
<1>8. \A u \in Thread : Unattached(u)'
  <2>1. \A m \in Live : nodes[m].parent \in Live \cup {NULL}
    BY <1>1 DEF TreeOK
  <2>2. Unattached(t)'
    BY <1>2, <2>1 DEF Unattached, Root
  <2>3. ASSUME NEW u \in Thread \ {t}, call[u].step = "attach"
        PROVE  /\ call[u].node # Root /\ call[u].node \in Live
               /\ nodes'[call[u].node].parent = NULL
               /\ \A m \in Live' : nodes'[m].parent # call[u].node
    <3>1. Unattached(u) /\ Found(u, call[u])
      BY <1>1 DEF CallsOK
    <3>2. call[u].node # NULL /\ call[u].node \in Live
      BY <1>4, <2>3, <3>1 DEF Found
    <3> QED
      BY <2>3, <3>1, <3>2 DEF Unattached
  <2>4. ASSUME NEW u \in Thread \ {t}
        PROVE  Unattached(u)'
    BY <1>2, <2>3, SMT DEF Unattached, Root
  <2> QED
    BY <2>2, <2>4
<1>9. \A u \in Thread : InPlace(call[u])'
  <2>1. InPlace(call[t])'
    BY <1>2 DEF InPlace
  <2>2. ASSUME NEW u \in Thread \ {t}, call[u].step \in {"replace", "rename"}
        PROVE  nodes'[call[u].source].parent \in {call[u].prev, NULL}
    <3>1. InPlace(call[u]) /\ Found(u, call[u])
      BY <1>1 DEF CallsOK
    <3>2. call[u].source # NULL /\ call[u].source \in Live
      BY <1>4, <2>2, <3>1 DEF Found, Moving
    <3> QED
      BY <2>2, <3>1, <3>2 DEF InPlace
  <2>3. ASSUME NEW u \in Thread \ {t}
        PROVE  InPlace(call[u])'
    BY <1>2, <2>2 DEF InPlace
  <2> QED
    BY <2>1, <2>3
<1> QED
  BY <1>3, <1>7, <1>8, <1>9 DEF CallsOK

(* ffs_createFile() and ffs_createDirectory() up to the attachment.        *)
LEMMA CreateKeeps ==
    ASSUME NamespaceAssumption, OneMover, NamesInv, NEW t \in Thread, CreateNode(t)
    PROVE  NamesInv'
<1> DEFINE c == call[t]
<1>1. PICK n, y, d :
        /\ n = lastID
        /\ y = Fresh(IF c.op = "mkdir" THEN "directory" ELSE "file", c.name)
        /\ d = [c EXCEPT !.step = "attach", !.node = n]
  OBVIOUS
<1>2. /\ c.step = "create" /\ lastID < MaxNodes
      /\ nodes' = [nodes EXCEPT ![lastID] = y] /\ lastID' = lastID + 1 /\ Go(t, d)
      /\ UNCHANGED <<of, childs, files, owner>>
  BY <1>1 DEF CreateNode, table
<1>3. NamesTypes /\ TreeOK /\ CallsOK /\ TableOK /\ ReferencesExact
  BY DEF NamesInv
<1>4. /\ c \in Call /\ Found(t, c) /\ KnowsNodes(t, c)
      /\ c.target # NULL /\ c.name \in Name /\ c.file = NULL
  BY <1>2, CallOf DEF Found
<1>5. y \in NodeType /\ y.parent = NULL /\ y.name \in Name /\ y.references = 1
  BY <1>1, <1>4, SMT DEF Fresh, NodeType
<1>6. /\ nodes' \in [NodeId -> NodeType \cup {NULL}] /\ lastID' \in 1..MaxNodes
      /\ n \in NodeId /\ n # NULL /\ n # Root /\ n \notin Live
      /\ Live' = Live \cup {n} /\ nodes'[n] = y
      /\ \A m \in Live : nodes'[m] = nodes[m]
      /\ TreeOK'
  BY <1>1, <1>2, <1>5, CreatedTree
<1>7. d \in Call
  <2>1. n \in Ref
    BY <1>6 DEF Ref
  <2> QED
    BY <1>1, <1>4, <2>1, ZenonT(60) DEF Call
<1>8. /\ d.step = "attach" /\ d.op = c.op /\ d.fd = c.fd /\ d.file = c.file /\ d.dest = c.dest
      /\ d.source = c.source /\ d.target = c.target /\ d.prev = c.prev /\ d.node = n
      /\ d.name = c.name
  BY <1>1, <1>4 DEF Call
<1>9. Found(t, d)
  BY <1>2, <1>4, <1>6, <1>8 DEF Found, Moving
<1>10. NamesTypes'
  BY <1>2, <1>3, <1>6, <1>7, OnlyCall DEF NamesTypes
<1>11. CallsOK'
  BY <1>2, <1>5, <1>6, <1>7, <1>8, <1>9, CreatedCalls, ZenonT(60)
<1>12. TableOK'
  BY <1>2, <1>3, <1>6, <1>7, <1>8, TableStays, ZenonT(60)
<1>13. Quiet(t, d)
  BY <1>2, <1>4, <1>8 DEF Quiet, Moving
<1>14. ReferencesExact'
  <2>1. ASSUME NEW m \in Live'
        PROVE  /\ Holders(m)' = Holders(m) /\ Openers(m)' = Openers(m) /\ MovesOf(m)' = MovesOf(m)
    <3>1. Holders(m)' = Holders(m)
      BY <1>2 DEF Holders, OfNode
    <3> QED
      BY <1>2, <1>3, <1>7, <1>13, <3>1, QuietCounts, ZenonT(60)
  <2>2. OpenFiles(n) = 0 /\ Cardinality(MovesOf(n)) = 0
    <3>1. Holders(n) = {} /\ Openers(n) = {} /\ MovesOf(n) = {}
      BY <1>6, CreatedIsNew
    <3> QED
      BY <3>1, FS_EmptySet, SMT DEF OpenFiles
  <2>3. ASSUME NEW m \in Live'
        PROVE  OpenFiles(m)' = OpenFiles(m) /\ Cardinality(MovesOf(m))' = Cardinality(MovesOf(m))
    BY <2>1 DEF OpenFiles
  <2>4. ASSUME NEW m \in Live'
        PROVE  nodes'[m].references = (IF m = Root THEN 2 ELSE 1)
                   + (IF nodes'[m].parent # NULL THEN 1 ELSE 0)
                   + OpenFiles(m) + Cardinality(MovesOf(m))
    <3>1. CASE m = n
      BY <1>5, <1>6, <2>2, <3>1, SMT
    <3>2. CASE m # n
      <4>1. m \in Live /\ nodes'[m] = nodes[m]
        BY <1>6, <3>2
      <4> QED
        BY <1>3, <4>1 DEF ReferencesExact
    <3> QED
      BY <3>1, <3>2
  <2> QED
    BY <2>3, <2>4 DEF ReferencesExact, Root
<1> QED
  BY <1>6, <1>10, <1>11, <1>12, <1>14 DEF NamesInv

-----------------------------------------------------------------------------
(* The state of vfs_init(): the root directory, and no call.               *)
LEMMA NamesStart ==
    ASSUME NamespaceAssumption, NamesInit
    PROVE  NamesInv
<1> DEFINE r == [Fresh("directory", NULL) EXCEPT !.references = 2]
<1>1. /\ r \in NodeType /\ r.parent = NULL /\ r.references = 2 /\ r # NULL
  BY SMT DEF Fresh, NodeType, NamespaceAssumption
<1>2. Root \in NodeId /\ MaxNodes \in Nat /\ 1 \in 1..MaxNodes
  BY SMT DEF NodeId, Root, NamespaceAssumption
<1>3. /\ nodes = [n \in NodeId |-> IF n = Root THEN r ELSE NULL]
      /\ childs = [n \in NodeId |-> [x \in Name |-> NULL]]
      /\ lastID = 1 /\ of \in [Thread -> Process]
      /\ files = [p \in Process |-> [f \in Fd |-> NULL]]
      /\ owner = [p \in Process |-> NULL] /\ call = [t \in Thread |-> Idle]
  BY DEF NamesInit
<1>4. Live = {Root}
  BY <1>1, <1>2, <1>3 DEF Live
<1>5. \A t \in Thread : /\ Idle \in Call /\ Found(t, Idle) /\ KnowsNodes(t, Idle)
                        /\ InPlace(Idle)
  BY IdleFits
<1>6. Idle.step = "idle" /\ Idle.op = "none" /\ Idle.file = NULL
  BY DEF Idle
<1>7. NamesTypes
  BY <1>1, <1>2, <1>3, <1>5 DEF NamesTypes, Ref
<1>8. TreeOK
  <2>1. \A n \in NodeId : n \in Live <=> n < lastID
    BY <1>3, <1>4, SMT DEF NodeId, Root
  <2>2. nodes[Root] = r
    BY <1>2, <1>3
  <2>3. \A d \in NodeId, x \in Name : childs[d][x] = NULL
    BY <1>3
  <2>4. Root # NULL
    BY <1>2 DEF NamespaceAssumption
  <2> QED
    BY <1>1, <1>2, <1>4, <2>1, <2>2, <2>3, <2>4, ZenonT(60) DEF TreeOK
<1>9. CallsOK
  <2>1. \A t \in Thread : call[t] = Idle
    BY <1>3
  <2>2. \A t \in Thread : Unattached(t)
    BY <1>6, <2>1 DEF Unattached
  <2> QED
    BY <1>5, <2>1, <2>2 DEF CallsOK
<1>10. TableOK
  <2>1. \A t \in Thread : call[t].step = "idle" /\ call[t].op = "none"
    BY <1>3, <1>6
  <2>2. \A p \in Process, f \in Fd : files[p][f] = NULL
    BY <1>3
  <2>3. \A p \in Process : owner[p] = NULL
    BY <1>3
  <2>4. SlotsAccounted
    BY <2>2, InvalidIsNone DEF SlotsAccounted
  <2> QED
    BY <2>1, <2>2, <2>3, <2>4 DEF TableOK, HasSlot
<1>11. ReferencesExact
  <2>1. \A n : Holders(n) = {} /\ Openers(n) = {} /\ MovesOf(n) = {}
    BY <1>3, <1>6 DEF Holders, OfNode, Openers, MovesOf
  <2>2. \A n : OpenFiles(n) = 0 /\ Cardinality(MovesOf(n)) = 0
    BY <2>1, FS_EmptySet, SMT DEF OpenFiles
  <2> QED
    BY <1>1, <1>2, <1>3, <1>4, <2>2, SMT DEF ReferencesExact
<1> QED
  BY <1>7, <1>8, <1>9, <1>10, <1>11 DEF NamesInv

(* Every step of a call keeps the invariant.                               *)
LEMMA NamesStep ==
    ASSUME NamespaceAssumption, OneMover, NamesInv, [NamesNext]_namesVars
    PROVE  NamesInv'
<1>1. CASE UNCHANGED namesVars
  BY <1>1, NamesStutter DEF namesVars, tree, table
<1>2. CASE Finished
  BY <1>2, NamesStutter DEF Finished, namesVars, tree, table
<1>3. ASSUME NEW t \in Thread,
             \/ PathNextElement(t) \/ Open(t) \/ OpenResolved(t) \/ OpenParent(t)
             \/ CreateNode(t) \/ AttachNode(t) \/ InsertNode(t)
             \/ OpenFile(t) \/ CopyEntries(t)
             \/ Close(t) \/ DeleteFile(t) \/ ReleaseFiledescriptor(t) \/ ReadDir(t)
             \/ Mkdir(t) \/ MkdirResolved(t) \/ RemoveOrStat(t) \/ Stat(t)
      PROVE  NamesInv'
  BY <1>3, PathNextKeeps, OpenKeeps, OpenResolvedKeeps, ParentOfKeeps, CreateKeeps, AttachKeeps,
     InsertKeeps, OpenFileKeeps, CopyKeeps, CloseKeeps, DeleteKeeps, ReleaseFileKeeps, ReadDirKeeps, BeginKeeps,
     RemoveOrStatKeeps, ZenonT(60)
<1>4. ASSUME NEW t \in Thread,
             \/ RemoveResolved(t) \/ NodeRemove(t)
             \/ Move(t) \/ MoveResolved(t) \/ MoveRetain(t)
             \/ MoveReplace(t) \/ MoveRename(t) \/ MoveAttach(t) \/ MoveInsert(t)
      PROVE  NamesInv'
  BY <1>4, RemoveOrStatKeeps, NodeRemoveKeeps, BeginKeeps, MoveResolvedKeeps, MoveRetainKeeps,
     MoveReplaceKeeps, MoveRenameKeeps, MoveAttachKeeps, MoveInsertKeeps, ZenonT(60)
<1> QED
  BY <1>1, <1>2, <1>3, <1>4 DEF NamesNext

(* An entry and a parent field name the same place, so a node is in one    *)
(* directory at most.                                                      *)
LEMMA TreeAgrees ==
    ASSUME NamespaceAssumption, NamesInv
    PROVE  NamespaceConsistent
<1>1. NamesTypes /\ TreeOK /\ TableOK /\ ReferencesExact
  BY DEF NamesInv
<1>2. ASSUME NEW n \in Live
      PROVE  {s \in Live \X Name : childs[s[1]][s[2]] = n}
               = IF nodes[n].parent = NULL THEN {} ELSE {<<nodes[n].parent, nodes[n].name>>}
  <2>1. \A s \in Live \X Name : /\ s[1] \in Live /\ s[2] \in Name /\ s = <<s[1], s[2]>>
    BY SMT
  <2>2. \A s \in Live \X Name :
          childs[s[1]][s[2]] = n <=> nodes[n].parent = s[1] /\ nodes[n].name = s[2]
    BY <1>1, <2>1, SMT DEF TreeOK
  <2>3. \A s \in Live \X Name : s[1] # NULL
    BY <1>1, <2>1, LiveIsNode
  <2>4. CASE nodes[n].parent = NULL
    BY <2>2, <2>3, <2>4
  <2>5. CASE nodes[n].parent # NULL
    <3>1. nodes[n].parent \in Live /\ nodes[n].name \in Name
      BY <1>1, <2>5 DEF TreeOK
    <3>2. <<nodes[n].parent, nodes[n].name>> \in Live \X Name
      BY <3>1
    <3> QED
      BY <2>1, <2>2, <2>5, <3>1, <3>2
  <2> QED
    BY <2>4, <2>5
<1>3. DirectoriesAgree
  BY <1>2 DEF DirectoriesAgree
<1> QED
  BY <1>1, <1>3 DEF NamespaceConsistent, TableOK

(* Whatever calls of vfs.c interleave, a node's references are those of    *)
(* its creator, its directory, its open files and its moves, a node is in  *)
(* the directory that its parent field names and in no other, and a        *)
(* reserved or freed descriptor belongs to a call, as long as at most one  *)
(* thread moves nodes and up to the use of a freed file and to the second  *)
(* entry of a name, with which a behaviour of Namespace ends.              *)
THEOREM NamespaceStaysConsistent ==
    ASSUME NamespaceAssumption, OneMover
    PROVE  NamesSpec => []NamespaceConsistent
<1>1. NamesInit => NamesInv
  BY NamesStart
<1>2. NamesInv /\ [NamesNext]_namesVars => NamesInv'
  BY NamesStep
<1>3. NamesInv => NamespaceConsistent
  BY TreeAgrees
<1> QED
  BY <1>1, <1>2, <1>3, PTL DEF NamesSpec
=============================================================================
