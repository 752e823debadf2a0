------------------------------- MODULE ATree --------------------------------
(***************************************************************************)
(* sys/container/atree.c: the Andersson tree that holds the libraries of   *)
(* the I/O store and its modules by name.  A tree is a nested record, and  *)
(* the walk back up the path array is the return from a recursion.  The    *)
(* owner's lock is held around each operation, so each is one step.        *)
(***************************************************************************)
EXTENDS Integers, SequencesExt

CONSTANTS
    Key,         \* the names, as the numbers the comparison orders them by
    NULL

ATreeAssumption == Key \subseteq Nat

VARIABLES
    root,        \* tree->root
    nodes        \* tree->nodes

vars == <<root, nodes>>

(* tree->nil, whose links lead to itself *)
Nil == [level |-> 0, key |-> NULL, data |-> NULL]

Left(t) == IF t = Nil THEN Nil ELSE t.left
Right(t) == IF t = Nil THEN Nil ELSE t.right

(* atree_createNode() *)
Leaf(key, data) ==
    [level |-> 1, key |-> key, data |-> data, left |-> Nil, right |-> Nil]

(* atree_skew() *)
Skew(t) ==
    IF t # Nil /\ Left(t).level = t.level
    THEN [t.left EXCEPT !.right = [t EXCEPT !.left = t.left.right]]
    ELSE t

(* A mutant: the new parent stays at its level. *)
SplitSameLevel(t) ==
    IF t # Nil /\ Right(Right(t)).level = t.level
    THEN [t.right EXCEPT !.left = [t EXCEPT !.right = t.right.left]]
    ELSE t

(* atree_split() *)
Split(t) ==
    IF t # Nil /\ Right(Right(t)).level = t.level
    THEN [t.right EXCEPT !.left = [t EXCEPT !.right = t.right.left], !.level = @ + 1]
    ELSE t

(* the direction a search takes at a node that has another key *)
GoesRight(t, key) == t.key < key

(* atree_find() *)
RECURSIVE Find(_, _)
Find(t, key) ==
    IF t = Nil THEN NULL
    ELSE IF t.key = key THEN t.data
    ELSE Find(IF GoesRight(t, key) THEN t.right ELSE t.left, key)

(* atree_insert() *)
RECURSIVE Inserted(_, _, _)
Inserted(t, key, data) ==
    IF t = Nil THEN Leaf(key, data)
    ELSE IF GoesRight(t, key)
         THEN Split(Skew([t EXCEPT !.right = Inserted(@, key, data)]))
         ELSE Split(Skew([t EXCEPT !.left = Inserted(@, key, data)]))

-----------------------------------------------------------------------------
(* the steps of atree_remove() at each node of the path, from the last on  *)
TooHigh(t) == Left(t).level < t.level - 1 \/ Right(t).level < t.level - 1

Lowered(t) ==
    [t EXCEPT !.level = @ - 1,
              !.right = IF @.level > t.level - 1 THEN [@ EXCEPT !.level = t.level - 1] ELSE @]

OnRight(t, F(_)) == IF t = Nil THEN Nil ELSE [t EXCEPT !.right = F(@)]

Skewed(t) == OnRight(OnRight(Skew(t), Skew), LAMBDA r : OnRight(r, Skew))

Rebalanced(t) ==
    IF TooHigh(t) THEN OnRight(Split(Skewed(Lowered(t))), Split) ELSE t

RECURSIVE Least(_)
Least(t) == IF t.left = Nil THEN t ELSE Least(t.left)

RECURSIVE WithoutLeast(_)
WithoutLeast(t) ==
    IF t.left = Nil THEN t.right ELSE Rebalanced([t EXCEPT !.left = WithoutLeast(@)])

(* what takes the place of a node that has at most one child *)
OtherChild(t) == IF t.left = Nil THEN t.right ELSE t.left

(* A mutant: the data of the right child is moved, not the least. *)
TakeHeirData(t) ==
    Rebalanced([t EXCEPT !.data = t.right.data, !.right = WithoutLeast(@)])

(* a node with two children: the next node's data moves into it *)
TakeHeir(t) ==
    Rebalanced([t EXCEPT !.data = Least(t.right).data, !.right = WithoutLeast(@)])

RECURSIVE Removed(_, _)
Removed(t, key) ==
    IF t.key = key
    THEN IF t.left = Nil \/ t.right = Nil THEN OtherChild(t) ELSE TakeHeir(t)
    ELSE Rebalanced(IF GoesRight(t, key)
                    THEN [t EXCEPT !.right = Removed(@, key)]
                    ELSE [t EXCEPT !.left = Removed(@, key)])

(* the root is replaced by its right child, whichever child it has *)
RemovedFromRoot(t, key) ==
    IF t.key = key /\ (t.left = Nil \/ t.right = Nil) THEN t.right ELSE Removed(t, key)

-----------------------------------------------------------------------------
(* atree_create() *)
Init == root = Nil /\ nodes = 0

(* atree_insert(), which the store calls for names it does not find.  The  *)
(* data stands for the library of that name.                               *)
AtreeInsert(key) ==
    /\ Find(root, key) = NULL
    /\ root' = Inserted(root, key, key)
    /\ nodes' = nodes + 1

(* atree_remove() *)
AtreeRemove(key) ==
    /\ Find(root, key) # NULL
    /\ root' = RemovedFromRoot(root, key)
    /\ nodes' = nodes - 1

(* atree_remove() of a key that is not in the tree *)
AtreeRemoveMissing(key) ==
    /\ Find(root, key) = NULL
    /\ UNCHANGED vars

Next ==
    \E key \in Key : AtreeInsert(key) \/ AtreeRemove(key) \/ AtreeRemoveMissing(key)

Spec == Init /\ [][Next]_vars

-----------------------------------------------------------------------------
(* A mutant: the subtree between the two is dropped. *)
TurnedRightAlone(t) == [t.left EXCEPT !.right = [t EXCEPT !.left = Nil]]

(* atree_destroy(): the nodes in the order it frees them, found by turning *)
(* left links right on the way                                             *)
TurnedRight(t) == [t.left EXCEPT !.right = [t EXCEPT !.left = t.left.right]]

RECURSIVE Destroyed(_)
Destroyed(t) ==
    IF t = Nil THEN <<>>
    ELSE IF t.left = Nil THEN <<t.key>> \o Destroyed(t.right)
    ELSE Destroyed(TurnedRight(t))

(* atree_iterator(): the leftmost node, and the path to it, its end first *)
RECURSIVE LeftmostOf(_, _)
LeftmostOf(t, path) ==
    IF Left(t) = Nil THEN [node |-> t, path |-> path] ELSE LeftmostOf(t.left, <<t>> \o path)

RECURSIVE Climbed(_, _)
Climbed(t, path) ==
    IF path = <<>> THEN [node |-> Nil, path |-> <<>>]
    ELSE IF t = path[1].right THEN Climbed(path[1], Tail(path))
    ELSE [node |-> path[1], path |-> Tail(path)]

(* A mutant: the left subtree of the right child is passed over. *)
AdvancedDown(it) ==
    IF Right(it.node) # Nil
    THEN [node |-> it.node.right, path |-> <<it.node>> \o it.path]
    ELSE Climbed(it.node, it.path)

(* one turn of the loop of atree_iteratorNextObject() *)
Advanced(it) ==
    IF Right(it.node) # Nil
    THEN LeftmostOf(it.node.right, <<it.node>> \o it.path)
    ELSE Climbed(it.node, it.path)

(* The objects of an iteration.  A climb that ends at the top of the path  *)
(* always ends at the root, whose object is then fetched again.            *)
RECURSIVE IteratedFrom(_)
IteratedFrom(it) ==
    LET next == Advanced(it)
    IN IF next.node = Nil THEN <<root.data>> ELSE <<next.node.data>> \o IteratedFrom(next)

Iterated ==
    LET first == LeftmostOf(root, <<>>)
    IN (IF first.node = Nil THEN <<>> ELSE <<first.node.data>>) \o IteratedFrom(first)

-----------------------------------------------------------------------------
RECURSIVE InOrder(_)
InOrder(t) == IF t = Nil THEN <<>> ELSE InOrder(t.left) \o <<t>> \o InOrder(t.right)

Keys(t) == [i \in 1..Len(InOrder(t)) |-> InOrder(t)[i].key]
Objects(t) == [i \in 1..Len(InOrder(t)) |-> InOrder(t)[i].data]

TypeOK ==
    /\ nodes \in Nat
    /\ \A t \in ToSet(InOrder(root)) : t.key \in Key /\ t.data \in Key

(* Every node keeps the levels an Andersson tree needs, after any inserts  *)
(* and removals.  The depth of a path, which atree_insert() and            *)
(* atree_remove() keep in an array of kAtreeMaxHeight, rests on it, and so *)
(* does replacing a root with one child by its right child.  The keys stay *)
(* in order without repetition, so that every search goes the right way.   *)
WellFormed ==
    /\ nodes = Len(Keys(root))
    /\ \A i \in 1..Len(Keys(root)) - 1 : Keys(root)[i] < Keys(root)[i + 1]
    /\ \A t \in ToSet(InOrder(root)) :
          /\ Left(t).level = t.level - 1
          /\ Right(t).level \in {t.level - 1, t.level}
          /\ Right(Right(t)).level < t.level

(* A removal takes one object out of the order and leaves the others where *)
(* they were, and an insert adds one: no rotation loses or moves another.  *)
OneObjectMoves ==
    [][\/ \E i \in 1..Len(Objects(root)) : Objects(root)' = RemoveAt(Objects(root), i)
       \/ \E i \in 1..Len(Objects(root)') : Objects(root) = RemoveAt(Objects(root)', i)]_vars

(* atree_destroy() frees every node once. *)
DestroyFreesAll == Destroyed(root) = Keys(root)

(* An iteration meets every object in the order of the keys; at its end it *)
(* meets the root's once more (that of nil, NULL, if the tree is empty).   *)
IterationInOrder == Iterated = Objects(root) \o <<root.data>>

(* atree_find() finds the object that was inserted for the key or nothing: *)
(* a library's name never leads to another library.                        *)
FindsOwnObject == \A key \in Key : Find(root, key) \in {key, NULL}
=============================================================================
