-------------------------------- MODULE List --------------------------------
(***************************************************************************)
(* sys/container/list.c: the doubly linked list of the kernel, in which an *)
(* entry holds its own links.  A list is a record of its fields and of the *)
(* links of the entries; the operations are functions from lists to lists, *)
(* for they run under list->internalLock.                                  *)
(***************************************************************************)
EXTENDS Integers, Sequences, SequencesExt

CONSTANTS Entry, NULL

VARIABLES
    list,
    order,  \* the entries in the list, in the order the callers gave them
    lost    \* an entry was appended behind one that is not the last

vars == <<list, order, lost>>

(* list_create().                                                          *)
Empty == [first |-> NULL, last |-> NULL, count |-> 0,
          next |-> [e \in Entry |-> NULL], prev |-> [e \in Entry |-> NULL]]

(* A write through a pointer that may be NULL, which is tested first.      *)
Put(links, e, value) == IF e = NULL THEN links ELSE [links EXCEPT ![e] = value]

InsertBack(l, e) ==
    [l EXCEPT !.next = Put([@ EXCEPT ![e] = NULL], l.last, e),
              !.prev = [@ EXCEPT ![e] = l.last],
              !.last = e,
              !.first = IF @ = NULL THEN e ELSE @,
              !.count = @ + 1]

InsertFront(l, e) ==
    [l EXCEPT !.next = [@ EXCEPT ![e] = l.first],
              !.prev = Put([@ EXCEPT ![e] = NULL], l.first, e),
              !.first = e,
              !.last = IF @ = NULL THEN e ELSE @,
              !.count = @ + 1]

(* A mutant: the entry behind keeps its link to the removed one. *)
RemoveSoftOneWay(l, e) ==
    LET next == l.next[e]
        prev == l.prev[e]
    IN
    [l EXCEPT !.next = Put(@, prev, next),
              !.first = IF @ = e THEN next ELSE @,
              !.last = IF @ = NULL THEN NULL ELSE prev,
              !.count = @ - 1]

(* list_removeSoft(): last becomes the entry before the removed one,       *)
(* whether or not the removed one was the last.                            *)
RemoveSoft(l, e) ==
    LET next == l.next[e]
        prev == l.prev[e]
    IN
    [l EXCEPT !.next = Put(@, prev, next),
              !.prev = Put(@, next, prev),
              !.first = IF @ = e THEN next ELSE @,
              !.last = IF @ = NULL THEN NULL ELSE prev,
              !.count = @ - 1]

-----------------------------------------------------------------------------
Init ==
    /\ list = Empty
    /\ order = <<>>
    /\ lost = FALSE

(* list_addBack() and list_insertBack().                                   *)
AddBack(e) ==
    /\ ~Contains(order, e)
    /\ list' = InsertBack(list, e)
    /\ order' = Append(order, e)
    /\ lost' = (lost \/ (order # <<>> /\ list.last # Last(order)))

AddFront(e) ==
    /\ ~Contains(order, e)
    /\ list' = InsertFront(list, e)
    /\ order' = <<e>> \o order
    /\ UNCHANGED lost

(* list_remove() and list_removeSoft().                                    *)
Delete(e) ==
    /\ Contains(order, e)
    /\ list' = RemoveSoft(list, e)
    /\ order' = SelectSeq(order, LAMBDA f : f # e)
    /\ UNCHANGED lost

(* list_destroy() frees what a walk from the first entry meets.            *)
Destroy ==
    /\ order # <<>>
    /\ list' = Empty
    /\ order' = <<>>
    /\ lost' = FALSE

Next ==
    /\ ~lost
    /\ \/ \E e \in Entry : AddBack(e) \/ AddFront(e) \/ Delete(e)
       \/ Destroy

Spec == Init /\ [][Next]_vars

-----------------------------------------------------------------------------
(* The entries that a walk from e along links meets, of at most n.         *)
Walk(links, e, n) ==
    LET walk[i \in 0..n] ==
          IF i = 0 THEN <<>>
          ELSE LET w == walk[i - 1]
                   at == IF w = <<>> THEN e ELSE links[Last(w)]
               IN  IF at = NULL THEN w ELSE Append(w, at)
    IN  walk[n]

(* A walk along the list meets the entries in the order in which they were *)
(* given, and its links back are the same order reversed, through any      *)
(* removals, as long as no entry was appended after list_removeSoft() left *)
(* last at an entry that is not the last; the count is always theirs.      *)
ListInOrder ==
    /\ list.count = Len(order)
    /\ lost \/ /\ Walk(list.next, list.first, Len(order) + 1) = order
               /\ order # <<>> =>
                    Walk(list.prev, Last(order), Len(order) + 1) = Reverse(order)

=============================================================================
