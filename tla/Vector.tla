------------------------------- MODULE Vector -------------------------------
(***************************************************************************)
(* What sys/container/array.c promises its users: a sequence of objects.   *)
(***************************************************************************)
EXTENDS Integers, FiniteSets, SequencesExt

CONSTANT Object

VARIABLE list

Init == list = <<>>

IsPermutationOf(s, t) ==
    /\ Len(s) = Len(t)
    /\ \A x \in ToSet(s) \cup ToSet(t) :
          Cardinality({i \in 1..Len(s) : s[i] = x}) = Cardinality({i \in 1..Len(t) : t[i] = x})

Add(x) == list' = Append(list, x)
Insert(x, i) == list' = InsertAt(list, i, x)
RemoveIndex(i) == list' = RemoveAt(list, i)
RemoveAll == list' = <<>>
Sort == IsSorted(list', <=) /\ IsPermutationOf(list, list')

Next ==
    \/ \E x \in Object : Add(x) \/ \E i \in 1..Len(list) : Insert(x, i)
    \/ \E i \in 1..Len(list) : RemoveIndex(i)
    \/ RemoveAll
    \/ list' \in [1..Len(list) -> Object] /\ Sort

Spec == Init /\ [][Next]_list
=============================================================================
