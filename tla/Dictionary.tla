----------------------------- MODULE Dictionary -----------------------------
(***************************************************************************)
(* What sys/container/hashset.c promises its users: a partial map from     *)
(* keys to objects.  Setting an object for a key that has one leaves the   *)
(* old object in place; setting NULL, and removing, both forget the key.   *)
(***************************************************************************)
CONSTANTS Key, Data, NULL

VARIABLE map

Init == map = [k \in Key |-> NULL]

SetObject(k, d) ==
    /\ map[k] = NULL
    /\ map' = [map EXCEPT ![k] = d]

RemoveObject(k) == map' = [map EXCEPT ![k] = NULL]

Next ==
    \E k \in Key : RemoveObject(k) \/ \E d \in Data : SetObject(k, d)

Spec == Init /\ [][Next]_map
=============================================================================
