------------------------------ MODULE PathsMap ------------------------------
(***************************************************************************)
(* What one collision bucket of the paths modality promises: a map from   *)
(* path names to values, where an upsert sets one name and a removal      *)
(* clears one name (spec section 3, "Bucket membership is a set").         *)
(* `last` is the operation the caller asked for: the name and the value   *)
(* it set, NoVal for a removal.  A step must do exactly that operation.   *)
(***************************************************************************)
CONSTANTS Names, Values, NoVal

VARIABLES map, last

TypeOK ==
    /\ map \in [Names -> Values \cup {NoVal}]
    /\ last \in [name : Names \cup {NoVal}, val : Values \cup {NoVal}]

Init ==
    /\ map = [nm \in Names |-> NoVal]
    /\ last = [name |-> NoVal, val |-> NoVal]

Put(nm, v) ==
    /\ last' = [name |-> nm, val |-> v]
    /\ map' = [map EXCEPT ![nm] = v]

Del(nm) ==
    /\ last' = [name |-> nm, val |-> NoVal]
    /\ map' = [map EXCEPT ![nm] = NoVal]

Next == \E nm \in Names : Del(nm) \/ \E v \in Values : Put(nm, v)

Spec == Init /\ [][Next]_<<map, last>>
=============================================================================
