----------------------------- MODULE OrderedSet -----------------------------
(***************************************************************************)
(* What the skip list promises its users (spec 4.3): a set of keys that    *)
(* grows by one key not yet present per Insert and never loses a key (no   *)
(* deletion).                                                              *)
(***************************************************************************)
CONSTANT Keys
VARIABLE keys

Init == keys = {}

Insert(k) == k \notin keys /\ keys' = keys \cup {k}

Next == \E k \in Keys : Insert(k)

Spec == Init /\ [][Next]_keys

=============================================================================
