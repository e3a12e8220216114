-------------------------------- MODULE MapOps --------------------------------
(***************************************************************************)
(* The Map of JavaScript, as a function on the keys it holds.              *)
(***************************************************************************)

\* new Map()
EmptyMap == [x \in {} |-> x]

\* set(k, v)
Put(map, k, v) == [x \in DOMAIN map \cup {k} |-> IF x = k THEN v ELSE map[x]]

\* delete(k)
Drop(map, k) == [x \in DOMAIN map \ {k} |-> map[x]]
=============================================================================
