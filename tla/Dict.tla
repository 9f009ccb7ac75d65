-------------------------------- MODULE Dict --------------------------------
(***************************************************************************)
(* Python dictionaries as functions: the keys are the function's domain.   *)
(***************************************************************************)

\* {}
EmptyDict == [x \in {} |-> x]

\* d[k] = v
Put(d, k, v) == [x \in DOMAIN d \cup {k} |-> IF x = k THEN v ELSE d[x]]

\* del d[k] for every k in K (no effect on a key that is absent)
Without(d, K) == [x \in DOMAIN d \ K |-> d[x]]

\* d.values()
Values(d) == {d[x] : x \in DOMAIN d}

\* The dictionaries with keys in K and values in V
Dicts(K, V) == UNION {[D -> V] : D \in SUBSET K}

=============================================================================
