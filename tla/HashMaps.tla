------------------------------ MODULE HashMaps ------------------------------
(***************************************************************************)
(* The two updates of std::collections::HashMap the code relies on, over   *)
(* functions whose domain is the set of keys present.  They are written    *)
(* as function constructors, not with :> and @@, because the provers do    *)
(* not interpret those two operators.                                      *)
(***************************************************************************)
EXTENDS Functions

\* All maps with keys in K and values in V.
Maps(K, V) == UNION {[S -> V] : S \in SUBSET K}

EmptyMap == [k \in {} |-> k]

\* HashMap::insert: binds k to v, replacing the previous value if there is one.
Insert(m, k, v) == [x \in DOMAIN m \cup {k} |-> IF x = k THEN v ELSE m[x]]

\* HashMap::remove: a no-op when k is absent.
Without(m, k) == Restrict(m, DOMAIN m \ {k})
=============================================================================
