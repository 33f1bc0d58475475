-------------------------------- MODULE Maps --------------------------------
(***************************************************************************)
(* std::unordered_map as the server uses it: a function on a finite set of *)
(* keys.  m[k] = v is Put, m.erase(k) is Erase (a no-op on an absent key). *)
(***************************************************************************)
EXTENDS Functions

\* The empty map.
NoEntries == [k \in {} |-> k]

\* The maps whose keys are in K and whose values are in V.
MapsInto(K, V) == UNION {[D -> V] : D \in SUBSET K}

\* m is such a map; TLC need not enumerate them to decide it.
IsMap(m, K, V) == DOMAIN m \in SUBSET K /\ m \in [DOMAIN m -> V]

\* m[k] = v: adds the entry or overwrites the value of an existing one.
Put(m, k, v) == [x \in DOMAIN m \cup {k} |-> IF x = k THEN v ELSE m[x]]

\* m.erase(k)
Erase(m, k) == Restrict(m, DOMAIN m \ {k})
=============================================================================
