-------------------------------- MODULE Maps --------------------------------
(***************************************************************************)
(* The std::map every service keeps its objects in: a function whose       *)
(* domain is the set of keys present.  Only the operations the services    *)
(* use are defined.                                                        *)
(***************************************************************************)

EmptyMap == [k \in {} |-> k]

\* A map with keys in K and values in V.
IsMap(map, K, V) ==
  /\ DOMAIN map \subseteq K
  /\ map = [k \in DOMAIN map |-> map[k]]
  /\ \A k \in DOMAIN map : map[k] \in V

\* map[k] = v: inserts the key or overwrites the value it had.
Put(map, k, v) ==
  [x \in DOMAIN map \cup {k} |-> IF x = k THEN v ELSE map[x]]

\* Reading map[k] where an absent key stands for the value d.
Lookup(map, k, d) == IF k \in DOMAIN map THEN map[k] ELSE d

=============================================================================
