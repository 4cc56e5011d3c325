-------------------------------- MODULE Maps --------------------------------
(***************************************************************************)
(* Functions with a changing domain, for the maps of the program           *)
(* (std::map, and what fast_lookup_map holds).  TLC's own operators for    *)
(* this, :> and @@, have no definition that can be used in a proof.        *)
(***************************************************************************)

EmptyMap == [k \in {} |-> k]

\* What map has, and what old has besides.
Overlay(map, old) ==
  [k \in DOMAIN map \cup DOMAIN old |-> IF k \in DOMAIN map THEN map[k] ELSE old[k]]

\* map[k] = v.
Put(map, k, v) == [j \in {k} \cup DOMAIN map |-> IF j = k THEN v ELSE map[j]]
=============================================================================
