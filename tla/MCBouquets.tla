----------------------------- MODULE MCBouquets -----------------------------
(* Two administrators at two bouquets with two streams, and a user. *)
EXTENDS Bouquets, TLC

CONSTANTS a1, a2, s1, s2

MCPutLists == {{s1}, {s1, s2}}
Symmetry == Permutations({a1, a2})
=============================================================================
