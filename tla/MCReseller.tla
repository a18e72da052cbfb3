----------------------------- MODULE MCReseller -----------------------------
(* Packages that cost two credits, none and less than none beside the      *)
(* users that cost one; limits and amounts small enough for the credits to *)
(* run out and to be full.                                                 *)
EXTENDS Reseller, TLC

MCCosts == {-1, 0, 2}
MCStart == [r \in Resellers |-> 2]
MCMax   == [r \in Resellers |-> 3]
MCPuts  == {-1, 4}

Symmetric == Permutations(Requests) \cup Permutations(Users)
=============================================================================
