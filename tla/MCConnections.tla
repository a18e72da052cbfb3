---------------------------- MODULE MCConnections ----------------------------
(* a1 and a2 are the live requests of two devices of the user ann, ak is a *)
(* key request of a third; Glance is any of the three devices asking for a *)
(* thumbnail or a segment meanwhile.                                       *)
EXTENDS Connections, TLC

CONSTANTS ann, a1, a2, ak, Limit

MCUserOf == [r \in Requests |-> ann]
MCConnOf == [r \in Requests |-> CASE r = a1 -> "tv" [] r = a2 -> "phone" [] OTHER -> "tablet"]
MCIsLive == [r \in Requests |-> r # ak]
MCMax    == [u \in Users |-> Limit]

Symmetric == Permutations(Workers) \cup Permutations(Rows)
=============================================================================
