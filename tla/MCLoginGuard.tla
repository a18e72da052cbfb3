---------------------------- MODULE MCLoginGuard ----------------------------
(* Two threads of a worker serve two addresses, which are locked out at a   *)
(* count of none, one or two as the setting changes; two administrators     *)
(* edit the list of both.                                                   *)
EXTENDS LoginGuard, TLC

CONSTANTS t1, t2, a1, a2, i1, i2

Symmetry == Permutations({t1, t2}) \cup Permutations({a1, a2}) \cup Permutations({i1, i2})
=============================================================================
