---------------------------- MODULE MCStreamQueue ----------------------------
(* Three items, the last one with the highest priority, so that the list   *)
(* order differs from the order of creation; one pass may die.             *)
EXTENDS StreamQueue, TLC

MCPriority == [i \in Items |-> IF i = 3 THEN 1 ELSE 0]

Symmetric == Permutations(Passes)
=============================================================================
