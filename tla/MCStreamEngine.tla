--------------------------- MODULE MCStreamEngine ---------------------------
(* Two threads, two streams, and one pid more than there are streams.      *)
EXTENDS StreamEngine, TLC

Symmetric == Permutations(Threads) \cup Permutations(Streams) \cup Permutations(Pids)
=============================================================================
