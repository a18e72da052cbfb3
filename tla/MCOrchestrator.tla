--------------------------- MODULE MCOrchestrator ---------------------------
(* The critical api and one optional worker; two commands at a time; two   *)
(* pids, so that a service can run beside its old copy and a pid be reused.*)
EXTENDS Orchestrator, TLC

Symmetric == Permutations(Commands) \cup Permutations(Pids)
=============================================================================
