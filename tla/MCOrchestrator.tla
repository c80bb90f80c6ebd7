--------------------------- MODULE MCOrchestrator ---------------------------
(* Model-checking instances of Orchestrator. *)
EXTENDS Orchestrator, TLC

(* Requests and task slots are interchangeable in the safety properties. *)
Symmetry == Permutations(Req) \cup Permutations(Task)
=============================================================================
