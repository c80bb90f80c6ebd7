--------------------------- MODULE MCApprovalFlow ---------------------------
(* Model-checking instances of ApprovalFlow. *)
EXTENDS ApprovalFlow, TLC

(* Requests are interchangeable in the safety properties. *)
Symmetry == Permutations(Gate)
=============================================================================
