------------------------------ MODULE MCAuditLog ------------------------------
(* Model-checking instances of AuditLog. *)
EXTENDS AuditLog, TLC

(* Threads are interchangeable. *)
Symmetry == Permutations(Thread)
===============================================================================
