------------------------ MODULE MCAuditedRepository ------------------------
(* A small instance of AuditedRepository for TLC. *)
EXTENDS AuditedRepository, TLC

\* Callers are interchangeable: no action or safety property names one.
Symmetry == Permutations(Caller)
=============================================================================
