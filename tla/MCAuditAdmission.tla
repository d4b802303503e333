-------------------------- MODULE MCAuditAdmission --------------------------
(* The audit webhook checked on small sets of requests and object contents. *)
EXTENDS AuditAdmission, TLC

CONSTANTS q1, q2, q3, q4, a, b, k

Symmetry == Permutations(Requests) \cup Permutations(Specs)
=============================================================================
