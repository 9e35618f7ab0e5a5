----------------------------- MODULE MCAuditLog -----------------------------
(* AuditLog for TLC: four requests in any interleaving, two crashes and one *)
(* failing write; requests are interchangeable.                              *)
EXTENDS AuditLog

Symmetry == Permutations(Requests)
=============================================================================
