------------------------------ MODULE MCAudit ------------------------------
EXTENDS AuditChain, TLC

(* A tenant whose chain began with the anchor. *)
NewTenant == <<>>

(* Appends, and hashes drawn by them, are told apart by equality only. *)
Symmetry == Permutations(Appenders) \cup Permutations(Hashes)
============================================================================
