------------------------------ MODULE MCEngine ------------------------------
EXTENDS Engine, TLC

(* Leases, processes and requests are told apart by equality only. *)
Symmetry == Permutations(LeaseIds) \cup Permutations(Workers) \cup Permutations(Deciders)
============================================================================
