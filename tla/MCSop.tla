------------------------------- MODULE MCSop -------------------------------
EXTENDS SopRun, TLC

(* Processes and requests are told apart by equality only. *)
Symmetry == Permutations(Workers) \cup Permutations(Clients)
============================================================================
