--------------------------- MODULE MCRecoveryStore ---------------------------
(* Small instances of RecoveryStore for TLC. *)
EXTENDS RecoveryStore, TLC

Symmetry == Permutations(Appliers) \cup Permutations(Executions)
=============================================================================
