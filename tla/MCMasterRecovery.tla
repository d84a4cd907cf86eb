-------------------------- MODULE MCMasterRecovery --------------------------
(* Instances of MasterRecovery for TLC. *)
EXTENDS MasterRecovery

Symmetric == Permutations(Keys) \cup Permutations(Callers)
=============================================================================
