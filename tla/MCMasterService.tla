-------------------------- MODULE MCMasterService --------------------------
(* Instances of MasterService for TLC. *)
EXTENDS MasterService, TLC

Symmetric == Permutations(Keys) \cup Permutations(Callers)
=============================================================================
