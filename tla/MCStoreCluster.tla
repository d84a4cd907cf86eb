--------------------------- MODULE MCStoreCluster ---------------------------
(* Instances of StoreCluster for TLC. *)
EXTENDS StoreCluster

Symmetric == Permutations(Keys) \cup Permutations(Workers)
=============================================================================
