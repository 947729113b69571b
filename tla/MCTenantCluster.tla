-------------------------- MODULE MCTenantCluster --------------------------
(***************************************************************************)
(* Model-checking instances of TenantCluster.                              *)
(***************************************************************************)
EXTENDS TenantCluster, TLC

\* Addresses and clusters are interchangeable; only for runs without liveness.
Symmetry == Permutations(Clusters) \cup Permutations(Addresses)

=============================================================================
