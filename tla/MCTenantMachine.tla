-------------------------- MODULE MCTenantMachine --------------------------
(***************************************************************************)
(* Model-checking instances of TenantMachine.                              *)
(***************************************************************************)
EXTENDS TenantMachine, TLC

\* Machines are interchangeable if the sets of ControlPlanes and SizedSets are
\* closed under permutation; only for runs without liveness.
Symmetry == Permutations(Machines)

=============================================================================
