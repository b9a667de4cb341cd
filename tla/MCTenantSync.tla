----------------------------- MODULE MCTenantSync -----------------------------
(* The instance of TenantSync that TLC checks: nothing tells two files apart. *)
EXTENDS TenantSync, TLC

AnyFiles == Permutations(Files)
=============================================================================
