------------------------- MODULE MCTenantLifecycle -------------------------
(* TenantLifecycle for TLC.                                                *)
EXTENDS TenantLifecycle, TLC

Symmetry == Permutations(Bridges) \cup Permutations(Workers)
=============================================================================
