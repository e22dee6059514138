------------------------- MODULE MCRestartGovernor -------------------------
(* Instance for TLC and the mutated definitions that its properties reject. *)
EXTENDS RestartGovernor
=============================================================================
