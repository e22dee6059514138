------------------------- MODULE MCSharedConnection -------------------------
(* SharedConnection for TLC: which method each of the writers calls.       *)
EXTENDS SharedConnection, TLC

CONSTANTS w, r, p

MCDoes ==
    [j \in Writers |-> CASE j = w -> "save_settings"
                         [] j = r -> "save_creds"
                         [] j = p -> "delete_tenant_messages"]
=============================================================================
