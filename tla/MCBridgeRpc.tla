---------------------------- MODULE MCBridgeRpc ----------------------------
(* BridgeRpc for TLC.                                                      *)
EXTENDS BridgeRpc
=============================================================================
