---------------------------- MODULE MCSessionAuth ----------------------------
(* SessionAuth for TLC.                                                    *)
EXTENDS SessionAuth
=============================================================================
