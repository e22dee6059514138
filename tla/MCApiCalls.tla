----------------------------- MODULE MCApiCalls -----------------------------
(* TLC's instance of ApiCalls.                                             *)
EXTENDS ApiCalls
=============================================================================
