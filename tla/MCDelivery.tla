----------------------------- MODULE MCDelivery -----------------------------
(* TLC's instance of Delivery.                                             *)
EXTENDS Delivery, TLC

(* The settings, looked at one after the other: the tasks of one setting   *)
(* share nothing with those of another but the rows.                       *)
MCConfigs ==
    [backend : {"sqlite", "postgres"}, reopen : {TRUE}, uses : {{"history", "media"}}]
    \cup [backend : {"postgres"}, reopen : {TRUE}, uses : {{"webhook"}, {"chatwoot"}}]
    \cup [backend : {"postgres"}, reopen : BOOLEAN, uses : {{"import"}}]

Symmetry == Permutations(Messages) \cup Permutations(Jobs)
=============================================================================
