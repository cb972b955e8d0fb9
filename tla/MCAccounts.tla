----------------------------- MODULE MCAccounts -----------------------------
(* Accounts for TLC: two addresses, one of them the configured super        *)
(* admin's, and two clients; the configuration gives the values.           *)
EXTENDS Accounts
=============================================================================
