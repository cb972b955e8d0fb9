--------------------------- MODULE MCCreditLedger ---------------------------
(* CreditLedger for TLC.  The configurations give every constant its value: *)
(* two accounts and two clients, so that transfers in both directions and   *)
(* two requests on one account run at the same time.                       *)
EXTENDS CreditLedger
=============================================================================
