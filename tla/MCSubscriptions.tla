--------------------------- MODULE MCSubscriptions ---------------------------
(* Subscriptions for TLC; the configuration gives the values.               *)
EXTENDS Subscriptions, TLC

Symmetry == Permutations(Clients)
=============================================================================
