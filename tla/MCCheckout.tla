------------------------------ MODULE MCCheckout ------------------------------
(* Checkout for TLC: one user, one package, one plan and one coupon, with    *)
(* two clients; the configuration gives the values.                        *)
EXTENDS Checkout, TLC

Symmetry == Permutations(Clients)
=============================================================================
