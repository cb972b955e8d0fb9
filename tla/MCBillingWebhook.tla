-------------------------- MODULE MCBillingWebhook --------------------------
(* Instances of BillingWebhook for TLC.                                    *)
EXTENDS BillingWebhook, TLC

CONSTANTS e1, e2, e3

MCEvents == {e1, e2, e3}
(* A package checkout with a coupon, a subscription checkout with a coupon  *)
(* and an event that needs no write of onCheckoutCompleted.                 *)
MCKind == (e1 :> "package") @@ (e2 :> "subscription") @@ (e3 :> "nothing")
MCWithCoupon == {e1, e2}
=============================================================================
