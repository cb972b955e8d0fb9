------------------------------- MODULE Checkout -------------------------------
(***************************************************************************)
(* Selling through Stripe's checkout: what BillingService.startPackage-    *)
(* Checkout, startPlanCheckout, openBillingPortal and refundPaymentAdmin   *)
(* and CouponsService do to our tables and to Stripe's objects.            *)
(*                                                                         *)
(* A checkout reads the item, finds or makes the user's Stripe customer,   *)
(* checks the coupon and opens a session.  The customer pays later, or     *)
(* never; the redemption is recorded later still, when the webhook of the  *)
(* session arrives.  (That it takes effect at most once, and how it may be *)
(* lost, is BillingWebhook's matter.)  Coupons, customers and refunds each *)
(* keep a row beside an object at Stripe, written one after the other.     *)
(* Stripe is configured: isEnabled() holds.                                *)
(***************************************************************************)
EXTENDS Integers, FiniteSets

CONSTANTS
  Users, Packages, Plans, Coupons,
  Clients,      \* requests the servers run concurrently
  MaxRequests,  \* bound: requests begun in a behavior, webhooks aside
  MaxSessions,  \* bound: checkout sessions opened
  None          \* no row, no session, no coupon, no request

ASSUME CheckoutAssumption == MaxRequests \in Nat /\ MaxSessions \in Nat

Items == Packages \cup Plans
Ids == 1 .. MaxSessions
Total == 2                          \* what every session charges
Amounts == 0 .. Total               \* of a refund; 0: none was given
Scopes == {"ALL", "PACKAGES", "PLANS"}
Kinds == {"ONE_TIME", "other"}      \* of a package; a plan with a Stripe price or none
Ops == {"checkout", "portal", "deliver", "refund", "create", "update", "remove"}
Places == {"idle", "enrolling", "saving", "resolving", "opening", "recording", "redeeming",
           "refunding", "storing", "syncing", "inserting", "telling"}
PaymentStatus == {"none", "completed", "partially_refunded", "refunded"}

ItemRows == [active : BOOLEAN, kind : Kinds]
CouponRows == [active : BOOLEAN, scope : Scopes, max : Nat, used : Nat, stripe : Nat, promo : Nat]
Sessions == [user : Users, item : Items, coupon : Coupons \cup {None}, customer : Nat \ {0},
             before : Nat, stage : {"open", "paid", "expired", "delivered"}]
Requests == [op : Ops, user : Users \cup {None}, item : Items \cup {None},
             k : Coupons \cup {None}, n : Nat, amount : Amounts, id : Nat,
             row : CouponRows \cup {None}]

ASSUME NoneAssumption ==
  None \notin Coupons \cup ItemRows \cup CouponRows \cup Sessions \cup Requests

VARIABLES
  item,      \* packages and plans
  coupon,    \* the Coupon table
  redeemed,  \* CouponRedemption rows of each coupon and user
  customer,  \* the StripeCustomer table: the id of each user's customer, or 0
  payment,   \* status of the Payment row of each session
  made,      \* customers and promotion codes Stripe has made (names them)
  codes,     \* promotion codes active at Stripe under each coupon's code
  session,   \* Stripe's checkout sessions
  returned,  \* what Stripe has refunded of each
  pc, req, begun,
  disturbed, \* history: coupons whose edits overlapped, or one was cut short
  lost       \* history: sessions with a refund that was interrupted

tables == <<item, coupon, redeemed, customer, payment>>
stripe == <<made, codes, session, returned>>
history == <<disturbed, lost>>
vars == <<tables, stripe, pc, req, begun, history>>

NewCoupon(active, scope, max) == [active |-> active, scope |-> scope, max |-> max, used |-> 0,
                                  stripe |-> 0, promo |-> 0]

(* Every item for sale or not, a coupon as create left it or none, nobody a  *)
(* customer yet.                                                           *)
Init ==
  /\ item \in [Items -> {None} \cup [active : {TRUE}, kind : Kinds]]
  /\ coupon \in [Coupons -> {None} \cup {[NewCoupon(TRUE, s, 1) EXCEPT !.stripe = 1, !.promo = 1]
                                         : s \in {"ALL", "PLANS"}}]
  /\ redeemed = [k \in Coupons |-> [u \in Users |-> 0]]
  /\ customer = [u \in Users |-> 0]
  /\ payment = [n \in Ids |-> "none"] /\ returned = [n \in Ids |-> 0]
  /\ made = 1
  /\ codes = [k \in Coupons |-> IF coupon[k] = None THEN {} ELSE {1}]
  /\ session = [n \in Ids |-> None]
  /\ pc = [c \in Clients |-> "idle"] /\ req = [c \in Clients |-> None]
  /\ begun = 0
  /\ disturbed = {} /\ lost = {}

Request(op) == [op |-> op, user |-> None, item |-> None, k |-> None, n |-> 0, amount |-> 0,
                id |-> 0, row |-> None]

Begin(c, r, step) ==
  /\ pc[c] = "idle"
  /\ pc' = [pc EXCEPT ![c] = step]
  /\ req' = [req EXCEPT ![c] = r]

Accept(c, r, step) ==
  /\ begun < MaxRequests /\ begun' = begun + 1
  /\ Begin(c, r, step)

(* On to the next step, with what this one has learned. *)
Continue(c, r, step) ==
  /\ pc' = [pc EXCEPT ![c] = step]
  /\ req' = [req EXCEPT ![c] = IF step = "idle" THEN None ELSE r]
  /\ UNCHANGED begun

Goto(c, step) == Continue(c, req[c], step)

-----------------------------------------------------------------------------
(* createPackage and createPlan; updatePackage and updatePlan; the delete of *)
(* either only withdraws the row.                                          *)
EditItem(i, row) ==
  /\ begun < MaxRequests /\ begun' = begun + 1
  /\ item' = [item EXCEPT ![i] = row]
  /\ UNCHANGED <<coupon, redeemed, customer, payment, stripe, pc, req, history>>

CreateItem(i) == item[i] = None /\ \E kind \in Kinds :
                   EditItem(i, [active |-> TRUE, kind |-> kind])
UpdateItem(i) == item[i] # None /\ \E active \in BOOLEAN, kind \in Kinds :
                   EditItem(i, [active |-> active, kind |-> kind])
DeleteItem(i) == item[i] # None /\ EditItem(i, [item[i] EXCEPT !.active = FALSE])

(* A one-time package, or a plan that Stripe has a price for. *)
ForSale(i) == item[i] # None /\ item[i].active /\ item[i].kind = "ONE_TIME"

-----------------------------------------------------------------------------
(* startPackageCheckout, startPlanCheckout and openBillingPortal.  First    *)
(* getOrCreateStripeCustomer.                                              *)
NextOf(r) == CASE r.op = "portal" -> "idle"
               [] r.op # "portal" /\ r.k = None -> "opening"
               [] OTHER -> "resolving"

StartCheckout(c, u, i, k) ==
  LET r == [Request("checkout") EXCEPT !.user = u, !.item = i, !.k = k, !.id = customer[u]] IN
  /\ ForSale(i)
  /\ Accept(c, r, IF customer[u] = 0 THEN "enrolling" ELSE NextOf(r))
  /\ UNCHANGED <<tables, stripe, history>>

OpenBillingPortal(c, u) ==
  /\ customer[u] = 0
  /\ Accept(c, [Request("portal") EXCEPT !.user = u], "enrolling")
  /\ UNCHANGED <<tables, stripe, history>>

CreateCustomer(c) ==
  /\ pc[c] = "enrolling"
  /\ made' = made + 1
  /\ Continue(c, [req[c] EXCEPT !.id = made + 1], "saving")
  /\ UNCHANGED <<tables, codes, session, returned, history>>

(* Mutation: who comes second goes on with the customer it made. *)
SaveCustomer_ignored(c) ==
  LET r == req[c] IN
  /\ pc[c] = "saving"
  /\ customer' = IF customer[r.user] = 0 THEN [customer EXCEPT ![r.user] = r.id] ELSE customer
  /\ Goto(c, NextOf(r))
  /\ UNCHANGED <<item, coupon, redeemed, payment, stripe, history>>
(* The row's key is the user: who comes second fails, and leaves a customer *)
(* at Stripe that nothing names.                                           *)
SaveCustomer(c) ==
  LET r == req[c] IN
  /\ pc[c] = "saving"
  /\ IF customer[r.user] = 0
     THEN customer' = [customer EXCEPT ![r.user] = r.id] /\ Goto(c, NextOf(r))
     ELSE UNCHANGED customer /\ Goto(c, "idle")
  /\ UNCHANGED <<item, coupon, redeemed, payment, stripe, history>>

(* Mutation: whether the user has redeemed it before is not asked. *)
Redeemable_again(k, u, i) ==
  /\ coupon[k] # None /\ coupon[k].active
  /\ coupon[k].max = 0 \/ coupon[k].used < coupon[k].max
  /\ coupon[k].scope \in {"ALL", IF i \in Packages THEN "PACKAGES" ELSE "PLANS"}
Redeemable(k, u, i) ==
  /\ coupon[k] # None /\ coupon[k].active
  /\ coupon[k].max = 0 \/ coupon[k].used < coupon[k].max
  /\ redeemed[k][u] = 0
  /\ coupon[k].scope \in {"ALL", IF i \in Packages THEN "PACKAGES" ELSE "PLANS"}

ResolveForCheckout(c) ==
  LET r == req[c] IN
  /\ pc[c] = "resolving"
  /\ IF Redeemable(r.k, r.user, r.item)
     THEN Continue(c, [r EXCEPT !.row = coupon[r.k], !.n = redeemed[r.k][r.user]], "opening")
     ELSE Goto(c, "idle")
  /\ UNCHANGED <<tables, stripe, history>>

(* The session takes its discount from the coupon's id at Stripe, if it has *)
(* one, and the coupon into its metadata in any case.                      *)
CreateCheckoutSession(c) ==
  LET r == req[c] IN
  /\ pc[c] = "opening"
  /\ \E n \in Ids :
       /\ session[n] = None /\ \A m \in 1 .. n - 1 : session[m] # None
       /\ session' = [session EXCEPT ![n] =
            [user |-> r.user, item |-> r.item, coupon |-> r.k, customer |-> r.id,
             before |-> r.n,    \* history: the user's redemptions the check saw
             stage |-> "open"]]
  /\ Goto(c, "idle")
  /\ UNCHANGED <<tables, made, codes, returned, history>>

Stage(n, to) == session' = [session EXCEPT ![n].stage = to]

(* The customer pays, or lets the session expire. *)
Pay(n) ==
  /\ session[n] # None /\ session[n].stage = "open"
  /\ \E to \in {"paid", "expired"} : Stage(n, to)
  /\ UNCHANGED <<tables, made, codes, returned, pc, req, begun, history>>

-----------------------------------------------------------------------------
(* onCheckoutCompleted: the Payment row, and for a plan the redemption.     *)
Deliver(c, n) ==
  /\ session[n] # None /\ session[n].stage = "paid"
  /\ Stage(n, "delivered")
  /\ Begin(c, [Request("deliver") EXCEPT !.n = n], "recording")
  /\ UNCHANGED <<tables, made, codes, returned, begun, history>>

OnCheckoutCompleted(c) ==
  LET n == req[c].n IN
  /\ pc[c] = "recording"
  /\ payment' = [payment EXCEPT ![n] = "completed"]
  /\ Goto(c, IF session[n].item \in Plans /\ session[n].coupon # None
             THEN "redeeming" ELSE "idle")
  /\ UNCHANGED <<item, coupon, redeemed, customer, stripe, history>>

RecordRedemption(c) ==
  LET s == session[req[c].n]  k == s.coupon IN
  /\ pc[c] = "redeeming"
  /\ redeemed' = [redeemed EXCEPT ![k][s.user] = @ + 1]
  /\ coupon' = [coupon EXCEPT ![k].used = @ + 1]
  /\ Goto(c, "idle")
  /\ UNCHANGED <<item, customer, payment, stripe, history>>

-----------------------------------------------------------------------------
(* refundPaymentAdmin: the row is read, Stripe is asked, the row is written. *)
RefundPaymentAdmin(c, n, amount) ==
  /\ payment[n] \in {"completed", "partially_refunded"}
  /\ Accept(c, [Request("refund") EXCEPT !.n = n, !.amount = amount], "refunding")
  /\ UNCHANGED <<tables, stripe, history>>

(* Stripe returns what was asked for, or what is left; never more, and      *)
(* nothing for a plan, whose session has no payment intent.                *)
Refundable(n, amount) ==
  session[n].item \in Packages /\ returned[n] < Total /\ returned[n] + amount <= Total
Refund(n, amount) ==
  returned' = [returned EXCEPT ![n] = IF amount = 0 THEN Total ELSE @ + amount]

(* Mutation: a refusal is logged, and the row written. *)
RefundAtStripe_logged(c) ==
  LET n == req[c].n  amount == req[c].amount IN
  /\ pc[c] = "refunding"
  /\ IF Refundable(n, amount) THEN Refund(n, amount) ELSE UNCHANGED returned
  /\ Goto(c, "storing")
  /\ UNCHANGED <<tables, made, codes, session, history>>
RefundAtStripe(c) ==
  LET n == req[c].n  amount == req[c].amount IN
  /\ pc[c] = "refunding"
  /\ IF Refundable(n, amount)
     THEN Refund(n, amount) /\ Goto(c, "storing")
     ELSE UNCHANGED returned /\ Goto(c, "idle")
  /\ UNCHANGED <<tables, made, codes, session, history>>

RefundStatus(amount) ==
  IF amount \in 1 .. Total - 1 THEN "partially_refunded" ELSE "refunded"

StoreRefund(c) ==
  /\ pc[c] = "storing" /\ req[c].op = "refund"
  /\ payment' = [payment EXCEPT ![req[c].n] = RefundStatus(req[c].amount)]
  /\ Goto(c, "idle")
  /\ UNCHANGED <<item, coupon, redeemed, customer, stripe, history>>

-----------------------------------------------------------------------------
(* Coupons.  A request that meets another about the same coupon, or the     *)
(* failure of one, may leave Stripe and the table apart.                   *)
Editing(c, k) == req[c] # None /\ req[c].op \in {"create", "update", "remove"} /\ req[c].k = k
Disturb(c, k) == disturbed' = IF \E d \in Clients \ {c} : Editing(d, k)
                              THEN disturbed \cup {k} ELSE disturbed

(* create: the code must be free; coupon and promotion code are made at     *)
(* Stripe, whose errors are logged only; and the row is inserted, unless    *)
(* the unique code has been taken.  Stripe keeps an active code unique too. *)
CreateCoupon(c, k, row) ==
  /\ coupon[k] = None
  /\ Accept(c, [Request("create") EXCEPT !.k = k, !.row = row], "syncing")
  /\ Disturb(c, k)
  /\ UNCHANGED <<tables, stripe, lost>>

(* Stripe has made the promotion code of the coupon id: it is answered, or  *)
(* the answer is lost, and then nothing knows of the code any more.         *)
PromotionMade(c, known, id) ==
  LET k == known.k IN
  /\ known.row.active => codes[k] = {}
  /\ codes' = IF known.row.active THEN [codes EXCEPT ![k] = {id}] ELSE codes
  /\ \/ Continue(c, [known EXCEPT !.row.promo = id], "inserting") /\ UNCHANGED disturbed
     \/ Continue(c, known, "inserting") /\ disturbed' = disturbed \cup {k}

(* Either call may be refused, or be carried out and its answer be lost.    *)
SyncCoupon(c) ==
  LET r == req[c]  id == made + 1
      known == [r EXCEPT !.row.stripe = id] IN
  /\ pc[c] = "syncing"
  /\ \/ made' = id /\ PromotionMade(c, known, id)
     \/ /\ made' = id /\ UNCHANGED <<codes, disturbed>>
        /\ Continue(c, known, "inserting") \/ Goto(c, "inserting")
     \/ UNCHANGED <<made, codes, disturbed>> /\ Goto(c, "inserting")
  /\ UNCHANGED <<tables, session, returned, lost>>

InsertCoupon(c) ==
  LET r == req[c] IN
  /\ pc[c] = "inserting"
  /\ coupon' = IF coupon[r.k] = None THEN [coupon EXCEPT ![r.k] = r.row] ELSE coupon
  /\ Goto(c, "idle")
  /\ UNCHANGED <<item, redeemed, customer, payment, stripe, history>>

(* update: a change of active goes to Stripe first, remove tells Stripe     *)
(* last; neither minds if Stripe fails.                                    *)
UpdateCoupon(c, k, to) ==
  /\ coupon[k] # None
  /\ Accept(c, [Request("update") EXCEPT !.k = k, !.row = to, !.id = coupon[k].promo],
            IF coupon[k].promo # 0 /\ to.active # coupon[k].active
            THEN "telling" ELSE "storing")
  /\ Disturb(c, k)
  /\ UNCHANGED <<tables, stripe, lost>>

RemoveCoupon(c, k) ==
  /\ coupon[k] # None
  /\ Accept(c, [Request("remove") EXCEPT !.k = k, !.id = coupon[k].promo,
                  !.row = [coupon[k] EXCEPT !.active = FALSE]], "storing")
  /\ Disturb(c, k)
  /\ UNCHANGED <<tables, stripe, lost>>

UpdatePromotionCode(c) ==
  LET r == req[c] IN
  /\ pc[c] = "telling"
  /\ \/ /\ codes' = [codes EXCEPT ![r.k] = IF r.row.active THEN @ \cup {r.id} ELSE @ \ {r.id}]
        /\ UNCHANGED disturbed
     \/ UNCHANGED codes /\ disturbed' = disturbed \cup {r.k}
  /\ Goto(c, IF r.op = "update" THEN "storing" ELSE "idle")
  /\ UNCHANGED <<tables, made, session, returned, lost>>

(* Mutation: a removed coupon is only switched off in the table. *)
AfterStore_quiet(r) == "idle"
AfterStore(r) == IF r.op = "remove" /\ r.id # 0 THEN "telling" ELSE "idle"

StoreCoupon(c) ==
  LET r == req[c] IN
  /\ pc[c] = "storing" /\ r.op \in {"update", "remove"}
  /\ coupon' = [coupon EXCEPT ![r.k] =
                  IF r.op = "remove" THEN [@ EXCEPT !.active = FALSE]
                  ELSE [@ EXCEPT !.active = r.row.active, !.scope = r.row.scope,
                                 !.max = r.row.max]]
  /\ Goto(c, AfterStore(r))
  /\ UNCHANGED <<item, redeemed, customer, payment, stripe, history>>

-----------------------------------------------------------------------------
(* An error, a lost answer or a crash ends a request between two steps.     *)
Fail(c) ==
  /\ pc[c] # "idle"
  /\ disturbed' = disturbed \cup {k \in Coupons : Editing(c, k)}
  /\ lost' = IF pc[c] = "storing" /\ req[c].op = "refund" THEN lost \cup {req[c].n} ELSE lost
  /\ Goto(c, "idle")
  /\ UNCHANGED <<tables, stripe>>

-----------------------------------------------------------------------------
Handle(c) ==
  \/ \E u \in Users : \/ OpenBillingPortal(c, u)
                      \/ \E i \in Items, k \in Coupons \cup {None} : StartCheckout(c, u, i, k)
  \/ \E n \in Ids : Deliver(c, n) \/ \E amount \in Amounts : RefundPaymentAdmin(c, n, amount)
  \/ \E k \in Coupons :
       \/ \E active \in BOOLEAN, scope \in Scopes, max \in 0 .. 1 :
            CreateCoupon(c, k, NewCoupon(active, scope, max))
       \/ coupon[k] # None /\ \E active \in BOOLEAN, max \in 0 .. 1 :
            UpdateCoupon(c, k, [coupon[k] EXCEPT !.active = active, !.max = max])
       \/ RemoveCoupon(c, k)

Proceed(c) ==
  \/ CreateCustomer(c) \/ SaveCustomer(c) \/ ResolveForCheckout(c) \/ CreateCheckoutSession(c)
  \/ OnCheckoutCompleted(c) \/ RecordRedemption(c) \/ RefundAtStripe(c) \/ StoreRefund(c)
  \/ SyncCoupon(c) \/ InsertCoupon(c) \/ UpdatePromotionCode(c) \/ StoreCoupon(c)

Next ==
  \/ \E c \in Clients : Handle(c) \/ Proceed(c) \/ Fail(c)
  \/ \E n \in Ids : Pay(n)
  \/ \E i \in Items : CreateItem(i) \/ UpdateItem(i) \/ DeleteItem(i)

Spec == Init /\ [][Next]_vars

-----------------------------------------------------------------------------
(* What the tables and the requests in progress hold. *)
TypeOK ==
  /\ item \in [Items -> ItemRows \cup {None}]
  /\ coupon \in [Coupons -> CouponRows \cup {None}]
  /\ redeemed \in [Coupons -> [Users -> Nat]]
  /\ customer \in [Users -> Nat] /\ made \in Nat
  /\ codes \in [Coupons -> SUBSET Nat]
  /\ payment \in [Ids -> PaymentStatus] /\ returned \in [Ids -> 0 .. Total]
  /\ session \in [Ids -> Sessions \cup {None}]
  /\ pc \in [Clients -> Places]
  /\ req \in [Clients -> Requests \cup {None}]
  /\ \A c \in Clients : (pc[c] = "idle") <=> (req[c] = None)
  /\ begun \in 0 .. MaxRequests
  /\ disturbed \subseteq Coupons /\ lost \subseteq Ids

(* However many checkouts of a user race to make his Stripe customer, every  *)
(* session belongs to the one customer our row names.                      *)
SessionsUseTheRow ==
  \A n \in Ids : session[n] # None => session[n].customer = customer[session[n].user]

(* The redemption rows of a coupon, one element each. *)
RedemptionsOf(k) == UNION {{u} \X (1 .. redeemed[k][u]) : u \in Users}

(* timesRedeemed counts the redemption rows; and a user who has redeemed a   *)
(* coupon more than once had that many sessions opened with it that were     *)
(* checked before the first redemption was recorded.                       *)
UsesAreEarned ==
  \A k \in Coupons :
    /\ coupon[k] # None => coupon[k].used = Cardinality(RedemptionsOf(k))
    /\ \A u \in Users :
         redeemed[k][u] <= Cardinality({n \in Ids : /\ session[n] # None
                                                    /\ session[n].user = u
                                                    /\ session[n].coupon = k
                                                    /\ session[n].before = 0})

(* Once nobody is editing a coupon, its code works at Stripe exactly when    *)
(* the row is active and names it; unless edits of it overlapped, the server *)
(* failed in the middle of one, Stripe failed to switch the code, or it made *)
(* the code and the answer was lost (coupons.service.ts, lines 100-132).     *)
PromotionsFollowCoupons ==
  \A k \in Coupons \ disturbed :
    (\A c \in Clients : ~ Editing(c, k)) =>
      codes[k] = IF coupon[k] # None /\ coupon[k].active /\ coupon[k].promo # 0
                 THEN {coupon[k].promo} ELSE {}

(* A payment marked refunded was returned in full, one marked partially      *)
(* refunded at least in part; and money Stripe returned shows in the row,    *)
(* unless the request that returned it is still running or was interrupted.  *)
RefundsAgree ==
  \A n \in Ids :
    /\ payment[n] = "refunded" => returned[n] = Total
    /\ payment[n] = "partially_refunded" => returned[n] > 0
    /\ payment[n] = "completed" /\ returned[n] > 0 =>
         n \in lost \/ \E c \in Clients : pc[c] = "storing" /\ req[c].n = n
=============================================================================
