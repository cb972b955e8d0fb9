---------------------------- MODULE CheckoutProofs ----------------------------
(* The safety of Checkout for every set of users, items, coupons and clients. *)
(* The types come first; what is proved of customers, refunds, promotion     *)
(* codes and redemptions then rests on the types and not on one another.    *)
EXTENDS Checkout, FiniteSetTheorems, TLAPS

Active(c) == pc[c] # "idle"
Selling(c) == pc[c] \in {"enrolling", "saving", "resolving", "opening"}

(* Where a request is says what it is doing, and with which rows; a coupon   *)
(* that a request or a session has found is never deleted.                  *)
Fits(c) ==
  /\ Selling(c) => /\ req[c].op \in {"checkout", "portal"}
                   /\ req[c].user \in Users /\ req[c].n = 0
                   /\ req[c].op = "checkout" => req[c].item \in Items
  /\ pc[c] \in {"saving", "resolving", "opening"} => req[c].id # 0
  /\ pc[c] \in {"resolving", "opening"} => req[c].op = "checkout"
  /\ pc[c] = "resolving" => req[c].k \in Coupons
  /\ pc[c] = "opening" /\ req[c].k # None => coupon[req[c].k] # None
  /\ pc[c] \in {"recording", "redeeming"} =>
       /\ req[c].op = "deliver" /\ req[c].n \in Ids
       /\ session[req[c].n] # None /\ session[req[c].n].stage = "delivered"
  /\ pc[c] = "redeeming" => session[req[c].n].coupon # None
  /\ pc[c] = "refunding" => req[c].op = "refund"
  /\ pc[c] = "storing" => req[c].op \in {"refund", "update", "remove"}
  /\ pc[c] \in {"syncing", "inserting"} => req[c].op = "create"
  /\ pc[c] = "telling" => req[c].op \in {"update", "remove"}
  /\ Active(c) /\ req[c].op = "refund" => req[c].n \in Ids
  /\ Active(c) /\ req[c].op \in {"create", "update", "remove"} =>
       req[c].k \in Coupons /\ req[c].row \in CouponRows
  /\ Active(c) /\ req[c].op \in {"update", "remove"} => coupon[req[c].k] # None
RequestsFit == \A c \in Clients : Fits(c)

CouponsStay ==
  \A n \in Ids : session[n] # None /\ session[n].coupon # None =>
                   coupon[session[n].coupon] # None

Types == TypeOK /\ RequestsFit /\ CouponsStay

-----------------------------------------------------------------------------
(* Rows of coupons and sessions are never deleted, and of a session only the *)
(* stage changes, until it is delivered.                                    *)
Keeps ==
  /\ \A k \in Coupons : coupon[k] # None => coupon'[k] # None
  /\ \A n \in Ids : session[n] # None =>
       /\ session'[n] # None
       /\ session'[n].user = session[n].user /\ session'[n].item = session[n].item
       /\ session'[n].coupon = session[n].coupon
       /\ session'[n].customer = session[n].customer /\ session'[n].before = session[n].before
       /\ session[n].stage = "delivered" => session'[n].stage = "delivered"

LEMMA NothingIsLost == UNCHANGED <<coupon, session>> => Keeps
  BY DEF Keeps

LEMMA NoneIsNoRow ==
  /\ None \notin Coupons /\ None \notin ItemRows /\ None \notin CouponRows
  /\ None \notin Sessions /\ None \notin Requests
  BY NoneAssumption

(* One client moves, or none: the others fit as they did. *)
LEMMA StepTypes ==
  ASSUME Types, TypeOK', Keeps,
         \A d \in Clients : (pc'[d] = pc[d] /\ req'[d] = req[d]) \/ Fits(d)',
         \A n \in Ids : session'[n] # None =>
           \/ session[n] # None
           \/ session'[n].coupon # None => coupon'[session'[n].coupon] # None
  PROVE  Types'
  <1>1. ASSUME NEW d \in Clients, pc'[d] = pc[d], req'[d] = req[d]  PROVE Fits(d)'
    <2>1. Active(d) => req[d] \in Requests
      BY DEF Types, TypeOK, Active
    <2>2. Active(d) => req[d].k \in Coupons \cup {None}
      BY <2>1 DEF Requests
    <2>3. Fits(d)
      BY DEF Types, RequestsFit
    <2>. QED  BY <1>1, <2>2, <2>3 DEF Fits, Active, Selling, Keeps
  <1>2. RequestsFit'
    BY <1>1 DEF RequestsFit
  <1>3. CouponsStay'
    <2>1. ASSUME NEW n \in Ids, session[n] # None, session'[n].coupon # None
          PROVE  coupon'[session'[n].coupon] # None
      <3>1. session[n].coupon \in Coupons /\ session'[n].coupon = session[n].coupon
        BY <2>1 DEF Types, TypeOK, Sessions, Keeps
      <3>. QED  BY <2>1, <3>1 DEF Types, CouponsStay, Keeps
    <2>. QED  BY <2>1 DEF CouponsStay
  <1>. QED  BY <1>2, <1>3 DEF Types

(* What a request is, as it begins and as it goes on. *)
LEMMA RequestFields ==
  ASSUME NEW op \in Ops
  PROVE  /\ Request(op) \in Requests
         /\ Request(op).op = op /\ Request(op).k = None /\ Request(op).n = 0
         /\ Request(op).id = 0 /\ Request(op).user = None /\ Request(op).row = None
  BY DEF Request, Requests, Amounts, Total

Moved(c, step, r) ==
  /\ pc'[c] = step /\ req'[c] = r
  /\ pc' \in [Clients -> Places] /\ req' \in [Clients -> Requests \cup {None}]
  /\ \A d \in Clients : (pc'[d] = "idle") <=> (req'[d] = None)
  /\ \A d \in Clients \ {c} : pc'[d] = pc[d] /\ req'[d] = req[d]

LEMMA BeginMoves ==
  ASSUME TypeOK, NEW c \in Clients, NEW r \in Requests, NEW step \in Places \ {"idle"},
         Begin(c, r, step)
  PROVE  pc[c] = "idle" /\ Moved(c, step, r)
  BY NoneIsNoRow DEF Begin, TypeOK, Moved

LEMMA AcceptMoves ==
  ASSUME TypeOK, NEW c \in Clients, NEW r \in Requests, NEW step \in Places \ {"idle"},
         Accept(c, r, step)
  PROVE  begun' \in 0 .. MaxRequests /\ pc[c] = "idle" /\ Moved(c, step, r)
  <1>1. begun' \in 0 .. MaxRequests
    BY CheckoutAssumption DEF Accept, TypeOK
  <1>. QED  BY <1>1, BeginMoves DEF Accept

LEMMA ContinueMoves ==
  ASSUME TypeOK, NEW c \in Clients, NEW r \in Requests, NEW step \in Places,
         Continue(c, r, step)
  PROVE  begun' = begun /\ Moved(c, step, IF step = "idle" THEN None ELSE r)
  BY NoneIsNoRow DEF Continue, TypeOK, Moved

LEMMA GotoMoves ==
  ASSUME TypeOK, NEW c \in Clients, Active(c), NEW step \in Places, Goto(c, step)
  PROVE  begun' = begun /\ Moved(c, step, IF step = "idle" THEN None ELSE req[c])
  <1>1. req[c] \in Requests
    BY DEF TypeOK, Active
  <1>. QED  BY <1>1, ContinueMoves DEF Goto

(* A request that is over fits. *)
LEMMA IdleFits == ASSUME NEW c \in Clients, pc'[c] = "idle"  PROVE Fits(c)'
  BY DEF Fits, Active, Selling

-----------------------------------------------------------------------------
LEMMA InitTypes == Init => Types
  <1>. SUFFICES ASSUME Init  PROVE Types
    OBVIOUS
  <1>1. item \in [Items -> ItemRows \cup {None}]
    <2>1. [active : {TRUE}, kind : Kinds] \subseteq ItemRows
      BY DEF ItemRows
    <2>. QED  BY <2>1 DEF Init
  <1>2. coupon \in [Coupons -> CouponRows \cup {None}]
    <2>1. ASSUME NEW s \in {"ALL", "PLANS"}
          PROVE  [NewCoupon(TRUE, s, 1) EXCEPT !.stripe = 1, !.promo = 1] \in CouponRows
      BY DEF NewCoupon, CouponRows, Scopes
    <2>. QED  BY <2>1 DEF Init
  <1>3. codes \in [Coupons -> SUBSET Nat]
    BY DEF Init
  <1>4. payment \in [Ids -> PaymentStatus] /\ returned \in [Ids -> 0 .. Total]
    BY DEF Init, PaymentStatus, Total
  <1>5. /\ session \in [Ids -> Sessions \cup {None}] /\ begun \in 0 .. MaxRequests
        /\ pc \in [Clients -> Places] /\ req \in [Clients -> Requests \cup {None}]
        /\ \A c \in Clients : (pc[c] = "idle") <=> (req[c] = None)
    BY CheckoutAssumption DEF Init, Places
  <1>6. TypeOK
    BY <1>1, <1>2, <1>3, <1>4, <1>5 DEF Init, TypeOK
  <1>7. RequestsFit /\ CouponsStay
    BY DEF Init, RequestsFit, Fits, Active, Selling, CouponsStay
  <1>. QED  BY <1>6, <1>7 DEF Types

-----------------------------------------------------------------------------
LEMMA EditItemTypes ==
  ASSUME Types, NEW i \in Items, NEW row \in ItemRows, EditItem(i, row)  PROVE Types'
  <1>1. begun' \in 0 .. MaxRequests /\ item' \in [Items -> ItemRows \cup {None}]
    BY CheckoutAssumption DEF EditItem, Types, TypeOK
  <1>2. UNCHANGED <<coupon, redeemed, customer, payment, made, codes, session, returned,
                    pc, req, disturbed, lost>>
    BY DEF EditItem, stripe, history
  <1>3. TypeOK'
    BY <1>1, <1>2 DEF Types, TypeOK
  <1>. QED  BY <1>2, <1>3, NothingIsLost, StepTypes

LEMMA ItemsTypes ==
  ASSUME Types, NEW i \in Items, CreateItem(i) \/ UpdateItem(i) \/ DeleteItem(i)
  PROVE  Types'
  <1>1. ASSUME NEW active \in BOOLEAN, NEW kind \in Kinds
        PROVE  [active |-> active, kind |-> kind] \in ItemRows
    BY DEF ItemRows
  <1>2. CASE CreateItem(i)
    BY <1>1, <1>2, EditItemTypes DEF CreateItem
  <1>3. CASE UpdateItem(i)
    BY <1>1, <1>3, EditItemTypes DEF UpdateItem
  <1>4. CASE DeleteItem(i)
    <2>1. item[i] \in ItemRows
      BY <1>4 DEF DeleteItem, Types, TypeOK
    <2>2. [item[i] EXCEPT !.active = FALSE] \in ItemRows
      BY <2>1 DEF ItemRows
    <2>. QED  BY <1>4, <2>2, EditItemTypes DEF DeleteItem
  <1>. QED  BY <1>2, <1>3, <1>4

(* A request that begins without writing a row. *)
LEMMA AcceptTypes ==
  ASSUME Types, NEW c \in Clients, NEW r \in Requests, NEW step \in Places \ {"idle"},
         Accept(c, r, step), Fits(c)', disturbed' \subseteq Coupons,
         UNCHANGED <<tables, stripe, lost>>
  PROVE  Types'
  <1>1. /\ begun' \in 0 .. MaxRequests /\ Moved(c, step, r)
        /\ UNCHANGED <<item, coupon, redeemed, customer, payment, made, codes, session,
                       returned, lost>>
    BY AcceptMoves DEF Types, tables, stripe
  <1>2. TypeOK'
    BY <1>1 DEF Types, TypeOK, Moved
  <1>3. \A d \in Clients : (pc'[d] = pc[d] /\ req'[d] = req[d]) \/ Fits(d)'
    BY <1>1 DEF Moved
  <1>. QED  BY <1>1, <1>2, <1>3, NothingIsLost, StepTypes

(* What a checkout that begins will be: its fields are set one after the     *)
(* other.                                                                   *)
LEMMA StartCheckoutFacts ==
  ASSUME Types, NEW c \in Clients, NEW u \in Users, NEW i \in Items,
         NEW k \in Coupons \cup {None}, StartCheckout(c, u, i, k)
  PROVE  \E r \in Requests, step \in {"enrolling", "opening", "resolving"} :
           /\ r.op = "checkout" /\ r.user = u /\ r.item = i /\ r.k = k /\ r.n = 0
           /\ r.id = customer[u]
           /\ step = "enrolling" <=> customer[u] = 0
           /\ step = "opening" => k = None
           /\ step = "resolving" => k # None
           /\ Accept(c, r, step) /\ UNCHANGED <<tables, stripe, disturbed, lost>>
  <1>. DEFINE q  == Request("checkout")
              q1 == [q EXCEPT !.user = u]
              q2 == [q1 EXCEPT !.item = i]
              q3 == [q2 EXCEPT !.k = k]
              r  == [q3 EXCEPT !.id = customer[u]]
              step == IF customer[u] = 0 THEN "enrolling" ELSE NextOf(r)
  <1>1. Accept(c, r, step) /\ UNCHANGED <<tables, stripe, disturbed, lost>>
    BY DEF StartCheckout, history
  <1>2. q \in Requests /\ q.op = "checkout" /\ q.n = 0
    BY RequestFields DEF Ops
  <1>. HIDE DEF q
  <1>3. q1 \in Requests /\ q1.op = q.op /\ q1.n = q.n /\ q1.user = u
    BY <1>2 DEF Requests
  <1>. HIDE DEF q1
  <1>4. q2 \in Requests /\ q2.op = q.op /\ q2.n = q.n /\ q2.user = u /\ q2.item = i
    BY <1>3 DEF Requests
  <1>. HIDE DEF q2
  <1>5. /\ q3 \in Requests /\ q3.op = q.op /\ q3.n = q.n /\ q3.user = u /\ q3.item = i
        /\ q3.k = k
    BY <1>4 DEF Requests
  <1>. HIDE DEF q3
  <1>6. /\ r \in Requests /\ r.op = q.op /\ r.n = q.n /\ r.user = u /\ r.item = i
        /\ r.k = k /\ r.id = customer[u]
    BY <1>5 DEF Requests, Types, TypeOK
  <1>. HIDE DEF r
  <1>7. /\ step = "enrolling" <=> customer[u] = 0
        /\ step \in {"enrolling", "opening", "resolving"}
        /\ step = "opening" => k = None
        /\ step = "resolving" => k # None
    BY <1>2, <1>6 DEF NextOf
  <1>. HIDE DEF step
  <1>. QED  BY <1>1, <1>2, <1>6, <1>7

LEMMA StartCheckoutTypes ==
  ASSUME Types, NEW c \in Clients, NEW u \in Users, NEW i \in Items,
         NEW k \in Coupons \cup {None}, StartCheckout(c, u, i, k)
  PROVE  Types'
  <1>1. PICK r \in Requests, step \in {"enrolling", "opening", "resolving"} :
          /\ r.op = "checkout" /\ r.user = u /\ r.item = i /\ r.k = k /\ r.n = 0
          /\ step = "opening" => k = None
          /\ step = "resolving" => k # None
          /\ r.id = customer[u] /\ (step = "enrolling" <=> customer[u] = 0)
          /\ Accept(c, r, step) /\ UNCHANGED <<tables, stripe, disturbed, lost>>
    BY StartCheckoutFacts
  <1>2. step \in Places \ {"idle"}
    BY DEF Places
  <1>3. Moved(c, step, r)
    BY <1>1, <1>2, AcceptMoves DEF Types
  <1>4. Fits(c)'
    BY <1>1, <1>3 DEF Moved, Fits, Active, Selling
  <1>. QED  BY <1>1, <1>2, <1>4, AcceptTypes DEF Types, TypeOK

LEMMA OpenBillingPortalTypes ==
  ASSUME Types, NEW c \in Clients, NEW u \in Users, OpenBillingPortal(c, u)  PROVE Types'
  <1>. DEFINE r == [Request("portal") EXCEPT !.user = u]
  <1>1. r \in Requests /\ r.op = "portal" /\ r.user = u /\ r.n = 0
    BY DEF Request, Requests, Ops, Amounts, Total
  <1>2. Accept(c, r, "enrolling") /\ UNCHANGED <<tables, stripe, disturbed, lost>>
    BY DEF OpenBillingPortal, history
  <1>. HIDE DEF r
  <1>3. Moved(c, "enrolling", r)
    BY <1>1, <1>2, AcceptMoves DEF Types, Places
  <1>4. Fits(c)'
    BY <1>1, <1>3 DEF Moved, Fits, Active, Selling
  <1>. QED  BY <1>1, <1>2, <1>4, AcceptTypes DEF Types, TypeOK, Places

LEMMA CreateCustomerTypes ==
  ASSUME Types, NEW c \in Clients, CreateCustomer(c)  PROVE Types'
  <1>. DEFINE r == [req[c] EXCEPT !.id = made + 1]
  <1>1. /\ pc[c] = "enrolling" /\ Fits(c) /\ req[c] \in Requests
        /\ made' \in Nat /\ made + 1 \in Nat \ {0} /\ Continue(c, r, "saving")
        /\ UNCHANGED <<item, coupon, redeemed, customer, payment, codes, session,
                       returned, disturbed, lost>>
    BY DEF CreateCustomer, Types, TypeOK, RequestsFit, tables, history
  <1>2. /\ r \in Requests /\ r.id # 0 /\ r.op = req[c].op /\ r.user = req[c].user
        /\ r.item = req[c].item /\ r.n = req[c].n
    BY <1>1 DEF Requests
  <1>. HIDE DEF r
  <1>3. begun' = begun /\ Moved(c, "saving", r)
    BY <1>1, <1>2, ContinueMoves DEF Types, Places
  <1>4. Fits(c)' /\ TypeOK'
    <2>1. Fits(c)'
      BY <1>1, <1>2, <1>3 DEF Moved, Fits, Active, Selling
    <2>. QED  BY <1>1, <1>3, <2>1 DEF Moved, Types, TypeOK
  <1>. QED  BY <1>1, <1>3, <1>4, NothingIsLost, StepTypes DEF Moved

LEMMA SaveCustomerTypes ==
  ASSUME Types, NEW c \in Clients, SaveCustomer(c)  PROVE Types'
  <1>1. /\ pc[c] = "saving" /\ Active(c) /\ Fits(c) /\ req[c] \in Requests
        /\ UNCHANGED <<item, coupon, redeemed, payment, made, codes, session,
                       returned, disturbed, lost>>
    BY DEF SaveCustomer, Types, TypeOK, RequestsFit, stripe, history, Active
  <1>2. req[c].user \in Users /\ req[c].id \in Nat
    BY <1>1 DEF Fits, Selling, Requests
  <1>3. customer' \in [Users -> Nat]
    BY <1>2 DEF SaveCustomer, Types, TypeOK
  <1>4. PICK step \in {"idle", "opening", "resolving"} :
          /\ Goto(c, step)
          /\ step # "idle" => req[c].op # "portal"
          /\ step = "opening" => req[c].k = None
          /\ step = "resolving" => req[c].k # None
    BY DEF SaveCustomer, NextOf
  <1>5. begun' = begun /\ Moved(c, step, IF step = "idle" THEN None ELSE req[c])
    BY <1>1, <1>4, GotoMoves DEF Types, Places
  <1>6. Fits(c)'
    <2>1. req[c].k \in Coupons \cup {None}
      BY <1>1 DEF Requests
    <2>. QED  BY <1>1, <1>4, <1>5, <2>1, IdleFits DEF Moved, Fits, Active, Selling
  <1>7. TypeOK'
    BY <1>1, <1>3, <1>5 DEF Moved, Types, TypeOK
  <1>. QED  BY <1>1, <1>5, <1>6, <1>7, NothingIsLost, StepTypes DEF Moved

(* The coupon is checked, and the checkout goes on with the count of 0 uses  *)
(* by this user.                                                            *)
LEMMA ResolveForCheckoutFacts ==
  ASSUME Types, NEW c \in Clients, ResolveForCheckout(c)
  PROVE  /\ pc[c] = "resolving" /\ Active(c) /\ req[c] \in Requests
         /\ UNCHANGED <<item, coupon, redeemed, customer, payment, made, codes, session,
                        returned, disturbed, lost>>
         /\ \/ Moved(c, "idle", None) /\ begun' = begun
            \/ \E r \in Requests :
                 /\ Moved(c, "opening", r) /\ begun' = begun
                 /\ coupon[req[c].k] # None
                 /\ r.op = req[c].op /\ r.user = req[c].user /\ r.item = req[c].item
                 /\ r.k = req[c].k /\ r.n = 0 /\ r.id = req[c].id
  <1>. DEFINE q == [req[c] EXCEPT !.row = coupon[req[c].k]]
              r == [q EXCEPT !.n = redeemed[req[c].k][req[c].user]]
  <1>1. /\ pc[c] = "resolving" /\ Active(c) /\ Fits(c) /\ req[c] \in Requests
        /\ UNCHANGED <<item, coupon, redeemed, customer, payment, made, codes, session,
                       returned, disturbed, lost>>
    BY DEF ResolveForCheckout, Types, TypeOK, RequestsFit, tables, stripe, history, Active
  <1>2. req[c].k \in Coupons /\ req[c].user \in Users
    BY <1>1 DEF Fits, Selling
  <1>3. CASE ~ Redeemable(req[c].k, req[c].user, req[c].item)
    <2>1. Goto(c, "idle")
      BY <1>3 DEF ResolveForCheckout
    <2>2. begun' = begun /\ Moved(c, "idle", None)
      BY <1>1, <2>1, GotoMoves DEF Types, Places
    <2>. QED  BY <1>1, <2>2
  <1>4. CASE Redeemable(req[c].k, req[c].user, req[c].item)
    <2>1. Continue(c, r, "opening")
      BY <1>4 DEF ResolveForCheckout
    <2>2. coupon[req[c].k] \in CouponRows /\ redeemed[req[c].k][req[c].user] = 0
      BY <1>2, <1>4 DEF Redeemable, Types, TypeOK
    <2>3. /\ q \in Requests /\ q.op = req[c].op /\ q.user = req[c].user
          /\ q.item = req[c].item /\ q.k = req[c].k /\ q.id = req[c].id
      BY <1>1, <2>2 DEF Requests
    <2>. HIDE DEF q
    <2>4. /\ r \in Requests /\ r.op = q.op /\ r.user = q.user /\ r.item = q.item
          /\ r.k = q.k /\ r.n = 0 /\ r.id = q.id
      BY <2>2, <2>3 DEF Requests
    <2>. HIDE DEF r
    <2>5. begun' = begun /\ Moved(c, "opening", r)
      BY <2>1, <2>4, ContinueMoves DEF Types, Places
    <2>. QED  BY <1>1, <2>2, <2>3, <2>4, <2>5, NoneIsNoRow
  <1>. QED  BY <1>3, <1>4

LEMMA ResolveForCheckoutTypes ==
  ASSUME Types, NEW c \in Clients, ResolveForCheckout(c)  PROVE Types'
  <1>1. /\ pc[c] = "resolving" /\ Fits(c)
        /\ UNCHANGED <<item, coupon, redeemed, customer, payment, made, codes, session,
                       returned, disturbed, lost>>
    BY ResolveForCheckoutFacts DEF Types, RequestsFit
  <1>2. PICK step \in {"idle", "opening"}, r \in Requests \cup {None} :
          /\ Moved(c, step, r) /\ begun' = begun
          /\ step = "opening" =>
               /\ coupon[req[c].k] # None
               /\ r.op = req[c].op /\ r.user = req[c].user /\ r.item = req[c].item
               /\ r.k = req[c].k /\ r.n = 0 /\ r.id = req[c].id
    BY ResolveForCheckoutFacts
  <1>3. TypeOK'
    BY <1>1, <1>2 DEF Moved, Types, TypeOK
  <1>4. Fits(c)'
    BY <1>1, <1>2, IdleFits DEF Moved, Fits, Active, Selling
  <1>. QED  BY <1>1, <1>2, <1>3, <1>4, NothingIsLost, StepTypes DEF Moved

-----------------------------------------------------------------------------
(* A session is opened: it has what the request has. *)
LEMMA CreateCheckoutSessionFacts ==
  ASSUME Types, NEW c \in Clients, CreateCheckoutSession(c)
  PROVE  /\ pc[c] = "opening" /\ Active(c) /\ Fits(c) /\ req[c] \in Requests
         /\ Moved(c, "idle", None) /\ begun' = begun
         /\ UNCHANGED <<item, coupon, redeemed, customer, payment, made, codes, returned,
                        disturbed, lost>>
         /\ \E n \in Ids, s \in Sessions :
              /\ session[n] = None /\ session' = [session EXCEPT ![n] = s]
              /\ s.user = req[c].user /\ s.item = req[c].item /\ s.coupon = req[c].k
              /\ s.customer = req[c].id /\ s.before = 0 /\ s.stage = "open"
  <1>1. /\ pc[c] = "opening" /\ Active(c) /\ Fits(c) /\ req[c] \in Requests
        /\ Goto(c, "idle")
        /\ UNCHANGED <<item, coupon, redeemed, customer, payment, made, codes, returned,
                       disturbed, lost>>
    BY DEF CreateCheckoutSession, Types, TypeOK, RequestsFit, tables, history, Active
  <1>2. Moved(c, "idle", None) /\ begun' = begun
    BY <1>1, GotoMoves DEF Types, Places
  <1>. DEFINE s == [user |-> req[c].user, item |-> req[c].item, coupon |-> req[c].k,
                    customer |-> req[c].id, before |-> req[c].n, stage |-> "open"]
  <1>3. \E n \in Ids : session[n] = None /\ session' = [session EXCEPT ![n] = s]
    BY DEF CreateCheckoutSession
  <1>4. /\ s.user = req[c].user /\ s.item = req[c].item /\ s.coupon = req[c].k
        /\ s.customer = req[c].id /\ s.before = req[c].n /\ s.stage = "open"
    OBVIOUS
  <1>5. /\ req[c].user \in Users /\ req[c].item \in Items /\ req[c].n = 0
        /\ req[c].k \in Coupons \cup {None} /\ req[c].id \in Nat \ {0}
    BY <1>1 DEF Fits, Selling, Requests
  <1>6. s \in Sessions
    BY <1>5 DEF Sessions
  <1>. HIDE DEF s
  <1>. QED  BY <1>1, <1>2, <1>3, <1>4, <1>5, <1>6

LEMMA CreateCheckoutSessionTypes ==
  ASSUME Types, NEW c \in Clients, CreateCheckoutSession(c)  PROVE Types'
  <1>1. /\ pc[c] = "opening" /\ Fits(c) /\ req[c] \in Requests
        /\ Moved(c, "idle", None) /\ begun' = begun
        /\ UNCHANGED <<item, coupon, redeemed, customer, payment, made, codes, returned,
                       disturbed, lost>>
    BY CreateCheckoutSessionFacts
  <1>2. PICK n \in Ids, s \in Sessions :
          /\ session[n] = None /\ session' = [session EXCEPT ![n] = s]
          /\ s.coupon = req[c].k
    BY CreateCheckoutSessionFacts
  <1>3. /\ session' \in [Ids -> Sessions \cup {None}] /\ session'[n] = s
        /\ \A m \in Ids \ {n} : session'[m] = session[m]
    BY <1>2 DEF Types, TypeOK
  <1>4. Keeps
    BY <1>1, <1>2, <1>3 DEF Keeps
  <1>5. s.coupon # None => coupon'[s.coupon] # None
    BY <1>1, <1>2 DEF Fits
  <1>6. TypeOK' /\ Fits(c)'
    BY <1>1, <1>3, IdleFits DEF Moved, Types, TypeOK
  <1>. QED  BY <1>1, <1>3, <1>4, <1>5, <1>6, StepTypes DEF Moved

(* A session's next stage. *)
LEMMA StageFacts ==
  ASSUME TypeOK, NEW n \in Ids, session[n] # None, session[n].stage # "delivered",
         NEW to \in {"paid", "expired", "delivered"}, Stage(n, to)
  PROVE  /\ session' \in [Ids -> Sessions \cup {None}]
         /\ session'[n] # None /\ session'[n].stage = to
         /\ session'[n].user = session[n].user /\ session'[n].item = session[n].item
         /\ session'[n].coupon = session[n].coupon
         /\ session'[n].customer = session[n].customer
         /\ session'[n].before = session[n].before
         /\ \A m \in Ids \ {n} : session'[m] = session[m]
  <1>. DEFINE s == [session[n] EXCEPT !.stage = to]
  <1>1. session[n] \in Sessions
    BY DEF TypeOK
  <1>2. /\ s \in Sessions /\ s.stage = to /\ s.user = session[n].user
        /\ s.item = session[n].item /\ s.coupon = session[n].coupon
        /\ s.customer = session[n].customer /\ s.before = session[n].before
    BY <1>1 DEF Sessions
  <1>3. session' = [session EXCEPT ![n] = s]
    BY DEF Stage
  <1>. HIDE DEF s
  <1>4. session'[n] = s /\ session' \in [Ids -> Sessions \cup {None}]
    BY <1>2, <1>3 DEF TypeOK
  <1>5. \A m \in Ids \ {n} : session'[m] = session[m]
    BY <1>3 DEF TypeOK
  <1>. QED  BY <1>2, <1>4, <1>5, NoneIsNoRow

LEMMA PayTypes ==
  ASSUME Types, NEW n \in Ids, Pay(n)  PROVE Types'
  <1>1. /\ session[n] # None /\ session[n].stage # "delivered"
        /\ UNCHANGED <<item, coupon, redeemed, customer, payment, made, codes, returned,
                       pc, req, begun, disturbed, lost>>
    BY DEF Pay, tables, history
  <1>2. PICK to \in {"paid", "expired"} : Stage(n, to)
    BY DEF Pay
  <1>3. /\ session' \in [Ids -> Sessions \cup {None}]
        /\ session'[n] # None /\ session'[n].coupon = session[n].coupon
        /\ session'[n].user = session[n].user /\ session'[n].item = session[n].item
        /\ session'[n].customer = session[n].customer /\ session'[n].before = session[n].before
        /\ \A m \in Ids \ {n} : session'[m] = session[m]
    BY <1>1, <1>2, StageFacts DEF Types
  <1>4. TypeOK'
    BY <1>1, <1>3 DEF Types, TypeOK
  <1>5. Keeps
    BY <1>1, <1>3 DEF Keeps
  <1>6. \A m \in Ids : session'[m] # None => session[m] # None
    BY <1>1, <1>3
  <1>. QED  BY <1>1, <1>4, <1>5, <1>6, StepTypes

-----------------------------------------------------------------------------
LEMMA DeliverFacts ==
  ASSUME Types, NEW c \in Clients, NEW n \in Ids, Deliver(c, n)
  PROVE  /\ UNCHANGED <<item, coupon, redeemed, customer, payment, made, codes, returned,
                        begun, disturbed, lost>>
         /\ pc[c] = "idle" /\ session[n] # None /\ session[n].stage = "paid"
         /\ \E r \in Requests : r.op = "deliver" /\ r.n = n /\ Moved(c, "recording", r)
         /\ session' \in [Ids -> Sessions \cup {None}]
         /\ session'[n] # None /\ session'[n].stage = "delivered"
         /\ session'[n].user = session[n].user /\ session'[n].item = session[n].item
         /\ session'[n].coupon = session[n].coupon
         /\ session'[n].customer = session[n].customer
         /\ session'[n].before = session[n].before
         /\ \A m \in Ids \ {n} : session'[m] = session[m]
  <1>. DEFINE q == Request("deliver")
              r == [q EXCEPT !.n = n]
  <1>1. /\ session[n] # None /\ session[n].stage = "paid"
        /\ Stage(n, "delivered") /\ Begin(c, r, "recording")
        /\ UNCHANGED <<item, coupon, redeemed, customer, payment, made, codes, returned,
                       begun, disturbed, lost>>
    BY DEF Deliver, tables, history
  <1>2. q \in Requests /\ q.op = "deliver"
    BY RequestFields DEF Ops
  <1>. HIDE DEF q
  <1>3. r \in Requests /\ r.op = "deliver" /\ r.n = n
    BY <1>2, CheckoutAssumption DEF Requests, Ids
  <1>. HIDE DEF r
  <1>4. pc[c] = "idle" /\ Moved(c, "recording", r)
    BY <1>1, <1>3, BeginMoves DEF Types, Places
  <1>. QED  BY <1>1, <1>3, <1>4, StageFacts DEF Types

LEMMA DeliverTypes ==
  ASSUME Types, NEW c \in Clients, NEW n \in Ids, Deliver(c, n)  PROVE Types'
  <1>1. /\ UNCHANGED <<item, coupon, redeemed, customer, payment, made, codes, returned,
                       begun, disturbed, lost>>
        /\ session[n] # None /\ session[n].stage = "paid"
        /\ session' \in [Ids -> Sessions \cup {None}]
        /\ session'[n] # None /\ session'[n].stage = "delivered"
        /\ session'[n].user = session[n].user /\ session'[n].item = session[n].item
        /\ session'[n].coupon = session[n].coupon
        /\ session'[n].customer = session[n].customer
        /\ session'[n].before = session[n].before
        /\ \A m \in Ids \ {n} : session'[m] = session[m]
    BY DeliverFacts
  <1>2. PICK r \in Requests : r.op = "deliver" /\ r.n = n /\ Moved(c, "recording", r)
    BY DeliverFacts
  <1>3. TypeOK' /\ Keeps
    BY <1>1, <1>2 DEF Moved, Types, TypeOK, Keeps
  <1>4. Fits(c)'
    BY <1>1, <1>2 DEF Moved, Fits, Active, Selling
  <1>5. \A m \in Ids : session'[m] # None => session[m] # None
    BY <1>1
  <1>. QED  BY <1>2, <1>3, <1>4, <1>5, StepTypes DEF Moved

LEMMA OnCheckoutCompletedFacts ==
  ASSUME Types, NEW c \in Clients, OnCheckoutCompleted(c)
  PROVE  /\ pc[c] = "recording" /\ Active(c) /\ Fits(c) /\ req[c] \in Requests
         /\ payment' = [payment EXCEPT ![req[c].n] = "completed"]
         /\ UNCHANGED <<item, coupon, redeemed, customer, made, codes, session, returned,
                        disturbed, lost>>
         /\ begun' = begun
         /\ \/ Moved(c, "idle", None)
            \/ Moved(c, "redeeming", req[c]) /\ session[req[c].n].coupon # None
  <1>1. /\ pc[c] = "recording" /\ Active(c) /\ Fits(c) /\ req[c] \in Requests
        /\ payment' = [payment EXCEPT ![req[c].n] = "completed"]
        /\ UNCHANGED <<item, coupon, redeemed, customer, made, codes, session, returned,
                       disturbed, lost>>
    BY DEF OnCheckoutCompleted, Types, TypeOK, RequestsFit, stripe, history, Active
  <1>2. CASE Goto(c, "idle")
    BY <1>1, <1>2, GotoMoves DEF Types, Places
  <1>3. CASE Goto(c, "redeeming") /\ session[req[c].n].coupon # None
    BY <1>1, <1>3, GotoMoves DEF Types, Places
  <1>. QED  BY <1>2, <1>3 DEF OnCheckoutCompleted

LEMMA OnCheckoutCompletedTypes ==
  ASSUME Types, NEW c \in Clients, OnCheckoutCompleted(c)  PROVE Types'
  <1>1. /\ pc[c] = "recording" /\ Active(c) /\ Fits(c) /\ req[c] \in Requests
        /\ payment' = [payment EXCEPT ![req[c].n] = "completed"]
        /\ UNCHANGED <<item, coupon, redeemed, customer, made, codes, session, returned,
                       disturbed, lost>>
        /\ begun' = begun
    BY OnCheckoutCompletedFacts
  <1>2. PICK step \in {"idle", "redeeming"} :
          /\ Moved(c, step, IF step = "idle" THEN None ELSE req[c])
          /\ step = "redeeming" => session[req[c].n].coupon # None
    BY OnCheckoutCompletedFacts
  <1>3. TypeOK'
    <2>1. payment' \in [Ids -> PaymentStatus]
      BY <1>1 DEF PaymentStatus, Types, TypeOK
    <2>. QED  BY <1>1, <1>2, <2>1 DEF Moved, Types, TypeOK
  <1>4. Fits(c)'
    BY <1>1, <1>2, IdleFits DEF Moved, Fits, Active, Selling
  <1>. QED  BY <1>1, <1>2, <1>3, <1>4, NothingIsLost, StepTypes DEF Moved

(* The redemption is counted on the coupon's row, which is still there. *)
LEMMA RecordRedemptionFacts ==
  ASSUME Types, NEW c \in Clients, RecordRedemption(c)
  PROVE  /\ pc[c] = "redeeming" /\ Active(c) /\ Fits(c) /\ req[c] \in Requests
         /\ UNCHANGED <<item, customer, payment, made, codes, session, returned,
                        disturbed, lost>>
         /\ begun' = begun /\ Moved(c, "idle", None)
         /\ req[c].n \in Ids /\ session[req[c].n] \in Sessions
         /\ session[req[c].n].coupon \in Coupons
         /\ coupon[session[req[c].n].coupon] \in CouponRows
         /\ LET k == session[req[c].n].coupon  u == session[req[c].n].user IN
              redeemed' = [redeemed EXCEPT ![k] =
                             [redeemed[k] EXCEPT ![u] = redeemed[k][u] + 1]]
         /\ \E x \in CouponRows :
              /\ coupon' = [coupon EXCEPT ![session[req[c].n].coupon] = x]
              /\ x.active = coupon[session[req[c].n].coupon].active
              /\ x.promo = coupon[session[req[c].n].coupon].promo
              /\ x.used = coupon[session[req[c].n].coupon].used + 1
  <1>. DEFINE k == session[req[c].n].coupon
              u == session[req[c].n].user
              x == [coupon[k] EXCEPT !.used = @ + 1]
  <1>1. /\ pc[c] = "redeeming" /\ Active(c) /\ Fits(c) /\ req[c] \in Requests
        /\ Goto(c, "idle")
        /\ UNCHANGED <<item, customer, payment, made, codes, session, returned,
                       disturbed, lost>>
    BY DEF RecordRedemption, Types, TypeOK, RequestsFit, stripe, history, Active
  <1>2. begun' = begun /\ Moved(c, "idle", None)
    BY <1>1, GotoMoves DEF Types, Places
  <1>3. req[c].n \in Ids /\ session[req[c].n] \in Sessions /\ k # None
    BY <1>1 DEF Fits, Types, TypeOK
  <1>4. k \in Coupons
    BY <1>3 DEF Sessions
  <1>5. coupon[k] \in CouponRows
    BY <1>3, <1>4, NoneIsNoRow DEF Types, TypeOK, CouponsStay
  <1>6. redeemed' = [redeemed EXCEPT ![k] = [redeemed[k] EXCEPT ![u] = redeemed[k][u] + 1]]
    BY DEF RecordRedemption
  <1>7. /\ x \in CouponRows /\ x.active = coupon[k].active /\ x.promo = coupon[k].promo
        /\ x.used = coupon[k].used + 1
    <2>1. coupon[k].used + 1 \in Nat
      BY <1>5 DEF CouponRows
    <2>2. x \in CouponRows /\ x.used = coupon[k].used + 1
      BY <1>5, <2>1 DEF CouponRows
    <2>3. x.active = coupon[k].active /\ x.promo = coupon[k].promo
      BY <1>5 DEF CouponRows
    <2>. QED  BY <2>2, <2>3
  <1>8. coupon' = [coupon EXCEPT ![k] = x]
    BY DEF RecordRedemption
  <1>. HIDE DEF x
  <1>. QED  BY <1>1, <1>2, <1>3, <1>4, <1>5, <1>6, <1>7, <1>8

LEMMA RecordRedemptionTypes ==
  ASSUME Types, NEW c \in Clients, RecordRedemption(c)  PROVE Types'
  <1>. DEFINE k == session[req[c].n].coupon
              u == session[req[c].n].user
  <1>1. /\ pc[c] = "redeeming" /\ Active(c) /\ Fits(c) /\ req[c] \in Requests
        /\ UNCHANGED <<item, customer, payment, made, codes, session, returned,
                       disturbed, lost>>
        /\ begun' = begun /\ Moved(c, "idle", None)
        /\ k \in Coupons /\ coupon[k] \in CouponRows /\ session[req[c].n] \in Sessions
        /\ redeemed' = [redeemed EXCEPT ![k] = [redeemed[k] EXCEPT ![u] = redeemed[k][u] + 1]]
    BY RecordRedemptionFacts
  <1>2. PICK x \in CouponRows : coupon' = [coupon EXCEPT ![k] = x]
    BY RecordRedemptionFacts
  <1>3. u \in Users
    BY <1>1 DEF Sessions
  <1>. HIDE DEF k, u
  <1>4. redeemed' \in [Coupons -> [Users -> Nat]]
    <2>1. redeemed[k] \in [Users -> Nat]
      BY <1>1 DEF Types, TypeOK
    <2>2. [redeemed[k] EXCEPT ![u] = redeemed[k][u] + 1] \in [Users -> Nat]
      BY <1>3, <2>1
    <2>. QED  BY <1>1, <2>2 DEF Types, TypeOK
  <1>5. coupon' \in [Coupons -> CouponRows \cup {None}]
    BY <1>1, <1>2 DEF Types, TypeOK
  <1>6. TypeOK'
    BY <1>1, <1>4, <1>5 DEF Moved, Types, TypeOK
  <1>7. Keeps
    BY <1>1, <1>2, NoneIsNoRow DEF Keeps, Types, TypeOK
  <1>8. Fits(c)'
    BY <1>1, IdleFits DEF Moved
  <1>. QED  BY <1>1, <1>6, <1>7, <1>8, StepTypes DEF Moved

-----------------------------------------------------------------------------
LEMMA RefundPaymentAdminFacts ==
  ASSUME Types, NEW c \in Clients, NEW n \in Ids, NEW amount \in Amounts,
         RefundPaymentAdmin(c, n, amount)
  PROVE  /\ payment[n] \in {"completed", "partially_refunded"}
         /\ UNCHANGED <<tables, stripe, disturbed, lost>> /\ pc[c] = "idle"
         /\ \E r \in Requests : /\ r.op = "refund" /\ r.n = n /\ r.amount = amount
                                /\ Accept(c, r, "refunding") /\ Moved(c, "refunding", r)
  <1>. DEFINE q == Request("refund")
              p == [q EXCEPT !.n = n]
              r == [p EXCEPT !.amount = amount]
  <1>1. /\ payment[n] \in {"completed", "partially_refunded"}
        /\ Accept(c, r, "refunding") /\ UNCHANGED <<tables, stripe, disturbed, lost>>
    BY DEF RefundPaymentAdmin, history
  <1>2. q \in Requests /\ q.op = "refund"
    BY RequestFields DEF Ops
  <1>. HIDE DEF q
  <1>3. p \in Requests /\ p.op = "refund" /\ p.n = n
    BY <1>2, CheckoutAssumption DEF Requests, Ids
  <1>. HIDE DEF p
  <1>4. r \in Requests /\ r.op = "refund" /\ r.n = n /\ r.amount = amount
    BY <1>3 DEF Requests
  <1>. HIDE DEF r
  <1>5. pc[c] = "idle" /\ Moved(c, "refunding", r)
    BY <1>1, <1>4, AcceptMoves DEF Types, Places
  <1>. QED  BY <1>1, <1>4, <1>5

LEMMA RefundPaymentAdminTypes ==
  ASSUME Types, NEW c \in Clients, NEW n \in Ids, NEW amount \in Amounts,
         RefundPaymentAdmin(c, n, amount)
  PROVE  Types'
  <1>1. UNCHANGED <<tables, stripe, disturbed, lost>>
    BY RefundPaymentAdminFacts
  <1>2. PICK r \in Requests : /\ r.op = "refund" /\ r.n = n
                              /\ Accept(c, r, "refunding") /\ Moved(c, "refunding", r)
    BY RefundPaymentAdminFacts
  <1>3. Fits(c)'
    BY <1>2 DEF Moved, Fits, Active, Selling
  <1>. QED  BY <1>1, <1>2, <1>3, AcceptTypes DEF Types, TypeOK, Places

LEMMA RefundAtStripeFacts ==
  ASSUME Types, NEW c \in Clients, RefundAtStripe(c)
  PROVE  /\ pc[c] = "refunding" /\ Active(c) /\ Fits(c) /\ req[c] \in Requests
         /\ req[c].op = "refund" /\ req[c].n \in Ids /\ req[c].amount \in Amounts
         /\ UNCHANGED <<item, coupon, redeemed, customer, payment, made, codes, session,
                        disturbed, lost>>
         /\ begun' = begun
         /\ \/ returned' = returned /\ Moved(c, "idle", None)
            \/ /\ returned[req[c].n] + req[c].amount <= Total
               /\ returned' = [returned EXCEPT ![req[c].n] =
                                 IF req[c].amount = 0 THEN Total
                                 ELSE returned[req[c].n] + req[c].amount]
               /\ Moved(c, "storing", req[c])
  <1>1. /\ pc[c] = "refunding" /\ Active(c) /\ Fits(c) /\ req[c] \in Requests
        /\ UNCHANGED <<item, coupon, redeemed, customer, payment, made, codes, session,
                       disturbed, lost>>
    BY DEF RefundAtStripe, Types, TypeOK, RequestsFit, tables, history, Active
  <1>2. req[c].op = "refund" /\ req[c].n \in Ids /\ req[c].amount \in Amounts
    BY <1>1 DEF Fits, Requests
  <1>3. CASE ~ Refundable(req[c].n, req[c].amount)
    <2>1. returned' = returned /\ Goto(c, "idle")
      BY <1>3 DEF RefundAtStripe
    <2>. QED  BY <1>1, <1>2, <2>1, GotoMoves DEF Types, Places
  <1>4. CASE Refundable(req[c].n, req[c].amount)
    <2>1. /\ Goto(c, "storing") /\ returned[req[c].n] + req[c].amount <= Total
          /\ returned' = [returned EXCEPT ![req[c].n] =
                            IF req[c].amount = 0 THEN Total
                            ELSE returned[req[c].n] + req[c].amount]
      BY <1>4 DEF RefundAtStripe, Refundable, Refund
    <2>. QED  BY <1>1, <1>2, <2>1, GotoMoves DEF Types, Places
  <1>. QED  BY <1>3, <1>4

LEMMA RefundAtStripeTypes ==
  ASSUME Types, NEW c \in Clients, RefundAtStripe(c)  PROVE Types'
  <1>1. /\ pc[c] = "refunding" /\ Active(c) /\ Fits(c) /\ req[c] \in Requests
        /\ req[c].op = "refund" /\ req[c].n \in Ids /\ req[c].amount \in 0 .. Total
        /\ UNCHANGED <<item, coupon, redeemed, customer, payment, made, codes, session,
                       disturbed, lost>>
        /\ begun' = begun
    BY RefundAtStripeFacts DEF Amounts
  <1>2. PICK step \in {"idle", "storing"} :
          Moved(c, step, IF step = "idle" THEN None ELSE req[c])
    BY RefundAtStripeFacts
  <1>3. returned' \in [Ids -> 0 .. Total]
    <2>1. CASE returned' = returned
      BY <2>1 DEF Types, TypeOK
    <2>2. CASE /\ returned[req[c].n] + req[c].amount <= Total
               /\ returned' = [returned EXCEPT ![req[c].n] =
                                 IF req[c].amount = 0 THEN Total
                                 ELSE returned[req[c].n] + req[c].amount]
      <3>. DEFINE x == IF req[c].amount = 0 THEN Total ELSE returned[req[c].n] + req[c].amount
      <3>1. returned[req[c].n] \in 0 .. Total
        BY <1>1 DEF Types, TypeOK
      <3>2. x \in 0 .. Total
        BY <1>1, <2>2, <3>1 DEF Total
      <3>3. returned' = [returned EXCEPT ![req[c].n] = x]
        BY <2>2
      <3>. HIDE DEF x
      <3>. QED  BY <3>2, <3>3 DEF Types, TypeOK
    <2>. QED  BY <2>1, <2>2, RefundAtStripeFacts
  <1>4. TypeOK'
    BY <1>1, <1>2, <1>3 DEF Moved, Types, TypeOK
  <1>5. Fits(c)'
    BY <1>1, <1>2, IdleFits DEF Moved, Fits, Active, Selling
  <1>. QED  BY <1>1, <1>2, <1>4, <1>5, NothingIsLost, StepTypes DEF Moved

LEMMA StoreRefundFacts ==
  ASSUME Types, NEW c \in Clients, StoreRefund(c)
  PROVE  /\ pc[c] = "storing" /\ Active(c) /\ Fits(c) /\ req[c] \in Requests
         /\ req[c].op = "refund" /\ req[c].n \in Ids
         /\ payment' = [payment EXCEPT ![req[c].n] = RefundStatus(req[c].amount)]
         /\ UNCHANGED <<item, coupon, redeemed, customer, made, codes, session, returned,
                        disturbed, lost>>
         /\ begun' = begun /\ Moved(c, "idle", None)
  <1>1. /\ pc[c] = "storing" /\ Active(c) /\ Fits(c) /\ req[c] \in Requests
        /\ req[c].op = "refund" /\ Goto(c, "idle")
        /\ payment' = [payment EXCEPT ![req[c].n] = RefundStatus(req[c].amount)]
        /\ UNCHANGED <<item, coupon, redeemed, customer, made, codes, session, returned,
                       disturbed, lost>>
    BY DEF StoreRefund, Types, TypeOK, RequestsFit, stripe, history, Active
  <1>2. begun' = begun /\ Moved(c, "idle", None)
    BY <1>1, GotoMoves DEF Types, Places
  <1>. QED  BY <1>1, <1>2 DEF Fits

LEMMA StoreRefundTypes ==
  ASSUME Types, NEW c \in Clients, StoreRefund(c)  PROVE Types'
  <1>1. /\ payment' = [payment EXCEPT ![req[c].n] = RefundStatus(req[c].amount)]
        /\ UNCHANGED <<item, coupon, redeemed, customer, made, codes, session, returned,
                       disturbed, lost>>
        /\ begun' = begun /\ Moved(c, "idle", None)
    BY StoreRefundFacts
  <1>2. RefundStatus(req[c].amount) \in PaymentStatus
    BY DEF RefundStatus, PaymentStatus
  <1>3. payment' \in [Ids -> PaymentStatus]
    BY <1>1, <1>2 DEF Types, TypeOK
  <1>4. TypeOK' /\ Fits(c)'
    BY <1>1, <1>3, IdleFits DEF Moved, Types, TypeOK
  <1>. QED  BY <1>1, <1>4, NothingIsLost, StepTypes DEF Moved

-----------------------------------------------------------------------------
(* Requests that edit a coupon, as they begin: whether another is editing    *)
(* it, too, is on record.                                                   *)
EditBegins(c, op, k, row, id, step) ==
  /\ pc[c] = "idle"
  /\ UNCHANGED <<tables, stripe, lost>>
  /\ disturbed' = IF \E d \in Clients \ {c} : Editing(d, k)
                  THEN disturbed \cup {k} ELSE disturbed
  /\ \E r \in Requests : /\ r.op = op /\ r.k = k /\ r.row = row /\ r.id = id
                         /\ Accept(c, r, step) /\ Moved(c, step, r)

LEMMA CreateCouponFacts ==
  ASSUME Types, NEW c \in Clients, NEW k \in Coupons,
         NEW active \in BOOLEAN, NEW scope \in Scopes, NEW max \in 0 .. 1,
         CreateCoupon(c, k, NewCoupon(active, scope, max))
  PROVE  \E row \in CouponRows : /\ coupon[k] = None /\ row.promo = 0 /\ row.used = 0
                                 /\ EditBegins(c, "create", k, row, 0, "syncing")
  <1>. DEFINE row == NewCoupon(active, scope, max)
              q == Request("create")
              p == [q EXCEPT !.k = k]
              r == [p EXCEPT !.row = row]
  <1>1. /\ coupon[k] = None /\ Accept(c, r, "syncing")
        /\ UNCHANGED <<tables, stripe, lost>> /\ Disturb(c, k)
    BY DEF CreateCoupon
  <1>2. row \in CouponRows /\ row.promo = 0 /\ row.used = 0
    BY DEF NewCoupon, CouponRows
  <1>3. q \in Requests /\ q.op = "create" /\ q.id = 0
    BY RequestFields DEF Ops
  <1>. HIDE DEF q, row
  <1>4. p \in Requests /\ p.op = q.op /\ p.k = k /\ p.id = q.id
    BY <1>3 DEF Requests
  <1>. HIDE DEF p
  <1>5. r \in Requests /\ r.op = p.op /\ r.k = p.k /\ r.row = row /\ r.id = p.id
    BY <1>2, <1>4 DEF Requests
  <1>. HIDE DEF r
  <1>6. pc[c] = "idle" /\ Moved(c, "syncing", r)
    BY <1>1, <1>5, AcceptMoves DEF Types, Places
  <1>7. EditBegins(c, "create", k, row, 0, "syncing")
    BY <1>1, <1>3, <1>4, <1>5, <1>6 DEF EditBegins, Disturb
  <1>. QED  BY <1>1, <1>2, <1>7

(* What an update asks for is the row with other values. *)
LEMMA UpdateCouponFacts ==
  ASSUME Types, NEW c \in Clients, NEW k \in Coupons, NEW active \in BOOLEAN, NEW max \in 0 .. 1,
         coupon[k] # None,
         UpdateCoupon(c, k, [coupon[k] EXCEPT !.active = active, !.max = max])
  PROVE  /\ coupon[k] \in CouponRows
         /\ \E row \in CouponRows :
              /\ row.active = active /\ row.promo = coupon[k].promo
              /\ EditBegins(c, "update", k, row, coupon[k].promo,
                            IF coupon[k].promo # 0 /\ row.active # coupon[k].active
                            THEN "telling" ELSE "storing")
  <1>. DEFINE row1 == [coupon[k] EXCEPT !.active = active]
              row == [row1 EXCEPT !.max = max]
              step == IF coupon[k].promo # 0 /\ row.active # coupon[k].active
                      THEN "telling" ELSE "storing"
              q == Request("update")
              p == [q EXCEPT !.k = k]
              p1 == [p EXCEPT !.row = row]
              r == [p1 EXCEPT !.id = coupon[k].promo]
  <1>1. /\ Accept(c, r, step) /\ UNCHANGED <<tables, stripe, lost>> /\ Disturb(c, k)
    BY DEF UpdateCoupon
  <1>2. coupon[k] \in CouponRows /\ coupon[k].promo \in Nat
    BY DEF Types, TypeOK, CouponRows
  <1>3. /\ row1 \in CouponRows /\ row1.active = active /\ row1.promo = coupon[k].promo
    BY <1>2 DEF CouponRows
  <1>. HIDE DEF row1
  <1>4. /\ row \in CouponRows /\ row.active = active /\ row.promo = coupon[k].promo
    BY <1>3 DEF CouponRows
  <1>5. q \in Requests /\ q.op = "update"
    BY RequestFields DEF Ops
  <1>. HIDE DEF q, row
  <1>6. p \in Requests /\ p.op = q.op /\ p.k = k
    BY <1>5 DEF Requests
  <1>. HIDE DEF p
  <1>7. p1 \in Requests /\ p1.op = p.op /\ p1.k = p.k /\ p1.row = row
    BY <1>4, <1>6 DEF Requests
  <1>. HIDE DEF p1
  <1>8. r \in Requests /\ r.op = p1.op /\ r.k = p1.k /\ r.row = row /\ r.id = coupon[k].promo
    BY <1>2, <1>7 DEF Requests
  <1>. HIDE DEF r
  <1>9. step \in Places \ {"idle"}
    BY DEF Places
  <1>. HIDE DEF step
  <1>10. pc[c] = "idle" /\ Moved(c, step, r)
    BY <1>1, <1>8, <1>9, AcceptMoves DEF Types
  <1>11. EditBegins(c, "update", k, row, coupon[k].promo, step)
    BY <1>1, <1>5, <1>6, <1>7, <1>8, <1>10 DEF EditBegins, Disturb
  <1>. QED  BY <1>2, <1>4, <1>11 DEF step

LEMMA RemoveCouponFacts ==
  ASSUME Types, NEW c \in Clients, NEW k \in Coupons, RemoveCoupon(c, k)
  PROVE  /\ coupon[k] \in CouponRows
         /\ \E row \in CouponRows :
              /\ row.active = FALSE
              /\ EditBegins(c, "remove", k, row, coupon[k].promo, "storing")
  <1>. DEFINE row == [coupon[k] EXCEPT !.active = FALSE]
              q == Request("remove")
              p == [q EXCEPT !.k = k]
              p1 == [p EXCEPT !.id = coupon[k].promo]
              r == [p1 EXCEPT !.row = row]
  <1>1. /\ Accept(c, r, "storing") /\ UNCHANGED <<tables, stripe, lost>> /\ Disturb(c, k)
        /\ coupon[k] # None
    BY DEF RemoveCoupon
  <1>2. coupon[k] \in CouponRows /\ coupon[k].promo \in Nat
    BY <1>1 DEF Types, TypeOK, CouponRows
  <1>3. row \in CouponRows /\ row.active = FALSE
    BY <1>2 DEF CouponRows
  <1>4. q \in Requests /\ q.op = "remove"
    BY RequestFields DEF Ops
  <1>. HIDE DEF q, row
  <1>5. p \in Requests /\ p.op = q.op /\ p.k = k
    BY <1>4 DEF Requests
  <1>. HIDE DEF p
  <1>6. p1 \in Requests /\ p1.op = p.op /\ p1.k = p.k /\ p1.id = coupon[k].promo
    BY <1>2, <1>5 DEF Requests
  <1>. HIDE DEF p1
  <1>7. r \in Requests /\ r.op = p1.op /\ r.k = p1.k /\ r.id = p1.id /\ r.row = row
    BY <1>3, <1>6 DEF Requests
  <1>. HIDE DEF r
  <1>8. pc[c] = "idle" /\ Moved(c, "storing", r)
    BY <1>1, <1>7, AcceptMoves DEF Types, Places
  <1>9. EditBegins(c, "remove", k, row, coupon[k].promo, "storing")
    BY <1>1, <1>4, <1>5, <1>6, <1>7, <1>8 DEF EditBegins, Disturb
  <1>. QED  BY <1>2, <1>3, <1>9

LEMMA EditBeginsTypes ==
  ASSUME Types, NEW c \in Clients, NEW op, NEW k \in Coupons, NEW row \in CouponRows, NEW id,
         NEW step, EditBegins(c, op, k, row, id, step),
         \/ op = "create" /\ step = "syncing"
         \/ op \in {"update", "remove"} /\ step \in {"storing", "telling"} /\ coupon[k] # None
  PROVE  Types'
  <1>1. PICK r \in Requests : /\ r.op = op /\ r.k = k /\ r.row = row
                              /\ Accept(c, r, step) /\ Moved(c, step, r)
    BY DEF EditBegins
  <1>2. /\ UNCHANGED <<tables, stripe, lost>> /\ disturbed' \subseteq Coupons
    BY DEF EditBegins, Types, TypeOK
  <1>3. coupon' = coupon
    BY <1>2 DEF tables
  <1>4. Fits(c)'
    BY <1>1, <1>3 DEF Moved, Fits, Active, Selling
  <1>5. step \in Places \ {"idle"}
    BY DEF Places
  <1>. QED  BY <1>1, <1>2, <1>4, <1>5, AcceptTypes

LEMMA CreateCouponTypes ==
  ASSUME Types, NEW c \in Clients, NEW k \in Coupons,
         NEW active \in BOOLEAN, NEW scope \in Scopes, NEW max \in 0 .. 1,
         CreateCoupon(c, k, NewCoupon(active, scope, max))
  PROVE  Types'
  BY CreateCouponFacts, EditBeginsTypes

LEMMA UpdateCouponTypes ==
  ASSUME Types, NEW c \in Clients, NEW k \in Coupons, NEW active \in BOOLEAN, NEW max \in 0 .. 1,
         coupon[k] # None,
         UpdateCoupon(c, k, [coupon[k] EXCEPT !.active = active, !.max = max])
  PROVE  Types'
  <1>1. PICK row \in CouponRows, step \in {"telling", "storing"} :
          EditBegins(c, "update", k, row, coupon[k].promo, step)
    BY UpdateCouponFacts
  <1>. QED  BY <1>1, EditBeginsTypes

LEMMA RemoveCouponTypes ==
  ASSUME Types, NEW c \in Clients, NEW k \in Coupons, RemoveCoupon(c, k)  PROVE Types'
  <1>1. PICK row \in CouponRows : EditBegins(c, "remove", k, row, coupon[k].promo, "storing")
    BY RemoveCouponFacts
  <1>2. coupon[k] # None
    BY DEF RemoveCoupon
  <1>. QED  BY <1>1, <1>2, EditBeginsTypes

(* Stripe makes the promotion code and the row is to name it, or the row is  *)
(* to name none: and then none works, or the coupon is on record.           *)
LEMMA SyncCouponFacts ==
  ASSUME Types, NEW c \in Clients, SyncCoupon(c)
  PROVE  /\ pc[c] = "syncing" /\ Active(c) /\ Fits(c) /\ req[c] \in Requests
         /\ req[c].op = "create" /\ req[c].k \in Coupons /\ req[c].row \in CouponRows
         /\ UNCHANGED <<item, coupon, redeemed, customer, payment, session, returned, lost>>
         /\ begun' = begun /\ made' \in Nat /\ codes' \in [Coupons -> SUBSET Nat]
         /\ \A m \in Coupons \ {req[c].k} : codes'[m] = codes[m]
         /\ \E r \in Requests :
              /\ Moved(c, "inserting", r)
              /\ r.op = "create" /\ r.k = req[c].k /\ r.row \in CouponRows
              /\ r.row.active = req[c].row.active /\ r.row.used = req[c].row.used
              /\ \/ /\ r.row.promo # 0 /\ disturbed' = disturbed
                    /\ codes'[r.k] = IF r.row.active THEN {r.row.promo} ELSE codes[r.k]
                 \/ codes' = codes /\ r.row.promo = req[c].row.promo /\ disturbed' = disturbed
                 \/ disturbed' = disturbed \cup {r.k}
  <1>1. /\ pc[c] = "syncing" /\ Active(c) /\ Fits(c) /\ req[c] \in Requests
        /\ UNCHANGED <<item, coupon, redeemed, customer, payment, session, returned, lost>>
        /\ made \in Nat /\ codes \in [Coupons -> SUBSET Nat]
    BY DEF SyncCoupon, Types, TypeOK, RequestsFit, tables, Active
  <1>2. req[c].op = "create" /\ req[c].k \in Coupons /\ req[c].row \in CouponRows
    BY <1>1 DEF Fits
  <1>. DEFINE k == req[c].k
              row0 == req[c].row
              row1 == [row0 EXCEPT !.stripe = made + 1]
              row2 == [row1 EXCEPT !.promo = made + 1]
              q1 == [req[c] EXCEPT !.row.stripe = made + 1]
              q2 == [q1 EXCEPT !.row.promo = made + 1]
  <1>3. /\ row1 \in CouponRows /\ row1.active = row0.active /\ row1.used = row0.used
        /\ row1.promo = row0.promo
    BY <1>1, <1>2 DEF CouponRows
  <1>4. q1 = [req[c] EXCEPT !.row = row1]
    BY <1>1, <1>2 DEF Requests, CouponRows
  <1>. HIDE DEF row1, q1
  <1>5. /\ q1 \in Requests /\ q1.op = req[c].op /\ q1.k = req[c].k /\ q1.row = row1
    BY <1>1, <1>3, <1>4 DEF Requests
  <1>6. /\ row2 \in CouponRows /\ row2.active = row0.active /\ row2.used = row0.used
        /\ row2.promo = made + 1 /\ made + 1 # 0
    BY <1>1, <1>3 DEF CouponRows
  <1>7. q2 = [q1 EXCEPT !.row = row2]
    BY <1>3, <1>5 DEF Requests, CouponRows
  <1>8. \/ made' = made + 1 /\ PromotionMade(c, q1, made + 1)
        \/ /\ made' = made + 1 /\ codes' = codes /\ disturbed' = disturbed
           /\ Continue(c, q1, "inserting") \/ Goto(c, "inserting")
        \/ made' = made /\ codes' = codes /\ disturbed' = disturbed /\ Goto(c, "inserting")
    BY DEF SyncCoupon, q1
  <1>. HIDE DEF row2
  <1>9. /\ q2 \in Requests /\ q2.op = req[c].op /\ q2.k = req[c].k /\ q2.row = row2
    BY <1>5, <1>6, <1>7 DEF Requests
  <1>10. CASE made' = made + 1 /\ PromotionMade(c, q1, made + 1)
    <2>1. /\ codes' = IF row1.active THEN [codes EXCEPT ![k] = {made + 1}] ELSE codes
          /\ \/ Continue(c, q2, "inserting") /\ disturbed' = disturbed
             \/ Continue(c, q1, "inserting") /\ disturbed' = disturbed \cup {k}
      BY <1>5, <1>10 DEF PromotionMade
    <2>. HIDE DEF q2
    <2>2. /\ codes' \in [Coupons -> SUBSET Nat] /\ made' \in Nat
          /\ \A m \in Coupons \ {k} : codes'[m] = codes[m]
          /\ codes'[k] = IF row1.active THEN {made + 1} ELSE codes[k]
      BY <1>1, <1>2, <1>10, <2>1
    <2>3. CASE Continue(c, q2, "inserting") /\ disturbed' = disturbed
      <3>1. begun' = begun /\ Moved(c, "inserting", q2)
        BY <1>9, <2>3, ContinueMoves DEF Types, Places
      <3>2. q2.k = k /\ q2.row.active = row1.active /\ q2.row.promo = made + 1 /\ q2.row.promo # 0
        BY <1>3, <1>6, <1>9
      <3>3. codes'[q2.k] = IF q2.row.active THEN {q2.row.promo} ELSE codes[q2.k]
        BY <2>2, <3>2
      <3>. QED  BY <1>1, <1>2, <1>6, <1>9, <2>2, <2>3, <3>1, <3>2, <3>3
    <2>4. CASE Continue(c, q1, "inserting") /\ disturbed' = disturbed \cup {k}
      <3>1. begun' = begun /\ Moved(c, "inserting", q1)
        BY <1>5, <2>4, ContinueMoves DEF Types, Places
      <3>. QED  BY <1>1, <1>2, <1>3, <1>5, <2>2, <2>4, <3>1
    <2>. QED  BY <2>1, <2>3, <2>4
  <1>11. CASE Continue(c, q1, "inserting") /\ codes' = codes /\ made' = made + 1
              /\ disturbed' = disturbed
    <2>1. begun' = begun /\ Moved(c, "inserting", q1)
      BY <1>5, <1>11, ContinueMoves DEF Types, Places
    <2>. QED  BY <1>1, <1>2, <1>3, <1>5, <1>11, <2>1
  <1>12. CASE Goto(c, "inserting") /\ codes' = codes /\ made' \in {made, made + 1}
              /\ disturbed' = disturbed
    <2>1. begun' = begun /\ Moved(c, "inserting", req[c])
      BY <1>1, <1>12, GotoMoves DEF Types, Places
    <2>. QED  BY <1>1, <1>2, <1>12, <2>1
  <1>. QED  BY <1>8, <1>10, <1>11, <1>12

LEMMA SyncCouponTypes ==
  ASSUME Types, NEW c \in Clients, SyncCoupon(c)  PROVE Types'
  <1>1. /\ req[c].k \in Coupons
        /\ UNCHANGED <<item, coupon, redeemed, customer, payment, session, returned, lost>>
        /\ begun' = begun /\ made' \in Nat /\ codes' \in [Coupons -> SUBSET Nat]
    BY SyncCouponFacts
  <1>2. PICK r \in Requests :
          /\ Moved(c, "inserting", r)
          /\ r.op = "create" /\ r.k = req[c].k /\ r.row \in CouponRows
          /\ disturbed' \in {disturbed, disturbed \cup {r.k}}
    BY SyncCouponFacts
  <1>3. disturbed' \subseteq Coupons
    BY <1>1, <1>2 DEF Types, TypeOK
  <1>4. TypeOK'
    BY <1>1, <1>2, <1>3 DEF Moved, Types, TypeOK
  <1>5. Fits(c)'
    BY <1>1, <1>2 DEF Moved, Fits, Active, Selling
  <1>. QED  BY <1>1, <1>2, <1>4, <1>5, NothingIsLost, StepTypes DEF Moved

LEMMA InsertCouponFacts ==
  ASSUME Types, NEW c \in Clients, InsertCoupon(c)
  PROVE  /\ pc[c] = "inserting" /\ Active(c) /\ Fits(c) /\ req[c] \in Requests
         /\ req[c].op = "create" /\ req[c].k \in Coupons /\ req[c].row \in CouponRows
         /\ coupon' = IF coupon[req[c].k] = None
                      THEN [coupon EXCEPT ![req[c].k] = req[c].row] ELSE coupon
         /\ UNCHANGED <<item, redeemed, customer, payment, made, codes, session, returned,
                        disturbed, lost>>
         /\ begun' = begun /\ Moved(c, "idle", None)
  <1>1. /\ pc[c] = "inserting" /\ Active(c) /\ Fits(c) /\ req[c] \in Requests /\ Goto(c, "idle")
        /\ coupon' = IF coupon[req[c].k] = None
                     THEN [coupon EXCEPT ![req[c].k] = req[c].row] ELSE coupon
        /\ UNCHANGED <<item, redeemed, customer, payment, made, codes, session, returned,
                       disturbed, lost>>
    BY DEF InsertCoupon, Types, TypeOK, RequestsFit, stripe, history, Active
  <1>2. begun' = begun /\ Moved(c, "idle", None)
    BY <1>1, GotoMoves DEF Types, Places
  <1>. QED  BY <1>1, <1>2 DEF Fits

LEMMA InsertCouponTypes ==
  ASSUME Types, NEW c \in Clients, InsertCoupon(c)  PROVE Types'
  <1>1. /\ req[c].k \in Coupons /\ req[c].row \in CouponRows
        /\ coupon' = IF coupon[req[c].k] = None
                     THEN [coupon EXCEPT ![req[c].k] = req[c].row] ELSE coupon
        /\ UNCHANGED <<item, redeemed, customer, payment, made, codes, session, returned,
                       disturbed, lost>>
        /\ begun' = begun /\ Moved(c, "idle", None)
    BY InsertCouponFacts
  <1>2. coupon' \in [Coupons -> CouponRows \cup {None}]
    BY <1>1 DEF Types, TypeOK
  <1>3. TypeOK' /\ Fits(c)'
    BY <1>1, <1>2, IdleFits DEF Moved, Types, TypeOK
  <1>4. Keeps
    BY <1>1, NoneIsNoRow DEF Keeps, Types, TypeOK
  <1>. QED  BY <1>1, <1>3, <1>4, StepTypes DEF Moved

LEMMA UpdatePromotionCodeFacts ==
  ASSUME Types, NEW c \in Clients, UpdatePromotionCode(c)
  PROVE  /\ pc[c] = "telling" /\ Active(c) /\ Fits(c) /\ req[c] \in Requests
         /\ req[c].op \in {"update", "remove"} /\ req[c].k \in Coupons
         /\ req[c].row \in CouponRows /\ req[c].id \in Nat
         /\ UNCHANGED <<item, coupon, redeemed, customer, payment, made, session, returned,
                        lost>>
         /\ \/ /\ codes' = [codes EXCEPT ![req[c].k] = IF req[c].row.active
                                                       THEN codes[req[c].k] \cup {req[c].id}
                                                       ELSE codes[req[c].k] \ {req[c].id}]
               /\ disturbed' = disturbed
            \/ codes' = codes /\ disturbed' = disturbed \cup {req[c].k}
         /\ begun' = begun
         /\ \/ req[c].op = "update" /\ Moved(c, "storing", req[c])
            \/ req[c].op = "remove" /\ Moved(c, "idle", None)
  <1>1. /\ pc[c] = "telling" /\ Active(c) /\ Fits(c) /\ req[c] \in Requests
        /\ UNCHANGED <<item, coupon, redeemed, customer, payment, made, session, returned,
                       lost>>
    BY DEF UpdatePromotionCode, Types, TypeOK, RequestsFit, tables, Active
  <1>2. /\ req[c].op \in {"update", "remove"} /\ req[c].k \in Coupons
        /\ req[c].row \in CouponRows /\ req[c].id \in Nat
    BY <1>1 DEF Fits, Requests
  <1>3. \/ /\ codes' = [codes EXCEPT ![req[c].k] = IF req[c].row.active
                                                    THEN codes[req[c].k] \cup {req[c].id}
                                                    ELSE codes[req[c].k] \ {req[c].id}]
           /\ disturbed' = disturbed
        \/ codes' = codes /\ disturbed' = disturbed \cup {req[c].k}
    BY DEF UpdatePromotionCode
  <1>4. CASE req[c].op = "update"
    <2>1. Goto(c, "storing")
      BY <1>4 DEF UpdatePromotionCode
    <2>. QED  BY <1>1, <1>2, <1>3, <1>4, <2>1, GotoMoves DEF Types, Places
  <1>5. CASE req[c].op = "remove"
    <2>1. Goto(c, "idle")
      BY <1>5 DEF UpdatePromotionCode
    <2>. QED  BY <1>1, <1>2, <1>3, <1>5, <2>1, GotoMoves DEF Types, Places
  <1>. QED  BY <1>2, <1>4, <1>5

LEMMA UpdatePromotionCodeTypes ==
  ASSUME Types, NEW c \in Clients, UpdatePromotionCode(c)  PROVE Types'
  <1>1. /\ pc[c] = "telling" /\ Fits(c)
        /\ req[c].op \in {"update", "remove"} /\ req[c].k \in Coupons
        /\ req[c].row \in CouponRows /\ req[c].id \in Nat
        /\ UNCHANGED <<item, coupon, redeemed, customer, payment, made, session, returned,
                       lost>>
        /\ begun' = begun
    BY UpdatePromotionCodeFacts
  <1>2. codes' \in [Coupons -> SUBSET Nat] /\ disturbed' \subseteq Coupons
    <2>1. codes[req[c].k] \subseteq Nat
      BY <1>1 DEF Types, TypeOK
    <2>2. CASE codes' = codes /\ disturbed' = disturbed \cup {req[c].k}
      BY <1>1, <2>2 DEF Types, TypeOK
    <2>3. CASE /\ codes' = [codes EXCEPT ![req[c].k] = IF req[c].row.active
                                                       THEN codes[req[c].k] \cup {req[c].id}
                                                       ELSE codes[req[c].k] \ {req[c].id}]
               /\ disturbed' = disturbed
      <3>. DEFINE x == IF req[c].row.active THEN codes[req[c].k] \cup {req[c].id}
                       ELSE codes[req[c].k] \ {req[c].id}
      <3>1. x \subseteq Nat
        BY <1>1, <2>1
      <3>2. codes' = [codes EXCEPT ![req[c].k] = x]
        BY <2>3
      <3>. HIDE DEF x
      <3>. QED  BY <2>3, <3>1, <3>2 DEF Types, TypeOK
    <2>. QED  BY <2>2, <2>3, UpdatePromotionCodeFacts
  <1>3. PICK step \in {"idle", "storing"} :
          Moved(c, step, IF step = "idle" THEN None ELSE req[c])
    BY UpdatePromotionCodeFacts
  <1>4. TypeOK'
    BY <1>1, <1>2, <1>3 DEF Moved, Types, TypeOK
  <1>5. Fits(c)'
    BY <1>1, <1>3, IdleFits DEF Moved, Fits, Active, Selling
  <1>. QED  BY <1>1, <1>3, <1>4, <1>5, NothingIsLost, StepTypes DEF Moved

(* The row keeps its count and the promotion code it names. *)
LEMMA StoreCouponFacts ==
  ASSUME Types, NEW c \in Clients, StoreCoupon(c)
  PROVE  /\ pc[c] = "storing" /\ Active(c) /\ Fits(c) /\ req[c] \in Requests
         /\ req[c].op \in {"update", "remove"} /\ req[c].k \in Coupons
         /\ req[c].row \in CouponRows
         /\ coupon[req[c].k] # None /\ coupon[req[c].k] \in CouponRows
         /\ UNCHANGED <<item, redeemed, customer, payment, made, codes, session, returned,
                        disturbed, lost>>
         /\ begun' = begun
         /\ \E x \in CouponRows :
              /\ coupon' = [coupon EXCEPT ![req[c].k] = x]
              /\ x.active = (req[c].op = "update" /\ req[c].row.active)
              /\ x.promo = coupon[req[c].k].promo /\ x.used = coupon[req[c].k].used
         /\ \/ req[c].op = "remove" /\ req[c].id # 0 /\ Moved(c, "telling", req[c])
            \/ (req[c].op = "update" \/ req[c].id = 0) /\ Moved(c, "idle", None)
  <1>1. /\ pc[c] = "storing" /\ Active(c) /\ Fits(c) /\ req[c] \in Requests
        /\ req[c].op \in {"update", "remove"} /\ Goto(c, AfterStore(req[c]))
        /\ UNCHANGED <<item, redeemed, customer, payment, made, codes, session, returned,
                       disturbed, lost>>
    BY DEF StoreCoupon, Types, TypeOK, RequestsFit, stripe, history, Active
  <1>2. /\ req[c].k \in Coupons /\ req[c].row \in CouponRows
        /\ coupon[req[c].k] # None /\ coupon[req[c].k] \in CouponRows
    BY <1>1 DEF Fits, Types, TypeOK
  <1>3. \E x \in CouponRows :
          /\ coupon' = [coupon EXCEPT ![req[c].k] = x]
          /\ x.active = (req[c].op = "update" /\ req[c].row.active)
          /\ x.promo = coupon[req[c].k].promo /\ x.used = coupon[req[c].k].used
    <2>1. CASE req[c].op = "remove"
      <3>. DEFINE x == [coupon[req[c].k] EXCEPT !.active = FALSE]
      <3>1. coupon' = [coupon EXCEPT ![req[c].k] = x]
        BY <2>1 DEF StoreCoupon
      <3>2. /\ x \in CouponRows /\ x.active = FALSE /\ x.promo = coupon[req[c].k].promo
            /\ x.used = coupon[req[c].k].used
        BY <1>2 DEF CouponRows
      <3>. HIDE DEF x
      <3>. QED  BY <2>1, <3>1, <3>2
    <2>2. CASE req[c].op = "update"
      <3>. DEFINE x1 == [coupon[req[c].k] EXCEPT !.active = req[c].row.active]
                  x2 == [x1 EXCEPT !.scope = req[c].row.scope]
                  x == [x2 EXCEPT !.max = req[c].row.max]
      <3>1. coupon' = [coupon EXCEPT ![req[c].k] = x]
        BY <2>2 DEF StoreCoupon
      <3>2. /\ req[c].row.active \in BOOLEAN /\ req[c].row.scope \in Scopes
            /\ req[c].row.max \in Nat
        BY <1>2 DEF CouponRows
      <3>3. /\ x1 \in CouponRows /\ x1.active = req[c].row.active
            /\ x1.promo = coupon[req[c].k].promo /\ x1.used = coupon[req[c].k].used
        BY <1>2, <3>2 DEF CouponRows
      <3>. HIDE DEF x1
      <3>4. /\ x2 \in CouponRows /\ x2.active = x1.active
            /\ x2.promo = x1.promo /\ x2.used = x1.used
        BY <3>2, <3>3 DEF CouponRows
      <3>. HIDE DEF x2
      <3>5. /\ x \in CouponRows /\ x.active = x2.active
            /\ x.promo = x2.promo /\ x.used = x2.used
        BY <3>2, <3>4 DEF CouponRows
      <3>. HIDE DEF x
      <3>6. x.active = (req[c].op = "update" /\ req[c].row.active)
        BY <2>2, <3>2, <3>3, <3>4, <3>5
      <3>. QED  BY <3>1, <3>3, <3>4, <3>5, <3>6
    <2>. QED  BY <1>1, <2>1, <2>2
  <1>4. /\ begun' = begun
        /\ \/ req[c].op = "remove" /\ req[c].id # 0 /\ Moved(c, "telling", req[c])
           \/ (req[c].op = "update" \/ req[c].id = 0) /\ Moved(c, "idle", None)
    <2>1. CASE req[c].op = "remove" /\ req[c].id # 0
      <3>1. Goto(c, "telling")
        BY <1>1, <2>1 DEF AfterStore
      <3>. QED  BY <1>1, <2>1, <3>1, GotoMoves DEF Types, Places
    <2>2. CASE req[c].op = "update" \/ req[c].id = 0
      <3>1. Goto(c, "idle")
        BY <1>1, <2>2 DEF AfterStore
      <3>. QED  BY <1>1, <2>2, <3>1, GotoMoves DEF Types, Places
    <2>. QED  BY <1>1, <2>1, <2>2
  <1>. QED  BY <1>1, <1>2, <1>3, <1>4

LEMMA StoreCouponTypes ==
  ASSUME Types, NEW c \in Clients, StoreCoupon(c)  PROVE Types'
  <1>1. /\ pc[c] = "storing" /\ Fits(c)
        /\ req[c].op \in {"update", "remove"} /\ req[c].k \in Coupons
        /\ req[c].row \in CouponRows
        /\ UNCHANGED <<item, redeemed, customer, payment, made, codes, session, returned,
                       disturbed, lost>>
        /\ begun' = begun
    BY StoreCouponFacts
  <1>2. PICK x \in CouponRows : coupon' = [coupon EXCEPT ![req[c].k] = x]
    BY StoreCouponFacts
  <1>3. PICK step \in {"idle", "telling"} :
          Moved(c, step, IF step = "idle" THEN None ELSE req[c])
    BY StoreCouponFacts
  <1>4. coupon' \in [Coupons -> CouponRows \cup {None}]
    BY <1>1, <1>2 DEF Types, TypeOK
  <1>5. TypeOK' /\ Keeps
    <2>1. TypeOK'
      BY <1>1, <1>3, <1>4 DEF Moved, Types, TypeOK
    <2>. QED  BY <1>1, <1>2, <2>1, NoneIsNoRow DEF Keeps, Types, TypeOK
  <1>6. Fits(c)'
    <2>1. coupon'[req[c].k] # None
      BY <1>1, <1>2, NoneIsNoRow DEF Types, TypeOK
    <2>. QED  BY <1>1, <1>3, <2>1, IdleFits DEF Moved, Fits, Active, Selling
  <1>. QED  BY <1>1, <1>3, <1>5, <1>6, StepTypes DEF Moved

LEMMA FailFacts ==
  ASSUME Types, NEW c \in Clients, Fail(c)
  PROVE  /\ Active(c) /\ Fits(c) /\ req[c] \in Requests
         /\ UNCHANGED <<item, coupon, redeemed, customer, payment, made, codes, session,
                        returned>>
         /\ disturbed' = disturbed \cup {k \in Coupons : Editing(c, k)}
         /\ lost \subseteq lost'
         /\ pc[c] = "storing" /\ req[c].op = "refund" => req[c].n \in lost'
         /\ lost' \subseteq Ids
         /\ begun' = begun /\ Moved(c, "idle", None)
  <1>1. /\ Active(c) /\ Fits(c) /\ req[c] \in Requests /\ Goto(c, "idle")
        /\ UNCHANGED <<item, coupon, redeemed, customer, payment, made, codes, session,
                       returned>>
        /\ disturbed' = disturbed \cup {k \in Coupons : Editing(c, k)}
        /\ lost' = IF pc[c] = "storing" /\ req[c].op = "refund"
                   THEN lost \cup {req[c].n} ELSE lost
    BY DEF Fail, Types, TypeOK, RequestsFit, tables, stripe, Active
  <1>2. begun' = begun /\ Moved(c, "idle", None)
    BY <1>1, GotoMoves DEF Types, Places
  <1>3. lost' \subseteq Ids
    BY <1>1 DEF Fits, Types, TypeOK
  <1>. QED  BY <1>1, <1>2, <1>3

LEMMA FailTypes == ASSUME Types, NEW c \in Clients, Fail(c)  PROVE Types'
  <1>1. /\ UNCHANGED <<item, coupon, redeemed, customer, payment, made, codes, session,
                       returned>>
        /\ disturbed' = disturbed \cup {k \in Coupons : Editing(c, k)}
        /\ lost' \subseteq Ids /\ begun' = begun /\ Moved(c, "idle", None)
    BY FailFacts
  <1>2. TypeOK' /\ Fits(c)'
    BY <1>1, IdleFits DEF Moved, Types, TypeOK
  <1>. QED  BY <1>1, <1>2, NothingIsLost, StepTypes DEF Moved

-----------------------------------------------------------------------------
(* The steps by the kind of request that takes them, and what a client is    *)
(* at: its request's operation, or nothing.                                 *)
SellingStep(c) ==
  \/ \E u \in Users : \/ OpenBillingPortal(c, u)
                      \/ \E i \in Items, k \in Coupons \cup {None} : StartCheckout(c, u, i, k)
  \/ CreateCustomer(c) \/ SaveCustomer(c) \/ ResolveForCheckout(c) \/ CreateCheckoutSession(c)
DeliveryStep(c) ==
  (\E n \in Ids : Deliver(c, n)) \/ OnCheckoutCompleted(c) \/ RecordRedemption(c)
RefundStep(c) ==
  \/ \E n \in Ids, amount \in Amounts : RefundPaymentAdmin(c, n, amount)
  \/ RefundAtStripe(c) \/ StoreRefund(c)
EditStep(c) ==
  \/ \E k \in Coupons :
       \/ \E active \in BOOLEAN, scope \in Scopes, max \in 0 .. 1 :
            CreateCoupon(c, k, NewCoupon(active, scope, max))
       \/ coupon[k] # None /\ \E active \in BOOLEAN, max \in 0 .. 1 :
            UpdateCoupon(c, k, [coupon[k] EXCEPT !.active = active, !.max = max])
       \/ RemoveCoupon(c, k)
  \/ SyncCoupon(c) \/ InsertCoupon(c) \/ UpdatePromotionCode(c) \/ StoreCoupon(c)
ItemStep == \E i \in Items : CreateItem(i) \/ UpdateItem(i) \/ DeleteItem(i)

Role(c) == IF pc[c] = "idle" THEN "idle" ELSE req[c].op

(* A webhook is one request's alone: of the clients that deliver, no two     *)
(* deliver the same session.                                                *)
DeliveredOnce ==
  \A c, d \in Clients :
    Role(c) = "deliver" /\ Role(d) = "deliver" /\ req[c].n = req[d].n => c = d

(* A checkout that has a customer has the one our row names. *)
CustomersInTurn ==
  /\ SessionsUseTheRow
  /\ \A c \in Clients :
       pc[c] \in {"resolving", "opening"} => req[c].id = customer[req[c].user]

(* Only a delivered session has a payment, and only a payment is refunded;   *)
(* the status a request is about to store is true of what Stripe returned.   *)
StatusIsTrue(status, n) ==
  /\ status = "refunded" => returned[n] = Total
  /\ status = "partially_refunded" => returned[n] > 0
Returning(c, n) == pc[c] = "storing" /\ req[c].op = "refund" /\ req[c].n = n
RefundsInTurn ==
  /\ \A c \in Clients :
       /\ pc[c] = "recording" => payment[req[c].n] = "none"
       /\ Role(c) = "refund" => payment[req[c].n] # "none"
       /\ \A n \in Ids : Returning(c, n) => StatusIsTrue(RefundStatus(req[c].amount), n)
  /\ \A n \in Ids :
       /\ payment[n] # "none" => session[n] # None /\ session[n].stage = "delivered"
       /\ payment[n] = "none" => returned[n] = 0
       /\ StatusIsTrue(payment[n], n)
       /\ payment[n] = "completed" /\ returned[n] > 0 =>
            n \in lost \/ \E c \in Clients : Returning(c, n)

(* Where the edit of a coupon that nothing disturbed stands, step by step.   *)
Settled(k) ==
  codes[k] = IF coupon[k] # None /\ coupon[k].active /\ coupon[k].promo # 0
             THEN {coupon[k].promo} ELSE {}
Creates(c, k) ==
  /\ coupon[k] = None
  /\ pc[c] = "syncing" => req[c].row.promo = 0
  /\ codes[k] = IF req[c].row.active /\ req[c].row.promo # 0 THEN {req[c].row.promo} ELSE {}
Updates(c, k) ==
  /\ req[c].id = coupon[k].promo
  /\ pc[c] = "telling" => Settled(k) /\ req[c].id # 0 /\ req[c].row.active # coupon[k].active
  /\ pc[c] = "storing" =>
       codes[k] = IF req[c].row.active /\ req[c].id # 0 THEN {req[c].id} ELSE {}
Removes(c, k) ==
  /\ req[c].id = coupon[k].promo /\ ~ req[c].row.active
  /\ pc[c] = "storing" => Settled(k)
  /\ pc[c] = "telling" => ~ coupon[k].active /\ codes[k] \subseteq {req[c].id}
InOrder(c, k) ==
  /\ req[c].op = "create" => Creates(c, k)
  /\ req[c].op = "update" => Updates(c, k)
  /\ req[c].op = "remove" => Removes(c, k)
Follows(k) ==
  k \notin disturbed =>
    /\ (\A c \in Clients : ~ Editing(c, k)) => Settled(k)
    /\ \A c \in Clients : Editing(c, k) => /\ InOrder(c, k)
                                           /\ \A d \in Clients : Editing(d, k) => d = c
EditsInOrder == \A k \in Coupons : Follows(k)

(* The sessions with which a user's redemptions of a coupon are accounted    *)
(* for: delivered, and with no request still busy with them.                *)
Spent(k, u) ==
  {n \in Ids : /\ session[n] # None /\ session[n].user = u /\ session[n].coupon = k
               /\ session[n].stage = "delivered"
               /\ \A c \in Clients : ~ (Role(c) = "deliver" /\ req[c].n = n)}
UsesInTurn ==
  /\ \A n \in Ids : session[n] # None => session[n].before = 0
  /\ \A c \in Clients : Role(c) = "create" => req[c].row.used = 0
  /\ \A k \in Coupons :
       /\ IsFiniteSet(RedemptionsOf(k))
       /\ coupon[k] = None => \A u \in Users : redeemed[k][u] = 0
       /\ coupon[k] # None => coupon[k].used = Cardinality(RedemptionsOf(k))
       /\ \A u \in Users : redeemed[k][u] <= Cardinality(Spent(k, u))

IInv == Types /\ DeliveredOnce /\ CustomersInTurn /\ RefundsInTurn /\ EditsInOrder /\ UsesInTurn

-----------------------------------------------------------------------------
LEMMA StepKinds ==
  ASSUME Next
  PROVE  \/ \E c \in Clients : \/ SellingStep(c) \/ DeliveryStep(c) \/ RefundStep(c)
                               \/ EditStep(c) \/ Fail(c)
         \/ \E n \in Ids : Pay(n)
         \/ ItemStep
  <1>1. ASSUME NEW c \in Clients, Handle(c)
        PROVE  SellingStep(c) \/ DeliveryStep(c) \/ RefundStep(c) \/ EditStep(c)
    BY <1>1 DEF Handle, SellingStep, DeliveryStep, RefundStep, EditStep
  <1>2. ASSUME NEW c \in Clients, Proceed(c)
        PROVE  SellingStep(c) \/ DeliveryStep(c) \/ RefundStep(c) \/ EditStep(c)
    BY <1>2 DEF Proceed, SellingStep, DeliveryStep, RefundStep, EditStep
  <1>. QED  BY <1>1, <1>2 DEF Next, ItemStep

LEMMA StutterTypes == ASSUME Types, UNCHANGED vars  PROVE Types'
  <1>1. UNCHANGED <<item, coupon, redeemed, customer, payment, made, codes, session,
                    returned, pc, req, begun, disturbed, lost>>
    BY DEF vars, tables, stripe, history
  <1>2. TypeOK'
    BY <1>1 DEF Types, TypeOK
  <1>. QED  BY <1>1, <1>2, NothingIsLost, StepTypes

LEMMA NextTypes == Types /\ [Next]_vars => Types'
  <1>. SUFFICES ASSUME Types, Next  PROVE Types'
    BY StutterTypes
  <1>1. ASSUME NEW c \in Clients, SellingStep(c)  PROVE Types'
    BY <1>1, OpenBillingPortalTypes, StartCheckoutTypes, CreateCustomerTypes,
       SaveCustomerTypes, ResolveForCheckoutTypes, CreateCheckoutSessionTypes DEF SellingStep
  <1>2. ASSUME NEW c \in Clients, DeliveryStep(c)  PROVE Types'
    BY <1>2, DeliverTypes, OnCheckoutCompletedTypes, RecordRedemptionTypes DEF DeliveryStep
  <1>3. ASSUME NEW c \in Clients, RefundStep(c)  PROVE Types'
    BY <1>3, RefundPaymentAdminTypes, RefundAtStripeTypes, StoreRefundTypes DEF RefundStep
  <1>4. ASSUME NEW c \in Clients, EditStep(c)  PROVE Types'
    BY <1>4, CreateCouponTypes, UpdateCouponTypes, RemoveCouponTypes, SyncCouponTypes,
       InsertCouponTypes, UpdatePromotionCodeTypes, StoreCouponTypes DEF EditStep
  <1>5. CASE ItemStep
    BY <1>5, ItemsTypes DEF ItemStep
  <1>. QED  BY <1>1, <1>2, <1>3, <1>4, <1>5, FailTypes, PayTypes, StepKinds

(* A client's place tells its role, and its role the places it may be in. *)
RoleFits(c) ==
  /\ Role(c) = "idle" <=> pc[c] = "idle"
  /\ Role(c) \in {"checkout", "portal"} <=> Selling(c)
  /\ Role(c) = "deliver" <=> pc[c] \in {"recording", "redeeming"}
  /\ Role(c) = "refund" => pc[c] \in {"refunding", "storing"}
  /\ Role(c) = "create" <=> pc[c] \in {"syncing", "inserting"}
  /\ Role(c) \in {"update", "remove"} => pc[c] \in {"telling", "storing"}
  /\ pc[c] = "refunding" => Role(c) = "refund"
  /\ pc[c] = "telling" => Role(c) \in {"update", "remove"}
  /\ pc[c] = "storing" => Role(c) \in {"refund", "update", "remove"}
  /\ \A n \in Ids : Returning(c, n) => Role(c) = "refund"
  /\ \A k \in Coupons :
       Editing(c, k) <=> Role(c) \in {"create", "update", "remove"} /\ req[c].k = k

LEMMA Roles == Types => \A c \in Clients : RoleFits(c)
  <1>. SUFFICES ASSUME Types, NEW c \in Clients  PROVE RoleFits(c)
    OBVIOUS
  <1>1. /\ Fits(c) /\ pc[c] \in Places /\ (pc[c] = "idle" <=> req[c] = None)
        /\ Active(c) => req[c].op \in Ops
    BY DEF Types, TypeOK, RequestsFit, Active, Requests
  <1>. QED  BY <1>1 DEF RoleFits, Role, Fits, Active, Selling, Places, Ops, Returning, Editing

LEMMA RolesNext == Types /\ [Next]_vars => (\A c \in Clients : RoleFits(c))'
  BY Roles, NextTypes, PTL

-----------------------------------------------------------------------------
(* What a step of each kind leaves alone. *)
Bystanders(c) == \A d \in Clients \ {c} : pc'[d] = pc[d] /\ req'[d] = req[d]

LEMMA BystandersKeepRoles ==
  ASSUME NEW c \in Clients, Bystanders(c), NEW d \in Clients \ {c}
  PROVE  /\ Role(d)' = Role(d) /\ pc'[d] = pc[d] /\ req'[d] = req[d]
         /\ \A n \in Ids : Returning(d, n)' <=> Returning(d, n)
         /\ \A k \in Coupons : Editing(d, k)' <=> Editing(d, k)
  BY DEF Bystanders, Role, Returning, Editing

LEMMA SellingFrame ==
  ASSUME Types, NEW c \in Clients, SellingStep(c), RoleFits(c)'
  PROVE  /\ UNCHANGED <<coupon, redeemed, payment, codes, returned, disturbed, lost>>
         /\ Role(c) \in {"idle", "checkout", "portal"}
         /\ Role(c)' \in {"idle", "checkout", "portal"}
         /\ Bystanders(c)
         /\ \A n \in Ids : session[n] # None => session'[n] = session[n]
         /\ \A n \in Ids : session[n] = None /\ session'[n] # None =>
              session'[n].before = 0 /\ session'[n].stage = "open"
  <1>0. RoleFits(c) /\ pc \in [Clients -> Places] /\ req \in [Clients -> Requests \cup {None}]
    BY Roles DEF Types, TypeOK
  <1>1. CASE \E u \in Users : OpenBillingPortal(c, u)
    <2>1. /\ UNCHANGED <<coupon, redeemed, payment, codes, returned, disturbed, lost, session>>
          /\ pc[c] = "idle" /\ pc'[c] = "enrolling" /\ Bystanders(c)
      BY <1>0, <1>1 DEF OpenBillingPortal, Accept, Begin, tables, stripe, history, Bystanders
    <2>. QED  BY <1>0, <2>1 DEF RoleFits, Selling
  <1>2. CASE \E u \in Users, i \in Items, k \in Coupons \cup {None} : StartCheckout(c, u, i, k)
    <2>1. PICK step \in {"enrolling", "opening", "resolving"}, r \in Requests :
            Accept(c, r, step) /\ UNCHANGED <<tables, stripe, disturbed, lost>>
      BY <1>2, StartCheckoutFacts
    <2>2. /\ UNCHANGED <<coupon, redeemed, payment, codes, returned, disturbed, lost, session>>
          /\ pc[c] = "idle" /\ pc'[c] = step /\ Bystanders(c)
      BY <1>0, <2>1 DEF Accept, Begin, tables, stripe, Bystanders
    <2>. QED  BY <1>0, <2>2 DEF RoleFits, Selling
  <1>3. CASE CreateCustomer(c)
    <2>1. /\ UNCHANGED <<coupon, redeemed, payment, codes, returned, disturbed, lost, session>>
          /\ pc[c] = "enrolling" /\ pc'[c] = "saving" /\ Bystanders(c)
      BY <1>0, <1>3 DEF CreateCustomer, Continue, tables, history, Bystanders
    <2>. QED  BY <1>0, <2>1 DEF RoleFits, Selling
  <1>4. CASE SaveCustomer(c)
    <2>1. PICK step \in {"idle", "opening", "resolving"} : Goto(c, step)
      BY <1>4 DEF SaveCustomer, NextOf
    <2>2. /\ UNCHANGED <<coupon, redeemed, payment, codes, returned, disturbed, lost, session>>
          /\ pc[c] = "saving" /\ pc'[c] = step /\ Bystanders(c)
      BY <1>0, <1>4, <2>1 DEF SaveCustomer, Goto, Continue, stripe, history, Bystanders
    <2>. QED  BY <1>0, <2>2 DEF RoleFits, Selling
  <1>5. CASE ResolveForCheckout(c)
    <2>1. /\ UNCHANGED <<coupon, redeemed, payment, codes, returned, disturbed, lost, session>>
          /\ pc[c] = "resolving" /\ pc'[c] \in {"idle", "opening"} /\ Bystanders(c)
      BY <1>5, ResolveForCheckoutFacts DEF Moved, Bystanders
    <2>. QED  BY <1>0, <2>1 DEF RoleFits, Selling
  <1>6. CASE CreateCheckoutSession(c)
    <2>1. /\ UNCHANGED <<coupon, redeemed, payment, codes, returned, disturbed, lost>>
          /\ pc[c] = "opening" /\ pc'[c] = "idle" /\ Bystanders(c)
      BY <1>6, CreateCheckoutSessionFacts DEF Moved, Bystanders
    <2>2. PICK n \in Ids, x \in Sessions :
            /\ session[n] = None /\ session' = [session EXCEPT ![n] = x]
            /\ x.before = 0 /\ x.stage = "open"
      BY <1>6, CreateCheckoutSessionFacts
    <2>3. /\ \A m \in Ids : session[m] # None => session'[m] = session[m]
          /\ \A m \in Ids : session[m] = None /\ session'[m] # None =>
               session'[m].before = 0 /\ session'[m].stage = "open"
      BY <2>2 DEF Types, TypeOK
    <2>. QED  BY <1>0, <2>1, <2>3 DEF RoleFits, Selling
  <1>. QED  BY <1>1, <1>2, <1>3, <1>4, <1>5, <1>6 DEF SellingStep

(* Sessions pass to their next stages, and nothing else of them changes. *)
Staged ==
  \A n \in Ids : /\ session'[n] # None <=> session[n] # None
                 /\ session[n] # None =>
                      /\ session'[n].user = session[n].user
                      /\ session'[n].coupon = session[n].coupon
                      /\ session'[n].customer = session[n].customer
                      /\ session'[n].before = session[n].before
                      /\ session[n].stage = "delivered" => session'[n].stage = "delivered"

LEMMA DeliveryFrame ==
  ASSUME Types, NEW c \in Clients, DeliveryStep(c), RoleFits(c)'
  PROVE  /\ UNCHANGED <<customer, codes, returned, disturbed, lost>>
         /\ Role(c) \in {"idle", "deliver"} /\ Role(c)' \in {"idle", "deliver"}
         /\ Bystanders(c) /\ Staged
  <1>0. RoleFits(c)
    BY Roles
  <1>1. CASE \E n \in Ids : Deliver(c, n)
    <2>1. PICK n \in Ids : Deliver(c, n)
      BY <1>1
    <2>2. /\ UNCHANGED <<customer, codes, returned, disturbed, lost>>
          /\ pc[c] = "idle" /\ pc'[c] = "recording" /\ Bystanders(c)
      BY <2>1, DeliverFacts DEF Moved, Bystanders
    <2>3. /\ session[n] # None /\ session[n].stage = "paid"
          /\ session'[n] # None /\ session'[n].stage = "delivered"
          /\ session'[n].user = session[n].user /\ session'[n].coupon = session[n].coupon
          /\ session'[n].customer = session[n].customer /\ session'[n].before = session[n].before
          /\ \A m \in Ids \ {n} : session'[m] = session[m]
      BY <2>1, DeliverFacts
    <2>4. Staged
      BY <2>3 DEF Staged
    <2>. QED  BY <1>0, <2>2, <2>4 DEF RoleFits
  <1>2. CASE OnCheckoutCompleted(c)
    <2>1. /\ UNCHANGED <<customer, codes, session, returned, disturbed, lost>>
          /\ pc[c] = "recording" /\ pc'[c] \in {"idle", "redeeming"} /\ Bystanders(c)
      BY <1>2, OnCheckoutCompletedFacts DEF Moved, Bystanders
    <2>. QED  BY <1>0, <2>1 DEF RoleFits, Staged
  <1>3. CASE RecordRedemption(c)
    <2>1. /\ UNCHANGED <<customer, codes, session, returned, disturbed, lost>>
          /\ pc[c] = "redeeming" /\ pc'[c] = "idle" /\ Bystanders(c)
      BY <1>3, RecordRedemptionFacts DEF Moved, Bystanders
    <2>. QED  BY <1>0, <2>1 DEF RoleFits, Staged
  <1>. QED  BY <1>1, <1>2, <1>3 DEF DeliveryStep

LEMMA RefundFrame ==
  ASSUME Types, NEW c \in Clients, RefundStep(c), RoleFits(c)'
  PROVE  /\ UNCHANGED <<customer, coupon, redeemed, codes, session, disturbed, lost>>
         /\ Role(c) \in {"idle", "refund"} /\ Role(c)' \in {"idle", "refund"}
         /\ Bystanders(c)
  <1>0. RoleFits(c)
    BY Roles
  <1>1. CASE \E n \in Ids, amount \in Amounts : RefundPaymentAdmin(c, n, amount)
    <2>1. PICK n \in Ids, amount \in Amounts : RefundPaymentAdmin(c, n, amount)
      BY <1>1
    <2>2. UNCHANGED <<tables, stripe, disturbed, lost>> /\ pc[c] = "idle"
      BY <2>1, RefundPaymentAdminFacts
    <2>3. pc'[c] = "refunding" /\ Bystanders(c)
      BY <2>1, RefundPaymentAdminFacts DEF Moved, Bystanders
    <2>. QED  BY <1>0, <2>2, <2>3 DEF RoleFits, tables, stripe
  <1>2. CASE RefundAtStripe(c)
    <2>1. /\ UNCHANGED <<customer, coupon, redeemed, codes, session, disturbed, lost>>
          /\ pc[c] = "refunding" /\ Role(c)' \in {"idle", "refund"} /\ Bystanders(c)
      BY <1>2, RefundAtStripeFacts DEF Moved, Bystanders, Role
    <2>. QED  BY <1>0, <2>1 DEF RoleFits
  <1>3. CASE StoreRefund(c)
    <2>1. /\ UNCHANGED <<customer, coupon, redeemed, codes, session, disturbed, lost>>
          /\ Role(c) = "refund" /\ pc'[c] = "idle" /\ Bystanders(c)
      BY <1>3, StoreRefundFacts DEF Moved, Bystanders, Role, Active
    <2>. QED  BY <1>0, <2>1 DEF RoleFits
  <1>. QED  BY <1>1, <1>2, <1>3 DEF RefundStep

EditOps == {"create", "update", "remove"}

LEMMA EditFrame ==
  ASSUME Types, NEW c \in Clients, EditStep(c), RoleFits(c)'
  PROVE  /\ UNCHANGED <<customer, redeemed, payment, session, returned, lost>>
         /\ Role(c) \in {"idle"} \cup EditOps /\ Role(c)' \in {"idle"} \cup EditOps
         /\ Bystanders(c)
  <1>0. RoleFits(c)
    BY Roles
  <1>1. ASSUME NEW op \in EditOps, NEW k, NEW row, NEW id, NEW step \in Places \ {"idle"},
               EditBegins(c, op, k, row, id, step)
        PROVE  /\ UNCHANGED <<customer, redeemed, payment, session, returned, lost>>
               /\ Role(c) = "idle" /\ Role(c)' = op /\ Bystanders(c)
    BY <1>1 DEF EditBegins, Moved, Bystanders, Role, tables, stripe
  <1>2. ASSUME NEW k \in Coupons, NEW active \in BOOLEAN, NEW scope \in Scopes, NEW max \in 0 .. 1,
               CreateCoupon(c, k, NewCoupon(active, scope, max))
        PROVE  \E row : EditBegins(c, "create", k, row, 0, "syncing")
    BY <1>2, CreateCouponFacts
  <1>3. ASSUME NEW k \in Coupons, NEW active \in BOOLEAN, NEW max \in 0 .. 1, coupon[k] # None,
               UpdateCoupon(c, k, [coupon[k] EXCEPT !.active = active, !.max = max])
        PROVE  \E row \in CouponRows, step \in {"telling", "storing"} :
                 EditBegins(c, "update", k, row, coupon[k].promo, step)
    BY <1>3, UpdateCouponFacts
  <1>4. ASSUME NEW k \in Coupons, RemoveCoupon(c, k)
        PROVE  \E row : EditBegins(c, "remove", k, row, coupon[k].promo, "storing")
    BY <1>4, RemoveCouponFacts
  <1>5. CASE SyncCoupon(c)
    <2>1. /\ UNCHANGED <<customer, redeemed, payment, session, returned, lost>>
          /\ pc[c] = "syncing" /\ pc'[c] = "inserting" /\ Bystanders(c)
      BY <1>5, SyncCouponFacts DEF Moved, Bystanders
    <2>. QED  BY <1>0, <2>1 DEF RoleFits, EditOps
  <1>6. CASE InsertCoupon(c)
    <2>1. /\ UNCHANGED <<customer, redeemed, payment, session, returned, lost>>
          /\ pc[c] = "inserting" /\ pc'[c] = "idle" /\ Bystanders(c)
      BY <1>6, InsertCouponFacts DEF Moved, Bystanders
    <2>. QED  BY <1>0, <2>1 DEF RoleFits, EditOps
  <1>7. CASE UpdatePromotionCode(c)
    <2>1. /\ UNCHANGED <<customer, redeemed, payment, session, returned, lost>>
          /\ Role(c) \in EditOps /\ Role(c)' \in {"idle", "update"} /\ Bystanders(c)
      BY <1>7, UpdatePromotionCodeFacts DEF Moved, Bystanders, Role, Active, EditOps
    <2>. QED  BY <2>1 DEF EditOps
  <1>8. CASE StoreCoupon(c)
    <2>1. /\ UNCHANGED <<customer, redeemed, payment, session, returned, lost>>
          /\ Role(c) \in EditOps /\ Role(c)' \in {"idle", "remove"} /\ Bystanders(c)
      BY <1>8, StoreCouponFacts DEF Moved, Bystanders, Role, Active, EditOps
    <2>. QED  BY <2>1 DEF EditOps
  <1>. QED  BY <1>1, <1>2, <1>3, <1>4, <1>5, <1>6, <1>7, <1>8 DEF EditStep, EditOps, Places

QuietStep == (\E n \in Ids : Pay(n)) \/ ItemStep \/ UNCHANGED vars

LEMMA QuietFrame ==
  ASSUME Types, QuietStep
  PROVE  /\ UNCHANGED <<coupon, redeemed, customer, payment, codes, returned, pc, req,
                        disturbed, lost>>
         /\ Staged
         /\ \A n \in Ids : session'[n] # None /\ session'[n].stage = "delivered" =>
                             session[n].stage = "delivered"
  <1>1. CASE UNCHANGED vars
    BY <1>1 DEF vars, tables, stripe, history, Staged
  <1>2. CASE ItemStep
    BY <1>2 DEF ItemStep, CreateItem, UpdateItem, DeleteItem, EditItem, stripe, history, Staged
  <1>3. ASSUME NEW n \in Ids, Pay(n)
        PROVE  /\ UNCHANGED <<coupon, redeemed, customer, payment, codes, returned, pc, req,
                              disturbed, lost>>
               /\ Staged
               /\ \A m \in Ids : session'[m] # None /\ session'[m].stage = "delivered" =>
                                   session[m].stage = "delivered"
    <2>1. /\ UNCHANGED <<coupon, redeemed, customer, payment, codes, returned, pc, req,
                         disturbed, lost>>
          /\ session[n] # None /\ session[n].stage = "open"
      BY <1>3 DEF Pay, tables, history
    <2>2. PICK to \in {"paid", "expired"} : Stage(n, to)
      BY <1>3 DEF Pay
    <2>3. /\ session'[n] # None /\ session'[n].stage = to
          /\ session'[n].user = session[n].user /\ session'[n].coupon = session[n].coupon
          /\ session'[n].customer = session[n].customer /\ session'[n].before = session[n].before
          /\ \A m \in Ids \ {n} : session'[m] = session[m]
      BY <2>1, <2>2, StageFacts DEF Types
    <2>. QED  BY <2>1, <2>3 DEF Staged
  <1>. QED  BY <1>1, <1>2, <1>3 DEF QuietStep

-----------------------------------------------------------------------------
(* Deliveries. *)
LEMMA DeliveriesElsewhere ==
  ASSUME DeliveredOnce, NEW c \in Clients, Bystanders(c),
         Role(c)' = "deliver" => Role(c) = "deliver" /\ req'[c] = req[c]
  PROVE  DeliveredOnce'
  <1>1. \A d \in Clients : Role(d)' = "deliver" => Role(d) = "deliver" /\ req'[d] = req[d]
    BY BystandersKeepRoles
  <1>. QED  BY <1>1 DEF DeliveredOnce

LEMMA NextDelivers == Types /\ DeliveredOnce /\ [Next]_vars => DeliveredOnce'
  <1>. SUFFICES ASSUME Types, DeliveredOnce, [Next]_vars  PROVE DeliveredOnce'
    OBVIOUS
  <1>0. \A c \in Clients : RoleFits(c) /\ RoleFits(c)'
    BY Roles, RolesNext
  <1>1. ASSUME NEW c \in Clients, SellingStep(c) \/ RefundStep(c) \/ EditStep(c) \/ Fail(c)
        PROVE  DeliveredOnce'
    <2>1. Bystanders(c) /\ Role(c)' # "deliver"
      <3>1. CASE SellingStep(c)
        BY <1>0, <3>1, SellingFrame
      <3>2. CASE RefundStep(c)
        BY <1>0, <3>2, RefundFrame
      <3>3. CASE EditStep(c)
        BY <1>0, <3>3, EditFrame DEF EditOps
      <3>4. CASE Fail(c)
        BY <1>0, <3>4, FailFacts DEF Moved, Bystanders, RoleFits
      <3>. QED  BY <1>1, <3>1, <3>2, <3>3, <3>4
    <2>. QED  BY <2>1, DeliveriesElsewhere
  <1>2. ASSUME NEW c \in Clients, NEW n \in Ids, Deliver(c, n)  PROVE DeliveredOnce'
    <2>1. PICK r \in Requests : r.n = n /\ Moved(c, "recording", r)
      BY <1>2, DeliverFacts
    <2>2. session[n].stage = "paid"
      BY <1>2, DeliverFacts
    <2>3. ASSUME NEW d \in Clients, Role(d) = "deliver"  PROVE req[d].n # n
      BY <1>0, <2>2, <2>3 DEF RoleFits, Types, RequestsFit, Fits
    <2>4. Bystanders(c) /\ req'[c].n = n
      BY <2>1 DEF Moved, Bystanders
    <2>. QED  BY <2>3, <2>4, BystandersKeepRoles DEF DeliveredOnce
  <1>3. ASSUME NEW c \in Clients, OnCheckoutCompleted(c) \/ RecordRedemption(c)
        PROVE  DeliveredOnce'
    <2>1. /\ Role(c) = "deliver" /\ Bystanders(c)
          /\ pc'[c] = "idle" \/ req'[c] = req[c]
      BY <1>0, <1>3, OnCheckoutCompletedFacts, RecordRedemptionFacts
         DEF Moved, Bystanders, RoleFits
    <2>. QED  BY <1>0, <2>1, DeliveriesElsewhere DEF RoleFits
  <1>4. CASE QuietStep
    <2>1. pc' = pc /\ req' = req
      BY <1>4, QuietFrame
    <2>. QED  BY <2>1 DEF DeliveredOnce, Role
  <1>. QED  BY <1>1, <1>2, <1>3, <1>4, StepKinds DEF DeliveryStep, QuietStep

-----------------------------------------------------------------------------
(* Customers. *)
LEMMA CustomersElsewhere ==
  ASSUME Types, CustomersInTurn, NEW c \in Clients, Bystanders(c), customer' = customer, Staged,
         pc'[c] \notin {"resolving", "opening"}
  PROVE  CustomersInTurn'
  <1>1. SessionsUseTheRow'
    BY DEF CustomersInTurn, SessionsUseTheRow, Staged
  <1>. QED  BY <1>1 DEF CustomersInTurn, Bystanders

LEMMA NextKeepsCustomers == Types /\ CustomersInTurn /\ [Next]_vars => CustomersInTurn'
  <1>. SUFFICES ASSUME Types, CustomersInTurn, [Next]_vars  PROVE CustomersInTurn'
    OBVIOUS
  <1>0. \A c \in Clients : RoleFits(c) /\ RoleFits(c)'
    BY Roles, RolesNext
  <1>1. ASSUME NEW c \in Clients, DeliveryStep(c) \/ RefundStep(c) \/ EditStep(c) \/ Fail(c)
        PROVE  CustomersInTurn'
    <2>1. CASE DeliveryStep(c)
      BY <1>0, <2>1, DeliveryFrame, CustomersElsewhere DEF RoleFits
    <2>2. ASSUME session' = session  PROVE Staged
      BY <2>2 DEF Staged
    <2>3. CASE RefundStep(c)
      BY <1>0, <2>2, <2>3, RefundFrame, CustomersElsewhere DEF RoleFits
    <2>4. CASE EditStep(c)
      <3>1. Role(c)' \notin {"checkout", "portal"}
        BY <1>0, <2>4, EditFrame DEF EditOps
      <3>2. pc'[c] \notin {"resolving", "opening"}
        BY <1>0, <3>1 DEF RoleFits, Selling
      <3>. QED  BY <1>0, <2>2, <2>4, <3>2, EditFrame, CustomersElsewhere
    <2>5. CASE Fail(c)
      <3>1. customer' = customer /\ session' = session /\ pc'[c] = "idle" /\ Bystanders(c)
        BY <2>5, FailFacts DEF Moved, Bystanders
      <3>. QED  BY <2>2, <3>1, CustomersElsewhere
    <2>. QED  BY <1>1, <2>1, <2>3, <2>4, <2>5
  <1>2. CASE QuietStep
    BY <1>2, QuietFrame DEF CustomersInTurn, SessionsUseTheRow, Staged
  <1>3. ASSUME NEW c \in Clients, NEW u \in Users, NEW i \in Items,
               NEW k \in Coupons \cup {None}, StartCheckout(c, u, i, k)
        PROVE  CustomersInTurn'
    <2>1. PICK r \in Requests, step \in {"enrolling", "opening", "resolving"} :
            /\ r.user = u /\ r.id = customer[u]
            /\ Accept(c, r, step) /\ UNCHANGED <<tables, stripe, disturbed, lost>>
      BY <1>3, StartCheckoutFacts
    <2>2. Moved(c, step, r)
      BY <2>1, AcceptMoves DEF Types, Places
    <2>3. customer' = customer /\ session' = session
      BY <2>1 DEF tables, stripe
    <2>. QED  BY <2>1, <2>2, <2>3 DEF CustomersInTurn, SessionsUseTheRow, Moved
  <1>4. ASSUME NEW c \in Clients, NEW u \in Users, OpenBillingPortal(c, u)
        PROVE  CustomersInTurn'
    <2>1. /\ SellingStep(c) /\ customer' = customer /\ session' = session
          /\ pc'[c] = "enrolling"
      BY <1>4 DEF SellingStep, OpenBillingPortal, tables, stripe, Accept, Begin, Types, TypeOK
    <2>2. Bystanders(c)
      BY <1>0, <2>1, SellingFrame
    <2>. QED  BY <2>1, <2>2, CustomersElsewhere DEF Staged
  <1>5. ASSUME NEW c \in Clients, CreateCustomer(c)  PROVE CustomersInTurn'
    <2>1. /\ SellingStep(c) /\ customer' = customer /\ session' = session
          /\ pc'[c] = "saving"
      BY <1>5 DEF SellingStep, CreateCustomer, tables, Continue, Types, TypeOK
    <2>2. Bystanders(c)
      BY <1>0, <2>1, SellingFrame
    <2>. QED  BY <2>1, <2>2, CustomersElsewhere DEF Staged
  <1>6. ASSUME NEW c \in Clients, SaveCustomer(c)  PROVE CustomersInTurn'
    <2>1. /\ pc[c] = "saving" /\ Active(c) /\ session' = session /\ SellingStep(c)
      BY <1>6 DEF SaveCustomer, stripe, Active, SellingStep
    <2>2. Bystanders(c) /\ req[c].user \in Users
      BY <1>0, <2>1, SellingFrame DEF Types, RequestsFit, Fits, Selling
    <2>3. CASE customer[req[c].user] # 0
      <3>1. customer' = customer /\ Goto(c, "idle")
        BY <1>6, <2>3 DEF SaveCustomer
      <3>2. pc'[c] = "idle"
        BY <3>1 DEF Goto, Continue, Types, TypeOK
      <3>. QED  BY <2>1, <2>2, <3>1, <3>2, CustomersElsewhere DEF Staged
    <2>4. CASE customer[req[c].user] = 0
      <3>1. PICK step \in {"idle", "opening", "resolving"} : Goto(c, step)
        BY <1>6 DEF SaveCustomer, NextOf
      <3>2. Moved(c, step, IF step = "idle" THEN None ELSE req[c])
        BY <2>1, <3>1, GotoMoves DEF Types, Places
      <3>3. customer' = [customer EXCEPT ![req[c].user] = req[c].id]
        BY <1>6, <2>4 DEF SaveCustomer
      <3>4. /\ customer'[req[c].user] = req[c].id
            /\ \A u \in Users : customer[u] # 0 => customer'[u] = customer[u]
        BY <2>2, <2>4, <3>3 DEF Types, TypeOK
      <3>5. ASSUME NEW n \in Ids, session'[n] # None
            PROVE  session'[n].customer = customer'[session'[n].user]
        <4>1. /\ session'[n] = session[n] /\ session[n] \in Sessions
              /\ session[n].customer = customer[session[n].user]
          BY <2>1, <3>5 DEF Types, TypeOK, CustomersInTurn, SessionsUseTheRow
        <4>2. session[n].customer # 0 /\ session[n].user \in Users
          BY <4>1 DEF Sessions
        <4>. QED  BY <3>4, <4>1, <4>2
      <3>6. ASSUME NEW d \in Clients, pc'[d] \in {"resolving", "opening"}
            PROVE  req'[d].id = customer'[req'[d].user]
        <4>1. CASE d = c
          BY <3>2, <3>4, <3>6, <4>1 DEF Moved
        <4>2. CASE d # c
          <5>1. pc'[d] = pc[d] /\ req'[d] = req[d]
            BY <2>2, <4>2 DEF Bystanders
          <5>2. req[d].id # 0 /\ req[d].user \in Users /\ req[d].id = customer[req[d].user]
            BY <3>6, <5>1 DEF Types, RequestsFit, Fits, Selling, CustomersInTurn
          <5>. QED  BY <3>4, <5>1, <5>2
        <4>. QED  BY <4>1, <4>2
      <3>. QED  BY <3>5, <3>6 DEF CustomersInTurn, SessionsUseTheRow
    <2>. QED  BY <2>3, <2>4
  <1>7. ASSUME NEW c \in Clients, ResolveForCheckout(c)  PROVE CustomersInTurn'
    <2>1. /\ pc[c] = "resolving" /\ customer' = customer /\ session' = session
          /\ \/ Moved(c, "idle", None)
             \/ \E r \in Requests : /\ Moved(c, "opening", r)
                                    /\ r.user = req[c].user /\ r.id = req[c].id
      BY <1>7, ResolveForCheckoutFacts
    <2>. QED  BY <2>1 DEF CustomersInTurn, SessionsUseTheRow, Moved
  <1>8. ASSUME NEW c \in Clients, CreateCheckoutSession(c)  PROVE CustomersInTurn'
    <2>1. pc[c] = "opening" /\ customer' = customer /\ Moved(c, "idle", None)
      BY <1>8, CreateCheckoutSessionFacts
    <2>2. PICK n \in Ids, x \in Sessions :
            /\ session' = [session EXCEPT ![n] = x]
            /\ x.user = req[c].user /\ x.customer = req[c].id
      BY <1>8, CreateCheckoutSessionFacts
    <2>3. /\ session'[n] = x
          /\ \A m \in Ids \ {n} : session'[m] = session[m]
      BY <2>2 DEF Types, TypeOK
    <2>4. x.customer = customer[x.user]
      BY <2>1, <2>2 DEF CustomersInTurn
    <2>5. SessionsUseTheRow'
      BY <2>1, <2>3, <2>4 DEF CustomersInTurn, SessionsUseTheRow
    <2>. QED  BY <2>1, <2>5 DEF CustomersInTurn, Moved
  <1>9. ASSUME NEW c \in Clients, SellingStep(c)  PROVE CustomersInTurn'
    BY <1>3, <1>4, <1>5, <1>6, <1>7, <1>8, <1>9 DEF SellingStep
  <1>. QED  BY <1>1, <1>2, <1>9, StepKinds DEF QuietStep

-----------------------------------------------------------------------------
(* Refunds. *)
DeliveredStays ==
  \A n \in Ids : session[n] # None /\ session[n].stage = "delivered" =>
                   session'[n] # None /\ session'[n].stage = "delivered"

LEMMA RefundsElsewhere ==
  ASSUME RefundsInTurn, NEW c \in Clients, Bystanders(c), RoleFits(c)',
         payment' = payment, returned' = returned, lost \subseteq lost', DeliveredStays,
         pc'[c] # "recording", Role(c)' # "refund",
         \A n \in Ids : Returning(c, n) => n \in lost'
  PROVE  RefundsInTurn'
  <1>1. \A status, n : StatusIsTrue(status, n)' <=> StatusIsTrue(status, n)
    BY DEF StatusIsTrue
  <1>2. ASSUME NEW d \in Clients
        PROVE  /\ pc'[d] = "recording" => payment'[req'[d].n] = "none"
               /\ Role(d)' = "refund" => payment'[req'[d].n] # "none"
               /\ \A n \in Ids : Returning(d, n)' => StatusIsTrue(RefundStatus(req[d].amount), n)'
    <2>1. CASE d = c
      <3>1. \A n \in Ids : ~ Returning(c, n)'
        BY DEF RoleFits
      <3>. QED  BY <2>1, <3>1
    <2>2. CASE d # c
      <3>1. /\ Role(d)' = Role(d) /\ pc'[d] = pc[d] /\ req'[d] = req[d]
            /\ \A n \in Ids : Returning(d, n)' <=> Returning(d, n)
        BY <2>2, BystandersKeepRoles
      <3>2. /\ pc[d] = "recording" => payment[req[d].n] = "none"
            /\ Role(d) = "refund" => payment[req[d].n] # "none"
            /\ \A n \in Ids : Returning(d, n) => StatusIsTrue(RefundStatus(req[d].amount), n)
        BY DEF RefundsInTurn
      <3>. QED  BY <1>1, <3>1, <3>2
    <2>. QED  BY <2>1, <2>2
  <1>3. ASSUME NEW n \in Ids
        PROVE  /\ payment'[n] # "none" => session'[n] # None /\ session'[n].stage = "delivered"
               /\ payment'[n] = "none" => returned'[n] = 0
               /\ StatusIsTrue(payment[n], n)'
               /\ payment'[n] = "completed" /\ returned'[n] > 0 =>
                    n \in lost' \/ \E d \in Clients : Returning(d, n)'
    <2>1. /\ payment[n] # "none" => session[n] # None /\ session[n].stage = "delivered"
          /\ payment[n] = "none" => returned[n] = 0
          /\ StatusIsTrue(payment[n], n)
          /\ payment[n] = "completed" /\ returned[n] > 0 =>
               n \in lost \/ \E d \in Clients : Returning(d, n)
      BY DEF RefundsInTurn
    <2>2. ASSUME NEW d \in Clients, Returning(d, n)
          PROVE  n \in lost' \/ Returning(d, n)'
      <3>1. CASE d = c
        BY <2>2, <3>1
      <3>2. CASE d # c
        BY <2>2, <3>2, BystandersKeepRoles
      <3>. QED  BY <3>1, <3>2
    <2>3. StatusIsTrue(payment[n], n)'
      BY <2>1 DEF StatusIsTrue
    <2>. QED  BY <2>1, <2>2, <2>3 DEF DeliveredStays
  <1>. QED  BY <1>2, <1>3 DEF RefundsInTurn

LEMMA DeliverRefunds ==
  ASSUME Types, RefundsInTurn, NEW c \in Clients, NEW n \in Ids, Deliver(c, n),
         RoleFits(c), \A d \in Clients : RoleFits(d)'
  PROVE  RefundsInTurn'
  <1>1. /\ payment' = payment /\ returned' = returned /\ lost' = lost
        /\ pc[c] = "idle" /\ session[n] # None /\ session[n].stage = "paid"
        /\ session'[n] # None /\ session'[n].stage = "delivered"
        /\ \A m \in Ids \ {n} : session'[m] = session[m]
    BY DeliverFacts
  <1>2. PICK r \in Requests : r.n = n /\ Moved(c, "recording", r)
    BY DeliverFacts
  <1>3. /\ Bystanders(c) /\ pc'[c] = "recording" /\ req'[c].n = n
        /\ Role(c)' = "deliver" /\ DeliveredStays
    BY <1>1, <1>2 DEF Moved, Bystanders, RoleFits, DeliveredStays
  <1>4. payment[n] = "none"
    BY <1>1 DEF RefundsInTurn
  <1>5. ASSUME NEW d \in Clients
        PROVE  /\ pc'[d] = "recording" => payment[req'[d].n] = "none"
               /\ Role(d)' = "refund" => payment[req'[d].n] # "none"
               /\ \A m \in Ids : Returning(d, m)' =>
                                   StatusIsTrue(RefundStatus(req'[d].amount), m)
    <2>1. CASE d = c
      BY <1>3, <1>4, <2>1 DEF Returning
    <2>2. CASE d # c
      BY <1>3, <2>2, BystandersKeepRoles DEF RefundsInTurn
    <2>. QED  BY <2>1, <2>2
  <1>6. \A d \in Clients, m \in Ids : Returning(d, m) => Returning(d, m)'
    BY <1>1, <1>3, BystandersKeepRoles DEF Returning
  <1>7. \A status, m : StatusIsTrue(status, m)' <=> StatusIsTrue(status, m)
    BY <1>1 DEF StatusIsTrue
  <1>8. ASSUME NEW d \in Clients, NEW m \in Ids, Returning(d, m)'
        PROVE  StatusIsTrue(RefundStatus(req[d].amount), m)'
    BY <1>5, <1>7, <1>8
  <1>9. ASSUME NEW m \in Ids
        PROVE  /\ payment[m] # "none" => session'[m] # None /\ session'[m].stage = "delivered"
               /\ payment[m] = "none" => returned[m] = 0
               /\ StatusIsTrue(payment[m], m)
               /\ payment[m] = "completed" /\ returned[m] > 0 =>
                    m \in lost \/ \E d \in Clients : Returning(d, m)'
    BY <1>3, <1>6 DEF RefundsInTurn, DeliveredStays
  <1>10. \A m \in Ids : StatusIsTrue(payment[m], m)'
    BY <1>1, <1>9 DEF StatusIsTrue
  <1>. QED  BY <1>1, <1>5, <1>8, <1>9, <1>10 DEF RefundsInTurn

LEMMA CompletedRefunds ==
  ASSUME Types, DeliveredOnce, RefundsInTurn, NEW c \in Clients, OnCheckoutCompleted(c),
         \A d \in Clients : RoleFits(d) /\ RoleFits(d)'
  PROVE  RefundsInTurn'
  <1>. DEFINE n == req[c].n
  <1>1. /\ pc[c] = "recording" /\ Fits(c) /\ Role(c) = "deliver"
        /\ payment' = [payment EXCEPT ![n] = "completed"]
        /\ returned' = returned /\ lost' = lost /\ session' = session
        /\ \/ Moved(c, "idle", None)
           \/ Moved(c, "redeeming", req[c])
    BY OnCheckoutCompletedFacts DEF RoleFits
  <1>2. /\ n \in Ids /\ session[n] # None /\ session[n].stage = "delivered"
        /\ payment[n] = "none" /\ returned[n] = 0
    BY <1>1 DEF Fits, RefundsInTurn
  <1>3. /\ Bystanders(c) /\ pc'[c] \in {"idle", "redeeming"}
        /\ Role(c)' \in {"idle", "deliver"}
    BY <1>1 DEF Moved, Bystanders, RoleFits
  <1>. HIDE DEF n
  <1>4. /\ payment'[n] = "completed"
        /\ \A m \in Ids \ {n} : payment'[m] = payment[m]
    BY <1>1, <1>2 DEF Types, TypeOK
  <1>5. ASSUME NEW d \in Clients
        PROVE  /\ pc'[d] = "recording" => payment'[req'[d].n] = "none"
               /\ Role(d)' = "refund" => payment'[req'[d].n] # "none"
               /\ \A m \in Ids : Returning(d, m)' =>
                                   StatusIsTrue(RefundStatus(req[d].amount), m)'
    <2>1. CASE d = c
      BY <1>3, <2>1 DEF Returning
    <2>2. CASE d # c
      <3>1. /\ Role(d)' = Role(d) /\ pc'[d] = pc[d] /\ req'[d] = req[d]
            /\ \A m \in Ids : Returning(d, m)' <=> Returning(d, m)
        BY <1>3, <2>2, BystandersKeepRoles
      <3>2. /\ pc[d] = "recording" => payment[req[d].n] = "none" /\ req[d].n # n
            /\ pc[d] = "recording" \/ Role(d) = "refund" => req[d].n \in Ids
            /\ Role(d) = "refund" => payment[req[d].n] # "none"
        BY <1>1, <2>2 DEF RefundsInTurn, DeliveredOnce, RoleFits, n, Types, RequestsFit, Fits,
                          Role, Active
      <3>3. ASSUME NEW m \in Ids, Returning(d, m)
            PROVE  StatusIsTrue(RefundStatus(req[d].amount), m)'
        BY <1>1, <3>1, <3>3 DEF RefundsInTurn, StatusIsTrue
      <3>. QED  BY <1>4, <3>1, <3>2, <3>3
    <2>. QED  BY <2>1, <2>2
  <1>6. \A d \in Clients, m \in Ids : Returning(d, m) => Returning(d, m)'
    BY <1>1, <1>3, BystandersKeepRoles DEF Returning
  <1>7. ASSUME NEW m \in Ids
        PROVE  /\ payment'[m] # "none" => session'[m] # None /\ session'[m].stage = "delivered"
               /\ payment'[m] = "none" => returned'[m] = 0
               /\ StatusIsTrue(payment[m], m)'
               /\ payment'[m] = "completed" /\ returned'[m] > 0 =>
                    m \in lost' \/ \E d \in Clients : Returning(d, m)'
    <2>1. CASE m = n
      BY <1>1, <1>2, <1>4, <2>1 DEF StatusIsTrue
    <2>2. CASE m # n
      BY <1>1, <1>4, <1>6, <2>2 DEF StatusIsTrue, RefundsInTurn
    <2>. QED  BY <2>1, <2>2
  <1>. QED  BY <1>5, <1>7 DEF RefundsInTurn

(* What a request asks for says what Stripe has returned since. *)
LEMMA RefundStatusIsTrue ==
  ASSUME NEW amount \in Amounts, NEW before \in 0 .. Total, NEW after,
         before + amount <= Total,
         after = IF amount = 0 THEN Total ELSE before + amount
  PROVE  /\ after \in 0 .. Total /\ before <= after /\ after > 0
         /\ RefundStatus(amount) = "refunded" => after = Total
         /\ RefundStatus(amount) \in {"refunded", "partially_refunded"}
  BY DEF Amounts, Total, RefundStatus

LEMMA RefundAtStripeRefunds ==
  ASSUME Types, RefundsInTurn, NEW c \in Clients, RefundAtStripe(c),
         \A d \in Clients : RoleFits(d) /\ RoleFits(d)'
  PROVE  RefundsInTurn'
  <1>. DEFINE n == req[c].n
              amount == req[c].amount
  <1>1. /\ pc[c] = "refunding" /\ Role(c) = "refund" /\ n \in Ids /\ amount \in Amounts
        /\ payment' = payment /\ session' = session /\ lost' = lost
        /\ req[c].op = "refund"
    BY RefundAtStripeFacts DEF RoleFits
  <1>2. CASE returned' = returned /\ Moved(c, "idle", None)
    <2>1. Bystanders(c) /\ pc'[c] = "idle" /\ Role(c)' = "idle"
      BY <1>2 DEF Moved, Bystanders, RoleFits
    <2>2. \A m \in Ids : ~ Returning(c, m)
      BY <1>1 DEF Returning
    <2>. QED  BY <1>1, <1>2, <2>1, <2>2, RefundsElsewhere DEF DeliveredStays
  <1>3. CASE /\ returned[n] + amount <= Total
             /\ returned' = [returned EXCEPT ![n] = IF amount = 0 THEN Total
                                                   ELSE returned[n] + amount]
             /\ Moved(c, "storing", req[c])
    <2>1. /\ Bystanders(c) /\ pc'[c] = "storing" /\ req'[c] = req[c] /\ Role(c)' = "refund"
          /\ Returning(c, n)' /\ payment[n] # "none"
      BY <1>1, <1>3 DEF Moved, Bystanders, Role, Returning, RefundsInTurn
    <2>2. /\ returned'[n] = IF amount = 0 THEN Total ELSE returned[n] + amount
          /\ \A m \in Ids \ {n} : returned'[m] = returned[m]
          /\ returned[n] \in 0 .. Total
      BY <1>1, <1>3 DEF Types, TypeOK
    <2>3. /\ returned[n] <= returned'[n] /\ returned'[n] > 0
          /\ returned'[n] \in 0 .. Total
          /\ RefundStatus(amount) = "refunded" => returned'[n] = Total
      BY <1>1, <1>3, <2>2, RefundStatusIsTrue
    <2>. HIDE DEF n, amount
    <2>4. ASSUME NEW status, NEW m \in Ids, StatusIsTrue(status, m)
          PROVE  StatusIsTrue(status, m)'
      BY <2>2, <2>3, <2>4 DEF StatusIsTrue, Total
    <2>5. ASSUME NEW d \in Clients
          PROVE  /\ pc'[d] = "recording" => payment'[req'[d].n] = "none"
                 /\ Role(d)' = "refund" => payment'[req'[d].n] # "none"
                 /\ \A m \in Ids : Returning(d, m)' =>
                                     StatusIsTrue(RefundStatus(req[d].amount), m)'
      <3>1. CASE d = c
        BY <1>1, <2>1, <2>3, <3>1 DEF Returning, StatusIsTrue, n, amount
      <3>2. CASE d # c
        <4>1. /\ Role(d)' = Role(d) /\ pc'[d] = pc[d] /\ req'[d] = req[d]
              /\ \A m \in Ids : Returning(d, m)' <=> Returning(d, m)
          BY <2>1, <3>2, BystandersKeepRoles
        <4>2. ASSUME NEW m \in Ids, Returning(d, m)
              PROVE  StatusIsTrue(RefundStatus(req[d].amount), m)
          BY <4>2 DEF RefundsInTurn
        <4>3. ASSUME NEW m \in Ids, Returning(d, m)
              PROVE  StatusIsTrue(RefundStatus(req[d].amount), m)'
          BY <2>2, <2>3, <4>1, <4>2, <4>3 DEF StatusIsTrue, Total
        <4>. QED  BY <1>1, <4>1, <4>3 DEF RefundsInTurn
      <3>. QED  BY <3>1, <3>2
    <2>6. ASSUME NEW m \in Ids
          PROVE  /\ payment'[m] # "none" => session'[m] # None /\ session'[m].stage = "delivered"
                 /\ payment'[m] = "none" => returned'[m] = 0
                 /\ StatusIsTrue(payment[m], m)'
                 /\ payment'[m] = "completed" /\ returned'[m] > 0 =>
                      m \in lost' \/ \E d \in Clients : Returning(d, m)'
      <3>1. CASE m = n
        <4>1. StatusIsTrue(payment[m], m)
          BY DEF RefundsInTurn
        <4>2. StatusIsTrue(payment[m], m)'
          BY <1>1, <2>2, <2>3, <3>1, <4>1 DEF StatusIsTrue, Total
        <4>3. Returning(c, m)'
          BY <1>1, <2>1, <3>1 DEF Returning, n
        <4>4. session[m] # None /\ session[m].stage = "delivered"
          BY <2>1, <3>1 DEF RefundsInTurn
        <4>. QED  BY <1>1, <2>1, <3>1, <4>2, <4>3, <4>4
      <3>2. CASE m # n
        <4>1. \A d \in Clients : Returning(d, m) => Returning(d, m)'
          BY <1>1, <2>1, BystandersKeepRoles DEF Returning
        <4>. QED  BY <1>1, <2>2, <3>2, <4>1 DEF StatusIsTrue, RefundsInTurn
      <3>. QED  BY <3>1, <3>2
    <2>. QED  BY <2>5, <2>6 DEF RefundsInTurn
  <1>. QED  BY <1>2, <1>3, RefundAtStripeFacts

LEMMA StoreRefundRefunds ==
  ASSUME Types, RefundsInTurn, NEW c \in Clients, StoreRefund(c),
         \A d \in Clients : RoleFits(d) /\ RoleFits(d)'
  PROVE  RefundsInTurn'
  <1>. DEFINE n == req[c].n
              status == RefundStatus(req[c].amount)
  <1>1. /\ Returning(c, n) /\ n \in Ids /\ Role(c) = "refund"
        /\ payment' = [payment EXCEPT ![n] = status]
        /\ returned' = returned /\ session' = session /\ lost' = lost
        /\ Moved(c, "idle", None)
    BY StoreRefundFacts DEF Returning, Role, Active
  <1>2. /\ StatusIsTrue(status, n) /\ payment[n] # "none"
        /\ session[n] # None /\ session[n].stage = "delivered"
    BY <1>1 DEF RefundsInTurn
  <1>3. status \in {"refunded", "partially_refunded"}
    BY DEF RefundStatus
  <1>4. Bystanders(c) /\ pc'[c] = "idle" /\ Role(c)' = "idle"
    BY <1>1 DEF Moved, Bystanders, RoleFits
  <1>5. \A m \in Ids \ {n} : ~ Returning(c, m)
    BY DEF Returning
  <1>. HIDE DEF n, status
  <1>6. /\ payment'[n] = status
        /\ \A m \in Ids \ {n} : payment'[m] = payment[m]
    BY <1>1 DEF Types, TypeOK
  <1>7. ASSUME NEW d \in Clients
        PROVE  /\ pc'[d] = "recording" => payment'[req'[d].n] = "none"
               /\ Role(d)' = "refund" => payment'[req'[d].n] # "none"
               /\ \A m \in Ids : Returning(d, m)' =>
                                   StatusIsTrue(RefundStatus(req[d].amount), m)'
    <2>1. CASE d = c
      BY <1>4, <2>1 DEF Returning
    <2>2. CASE d # c
      <3>1. /\ Role(d)' = Role(d) /\ pc'[d] = pc[d] /\ req'[d] = req[d]
            /\ \A m \in Ids : Returning(d, m)' <=> Returning(d, m)
        BY <1>4, <2>2, BystandersKeepRoles
      <3>2. /\ pc[d] = "recording" => payment[req[d].n] = "none" /\ req[d].n # n
            /\ pc[d] = "recording" \/ Role(d) = "refund" => req[d].n \in Ids
            /\ Role(d) = "refund" => payment[req[d].n] # "none"
        BY <1>2 DEF RefundsInTurn, Types, RequestsFit, Fits, Role, Active
      <3>3. ASSUME NEW m \in Ids, Returning(d, m)
            PROVE  StatusIsTrue(RefundStatus(req[d].amount), m)'
        BY <1>1, <3>1, <3>3 DEF RefundsInTurn, StatusIsTrue
      <3>. QED  BY <1>3, <1>6, <3>1, <3>2, <3>3
    <2>. QED  BY <2>1, <2>2
  <1>8. ASSUME NEW m \in Ids
        PROVE  /\ payment'[m] # "none" => session'[m] # None /\ session'[m].stage = "delivered"
               /\ payment'[m] = "none" => returned'[m] = 0
               /\ StatusIsTrue(payment[m], m)'
               /\ payment'[m] = "completed" /\ returned'[m] > 0 =>
                    m \in lost' \/ \E d \in Clients : Returning(d, m)'
    <2>1. CASE m = n
      BY <1>1, <1>2, <1>3, <1>6, <2>1 DEF StatusIsTrue
    <2>2. CASE m # n
      <3>1. \A d \in Clients : Returning(d, m) => Returning(d, m)'
        BY <1>4, <1>5, <2>2, BystandersKeepRoles
      <3>. QED  BY <1>1, <1>6, <2>2, <3>1 DEF StatusIsTrue, RefundsInTurn
    <2>. QED  BY <2>1, <2>2
  <1>. QED  BY <1>7, <1>8 DEF RefundsInTurn

LEMMA NextRefunds == Types /\ DeliveredOnce /\ RefundsInTurn /\ [Next]_vars => RefundsInTurn'
  <1>. SUFFICES ASSUME Types, DeliveredOnce, RefundsInTurn, [Next]_vars  PROVE RefundsInTurn'
    OBVIOUS
  <1>0. \A c \in Clients : RoleFits(c) /\ RoleFits(c)'
    BY Roles, RolesNext
  <1>1. ASSUME NEW c \in Clients, SellingStep(c)  PROVE RefundsInTurn'
    <2>1. /\ UNCHANGED <<payment, returned, lost>> /\ Bystanders(c) /\ Role(c) # "refund"
          /\ Role(c)' \in {"idle", "checkout", "portal"} /\ DeliveredStays
      BY <1>0, <1>1, SellingFrame DEF DeliveredStays
    <2>2. pc'[c] # "recording" /\ \A n \in Ids : ~ Returning(c, n)
      BY <1>0, <2>1 DEF RoleFits
    <2>. QED  BY <1>0, <2>1, <2>2, RefundsElsewhere
  <1>2. ASSUME NEW c \in Clients, EditStep(c)  PROVE RefundsInTurn'
    <2>1. /\ UNCHANGED <<payment, returned, lost, session>> /\ Bystanders(c)
          /\ Role(c) # "refund" /\ Role(c)' # "refund" /\ Role(c)' # "deliver"
      BY <1>0, <1>2, EditFrame DEF EditOps
    <2>2. pc'[c] # "recording" /\ \A n \in Ids : ~ Returning(c, n)
      BY <1>0, <2>1 DEF RoleFits
    <2>. QED  BY <1>0, <2>1, <2>2, RefundsElsewhere DEF DeliveredStays
  <1>3. ASSUME NEW c \in Clients, RecordRedemption(c)  PROVE RefundsInTurn'
    <2>1. /\ UNCHANGED <<payment, returned, lost, session>> /\ Bystanders(c)
          /\ pc[c] = "redeeming" /\ pc'[c] = "idle"
      BY <1>3, RecordRedemptionFacts DEF Moved, Bystanders
    <2>2. Role(c)' # "refund" /\ \A n \in Ids : ~ Returning(c, n)
      BY <1>0, <2>1 DEF RoleFits, Returning
    <2>. QED  BY <1>0, <2>1, <2>2, RefundsElsewhere DEF DeliveredStays
  <1>4. ASSUME NEW c \in Clients, NEW n \in Ids, NEW amount \in Amounts,
               RefundPaymentAdmin(c, n, amount)
        PROVE  RefundsInTurn'
    <2>1. /\ payment[n] # "none" /\ pc[c] = "idle"
          /\ UNCHANGED <<payment, returned, session, lost>>
      BY <1>4, RefundPaymentAdminFacts DEF tables, stripe
    <2>2. PICK r \in Requests : r.op = "refund" /\ r.n = n /\ Moved(c, "refunding", r)
      BY <1>4, RefundPaymentAdminFacts
    <2>3. /\ Bystanders(c) /\ pc'[c] = "refunding" /\ req'[c].n = n
      BY <2>2 DEF Moved, Bystanders
    <2>4. ASSUME NEW d \in Clients
          PROVE  /\ pc'[d] = "recording" => payment[req'[d].n] = "none"
                 /\ Role(d)' = "refund" => payment[req'[d].n] # "none"
                 /\ \A m \in Ids : Returning(d, m)' => Returning(d, m) /\ req'[d] = req[d]
      <3>1. CASE d = c
        BY <2>1, <2>3, <3>1 DEF Returning
      <3>2. CASE d # c
        BY <2>3, <3>2, BystandersKeepRoles DEF RefundsInTurn
      <3>. QED  BY <3>1, <3>2
    <2>5. ASSUME NEW d \in Clients, NEW m \in Ids, Returning(d, m)'
          PROVE  StatusIsTrue(RefundStatus(req[d].amount), m)'
      BY <2>1, <2>4, <2>5 DEF RefundsInTurn, StatusIsTrue
    <2>6. \A d \in Clients, m \in Ids : Returning(d, m) => Returning(d, m)'
      BY <2>1, <2>3, BystandersKeepRoles DEF Returning
    <2>7. \A m \in Ids : StatusIsTrue(payment[m], m)'
      BY <2>1 DEF StatusIsTrue, RefundsInTurn
    <2>. QED  BY <2>1, <2>4, <2>5, <2>6, <2>7 DEF RefundsInTurn
  <1>5. ASSUME NEW c \in Clients, Fail(c)  PROVE RefundsInTurn'
    <2>1. /\ UNCHANGED <<payment, returned, session>> /\ lost \subseteq lost'
          /\ pc[c] = "storing" /\ req[c].op = "refund" => req[c].n \in lost'
          /\ Bystanders(c) /\ pc'[c] = "idle"
      BY <1>5, FailFacts DEF Moved, Bystanders
    <2>2. Role(c)' # "refund" /\ \A n \in Ids : Returning(c, n) => n \in lost'
      BY <1>0, <2>1 DEF RoleFits, Returning
    <2>. QED  BY <1>0, <2>1, <2>2, RefundsElsewhere DEF DeliveredStays
  <1>6. CASE QuietStep
    <2>1. UNCHANGED <<payment, returned, pc, req, lost>> /\ DeliveredStays
      BY <1>6, QuietFrame DEF Staged, DeliveredStays
    <2>2. \A c \in Clients : Role(c)' = Role(c)
      BY <2>1 DEF Role
    <2>3. \A c \in Clients, n \in Ids : Returning(c, n)' <=> Returning(c, n)
      BY <2>1 DEF Returning
    <2>4. ASSUME NEW c \in Clients, NEW n \in Ids, Returning(c, n)'
          PROVE  StatusIsTrue(RefundStatus(req[c].amount), n)'
      BY <2>1, <2>3, <2>4 DEF RefundsInTurn, StatusIsTrue
    <2>5. \A n \in Ids : StatusIsTrue(payment[n], n)'
      BY <2>1 DEF StatusIsTrue, RefundsInTurn
    <2>. QED  BY <2>1, <2>2, <2>3, <2>4, <2>5 DEF RefundsInTurn, DeliveredStays
  <1>7. ASSUME NEW c \in Clients, DeliveryStep(c)  PROVE RefundsInTurn'
    BY <1>0, <1>3, <1>7, DeliverRefunds, CompletedRefunds DEF DeliveryStep
  <1>8. ASSUME NEW c \in Clients, RefundStep(c)  PROVE RefundsInTurn'
    BY <1>0, <1>4, <1>8, RefundAtStripeRefunds, StoreRefundRefunds DEF RefundStep
  <1>. QED  BY <1>1, <1>2, <1>5, <1>6, <1>7, <1>8, StepKinds DEF QuietStep

-----------------------------------------------------------------------------
(* Promotion codes. *)
SameRow(k) ==
  /\ coupon'[k] = None <=> coupon[k] = None
  /\ coupon[k] # None => coupon'[k].active = coupon[k].active /\ coupon'[k].promo = coupon[k].promo

LEMMA EditorsFindTheRow ==
  ASSUME Types, NEW d \in Clients, NEW k \in Coupons, Editing(d, k)
  PROVE  /\ req[d].row \in CouponRows /\ Active(d)
         /\ req[d].op \in {"update", "remove"} => coupon[k] # None /\ coupon[k] \in CouponRows
  BY DEF Types, TypeOK, RequestsFit, Fits, Active, Editing

(* A step that is not about the coupon. *)
LEMMA FollowsElsewhere ==
  ASSUME Types, NEW k \in Coupons, Follows(k), codes'[k] = codes[k], SameRow(k),
         k \in disturbed => k \in disturbed',
         \A d \in Clients : Editing(d, k)' <=> Editing(d, k),
         \A d \in Clients : Editing(d, k) => pc'[d] = pc[d] /\ req'[d] = req[d]
  PROVE  Follows(k)'
  <1>1. Settled(k)' <=> Settled(k)
    BY DEF Settled, SameRow
  <1>2. ASSUME NEW d \in Clients, Editing(d, k), InOrder(d, k)  PROVE InOrder(d, k)'
    <2>1. /\ pc'[d] = pc[d] /\ req'[d] = req[d]
          /\ req[d].op \in {"update", "remove"} => coupon[k] # None
      BY <1>2, EditorsFindTheRow
    <2>. QED  BY <1>1, <1>2, <2>1 DEF InOrder, Creates, Updates, Removes, SameRow
  <1>. QED  BY <1>1, <1>2 DEF Follows

(* The step of a client that is alone at the coupon. *)
LEMMA FollowsHere ==
  ASSUME NEW k \in Coupons, NEW c \in Clients, Bystanders(c),
         \A d \in Clients : Editing(d, k) => d = c,
         Editing(c, k)' => InOrder(c, k)', ~ Editing(c, k)' => Settled(k)'
  PROVE  Follows(k)'
  <1>1. \A d \in Clients : Editing(d, k)' => d = c
    BY BystandersKeepRoles
  <1>. QED  BY <1>1 DEF Follows

(* Steps of a client that edits nothing. *)
LEMMA UneditedFollow ==
  ASSUME Types, EditsInOrder, NEW c \in Clients, Bystanders(c), RoleFits(c), RoleFits(c)',
         Role(c) \notin EditOps, Role(c)' \notin EditOps, codes' = codes, disturbed' = disturbed,
         \A k \in Coupons : SameRow(k)
  PROVE  EditsInOrder'
  <1>1. ASSUME NEW k \in Coupons  PROVE Follows(k)'
    <2>1. ~ Editing(c, k) /\ ~ Editing(c, k)'
      BY DEF RoleFits, EditOps
    <2>2. \A d \in Clients : Editing(d, k)' <=> Editing(d, k)
      BY <2>1, BystandersKeepRoles
    <2>3. \A d \in Clients : Editing(d, k) => pc'[d] = pc[d] /\ req'[d] = req[d]
      BY <2>1 DEF Bystanders
    <2>. QED  BY <2>2, <2>3, FollowsElsewhere DEF EditsInOrder
  <1>. QED  BY <1>1 DEF EditsInOrder

(* The coupons that the request of an editing client is not about. *)
LEMMA OthersFollow ==
  ASSUME Types, EditsInOrder, NEW c \in Clients, Bystanders(c),
         NEW k \in Coupons, ~ Editing(c, k), ~ Editing(c, k)', codes'[k] = codes[k],
         coupon'[k] = coupon[k], k \in disturbed => k \in disturbed'
  PROVE  Follows(k)'
  <1>1. \A d \in Clients : Editing(d, k)' <=> Editing(d, k)
    BY BystandersKeepRoles
  <1>2. \A d \in Clients : Editing(d, k) => pc'[d] = pc[d] /\ req'[d] = req[d]
    BY DEF Bystanders
  <1>. QED  BY <1>1, <1>2, FollowsElsewhere DEF EditsInOrder, SameRow

LEMMA EditBeginsFollow ==
  ASSUME Types, EditsInOrder, NEW c \in Clients, NEW op \in EditOps, NEW k \in Coupons,
         NEW row, NEW id, NEW step,
         EditBegins(c, op, k, row, id, step), RoleFits(c),
         Settled(k) /\ req'[c].op = op /\ req'[c].k = k /\ req'[c].row = row /\ req'[c].id = id
           /\ pc'[c] = step /\ codes' = codes /\ coupon' = coupon => InOrder(c, k)'
  PROVE  EditsInOrder'
  <1>1. PICK r \in Requests : /\ r.op = op /\ r.k = k /\ r.row = row /\ r.id = id
                              /\ Moved(c, step, r)
    BY DEF EditBegins
  <1>2. /\ pc[c] = "idle" /\ codes' = codes /\ coupon' = coupon
        /\ disturbed' = IF \E d \in Clients \ {c} : Editing(d, k)
                        THEN disturbed \cup {k} ELSE disturbed
    BY DEF EditBegins, tables, stripe
  <1>3. /\ Bystanders(c) /\ req'[c] = r /\ pc'[c] = step
        /\ \A m \in Coupons : ~ Editing(c, m)
    BY <1>1, <1>2 DEF Moved, Bystanders, RoleFits
  <1>4. ASSUME NEW m \in Coupons, m # k  PROVE Follows(m)'
    <2>1. ~ Editing(c, m)'
      BY <1>1, <1>3, <1>4 DEF Editing
    <2>. QED  BY <1>2, <1>3, <2>1, OthersFollow
  <1>5. Follows(k)'
    <2>1. CASE k \in disturbed'
      BY <2>1 DEF Follows
    <2>2. CASE k \notin disturbed'
      <3>1. k \notin disturbed /\ \A d \in Clients : ~ Editing(d, k)
        BY <1>2, <1>3, <2>2
      <3>2. Settled(k)
        BY <3>1 DEF EditsInOrder, Follows
      <3>3. InOrder(c, k)'
        BY <1>1, <1>2, <1>3, <3>2
      <3>4. Editing(c, k)'
        BY <1>1, <1>3, NoneIsNoRow DEF Editing, EditOps
      <3>. QED  BY <1>3, <3>1, <3>3, <3>4, FollowsHere
    <2>. QED  BY <2>1, <2>2
  <1>. QED  BY <1>4, <1>5 DEF EditsInOrder

LEMMA EditRequestsFollow ==
  ASSUME Types, EditsInOrder, NEW c \in Clients, NEW k \in Coupons, RoleFits(c),
         \/ \E active \in BOOLEAN, scope \in Scopes, max \in 0 .. 1 :
              CreateCoupon(c, k, NewCoupon(active, scope, max))
         \/ coupon[k] # None /\ \E active \in BOOLEAN, max \in 0 .. 1 :
              UpdateCoupon(c, k, [coupon[k] EXCEPT !.active = active, !.max = max])
         \/ RemoveCoupon(c, k)
  PROVE  EditsInOrder'
  <1>1. ASSUME NEW active \in BOOLEAN, NEW scope \in Scopes, NEW max \in 0 .. 1,
               CreateCoupon(c, k, NewCoupon(active, scope, max))
        PROVE  EditsInOrder'
    <2>1. PICK row \in CouponRows : /\ coupon[k] = None /\ row.promo = 0
                                    /\ EditBegins(c, "create", k, row, 0, "syncing")
      BY <1>1, CreateCouponFacts
    <2>2. Settled(k) /\ req'[c].op = "create" /\ req'[c].row = row /\ pc'[c] = "syncing"
          /\ codes' = codes /\ coupon' = coupon => InOrder(c, k)'
      BY <2>1 DEF Settled, InOrder, Creates
    <2>. QED  BY <2>1, <2>2, EditBeginsFollow DEF EditOps
  <1>2. ASSUME NEW active \in BOOLEAN, NEW max \in 0 .. 1, coupon[k] # None,
               UpdateCoupon(c, k, [coupon[k] EXCEPT !.active = active, !.max = max])
        PROVE  EditsInOrder'
    <2>1. PICK row \in CouponRows :
            /\ row.promo = coupon[k].promo
            /\ EditBegins(c, "update", k, row, coupon[k].promo,
                          IF coupon[k].promo # 0 /\ row.active # coupon[k].active
                          THEN "telling" ELSE "storing")
      BY <1>2, UpdateCouponFacts
    <2>. DEFINE id == coupon[k].promo
                step == IF coupon[k].promo # 0 /\ row.active # coupon[k].active
                        THEN "telling" ELSE "storing"
    <2>2. row.active \in BOOLEAN /\ coupon[k].active \in BOOLEAN
      BY <1>2 DEF CouponRows, Types, TypeOK
    <2>3. Settled(k) /\ req'[c].op = "update" /\ req'[c].row = row /\ req'[c].id = id
          /\ pc'[c] = step /\ codes' = codes /\ coupon' = coupon => InOrder(c, k)'
      BY <1>2, <2>2 DEF Settled, InOrder, Updates
    <2>4. EditBegins(c, "update", k, row, id, step)
      BY <2>1
    <2>. HIDE DEF id, step
    <2>. QED  BY <2>3, <2>4, EditBeginsFollow DEF EditOps
  <1>3. ASSUME RemoveCoupon(c, k)  PROVE EditsInOrder'
    <2>1. PICK row \in CouponRows :
            /\ row.active = FALSE
            /\ EditBegins(c, "remove", k, row, coupon[k].promo, "storing")
      BY <1>3, RemoveCouponFacts
    <2>. DEFINE id == coupon[k].promo
    <2>2. Settled(k) /\ req'[c].op = "remove" /\ req'[c].row = row /\ req'[c].id = id
          /\ pc'[c] = "storing" /\ codes' = codes /\ coupon' = coupon => InOrder(c, k)'
      BY <2>1 DEF Settled, InOrder, Removes
    <2>3. EditBegins(c, "remove", k, row, id, "storing")
      BY <2>1
    <2>. HIDE DEF id
    <2>. QED  BY <2>2, <2>3, EditBeginsFollow DEF EditOps
  <1>. QED  BY <1>1, <1>2, <1>3

(* A step of the edit itself: the other coupons follow as they did, and of   *)
(* its own only the client's next place, or the outcome, is left to show.   *)
LEMMA EditGoesOn ==
  ASSUME Types, EditsInOrder, NEW c \in Clients, NEW k \in Coupons, Editing(c, k),
         NEW step, NEW r, Moved(c, step, r), r = None \/ (r.k = k /\ r.op \in EditOps),
         \A m \in Coupons \ {k} : codes'[m] = codes[m] /\ coupon'[m] = coupon[m],
         disturbed \subseteq disturbed',
         k \notin disturbed' /\ InOrder(c, k) =>
           IF r = None THEN Settled(k)' ELSE InOrder(c, k)'
  PROVE  EditsInOrder'
  <1>1. Bystanders(c) /\ req'[c] = r
    BY DEF Moved, Bystanders
  <1>2. ASSUME NEW m \in Coupons, m # k  PROVE Follows(m)'
    <2>1. ~ Editing(c, m) /\ ~ Editing(c, m)'
      BY <1>1, <1>2 DEF Editing
    <2>. QED  BY <1>1, <1>2, <2>1, OthersFollow
  <1>3. ASSUME k \notin disturbed'  PROVE Follows(k)'
    <2>1. InOrder(c, k) /\ \A d \in Clients : Editing(d, k) => d = c
      BY <1>3 DEF EditsInOrder, Follows
    <2>2. Editing(c, k)' => InOrder(c, k)'
      BY <1>1, <1>3, <2>1 DEF Editing
    <2>3. ~ Editing(c, k)' => Settled(k)'
      BY <1>1, <1>3, <2>1 DEF Editing, EditOps
    <2>. QED  BY <1>1, <2>1, <2>2, <2>3, FollowsHere
  <1>4. Follows(k)'
    BY <1>3 DEF Follows
  <1>. QED  BY <1>2, <1>4 DEF EditsInOrder

LEMMA SyncCouponFollows ==
  ASSUME Types, EditsInOrder, NEW c \in Clients, SyncCoupon(c)  PROVE EditsInOrder'
  <1>1. PICK k \in Coupons : k = req[c].k
    BY SyncCouponFacts
  <1>2. /\ pc[c] = "syncing" /\ req[c] # None /\ req[c].op = "create" /\ coupon' = coupon
        /\ \A m \in Coupons \ {k} : codes'[m] = codes[m]
    BY <1>1, SyncCouponFacts, NoneIsNoRow
  <1>3. PICK r \in Requests :
          /\ Moved(c, "inserting", r)
          /\ r.op = "create" /\ r.k = req[c].k /\ r.row.active = req[c].row.active
          /\ \/ /\ r.row.promo # 0 /\ disturbed' = disturbed
                /\ codes'[r.k] = IF r.row.active THEN {r.row.promo} ELSE codes[r.k]
             \/ codes' = codes /\ r.row.promo = req[c].row.promo /\ disturbed' = disturbed
             \/ disturbed' = disturbed \cup {r.k}
    BY SyncCouponFacts
  <1>4. Editing(c, k) /\ r # None /\ r.op \in EditOps /\ disturbed \subseteq disturbed'
    BY <1>1, <1>2, <1>3, NoneIsNoRow DEF Editing, EditOps
  <1>5. \A m \in Coupons \ {k} : codes'[m] = codes[m] /\ coupon'[m] = coupon[m]
    BY <1>2
  <1>6. ASSUME k \notin disturbed', InOrder(c, k)  PROVE InOrder(c, k)'
    <2>1. coupon[k] = None /\ req[c].row.promo = 0 /\ codes[k] = {}
      BY <1>2, <1>6 DEF InOrder, Creates
    <2>2. codes'[k] = IF r.row.active /\ r.row.promo # 0 THEN {r.row.promo} ELSE {}
      BY <1>1, <1>3, <1>6, <2>1
    <2>3. pc'[c] = "inserting" /\ req'[c] = r
      BY <1>3 DEF Moved
    <2>. QED  BY <1>2, <1>3, <2>1, <2>2, <2>3 DEF InOrder, Creates
  <1>. QED  BY <1>1, <1>3, <1>4, <1>5, <1>6, EditGoesOn

LEMMA InsertCouponFollows ==
  ASSUME Types, EditsInOrder, NEW c \in Clients, InsertCoupon(c)  PROVE EditsInOrder'
  <1>1. PICK k \in Coupons : k = req[c].k
    BY InsertCouponFacts
  <1>2. /\ pc[c] = "inserting" /\ req[c] # None /\ req[c].op = "create"
        /\ req[c].row \in CouponRows
        /\ coupon' = IF coupon[k] = None THEN [coupon EXCEPT ![k] = req[c].row] ELSE coupon
        /\ codes' = codes /\ disturbed' = disturbed /\ Moved(c, "idle", None)
    BY <1>1, InsertCouponFacts, NoneIsNoRow
  <1>3. Editing(c, k)
    BY <1>1, <1>2 DEF Editing
  <1>4. \A m \in Coupons \ {k} : codes'[m] = codes[m] /\ coupon'[m] = coupon[m]
    BY <1>2 DEF Types, TypeOK
  <1>5. InOrder(c, k) => Settled(k)'
    <2>. SUFFICES ASSUME InOrder(c, k)  PROVE Settled(k)'
      OBVIOUS
    <2>1. /\ coupon[k] = None
          /\ codes[k] = IF req[c].row.active /\ req[c].row.promo # 0
                        THEN {req[c].row.promo} ELSE {}
      BY <1>2 DEF InOrder, Creates
    <2>2. coupon'[k] = req[c].row /\ coupon'[k] # None
      BY <1>2, <2>1, NoneIsNoRow DEF Types, TypeOK
    <2>. QED  BY <1>2, <2>1, <2>2 DEF Settled
  <1>. QED  BY <1>2, <1>3, <1>4, <1>5, EditGoesOn

LEMMA UpdatePromotionCodeFollows ==
  ASSUME Types, EditsInOrder, NEW c \in Clients, UpdatePromotionCode(c)  PROVE EditsInOrder'
  <1>1. PICK k \in Coupons : k = req[c].k
    BY UpdatePromotionCodeFacts
  <1>2. /\ pc[c] = "telling" /\ req[c] # None /\ req[c].op \in {"update", "remove"}
        /\ req[c].row \in CouponRows /\ coupon' = coupon
        /\ \/ /\ codes' = [codes EXCEPT ![k] = IF req[c].row.active THEN codes[k] \cup {req[c].id}
                                               ELSE codes[k] \ {req[c].id}]
              /\ disturbed' = disturbed
           \/ codes' = codes /\ disturbed' = disturbed \cup {k}
        /\ \/ req[c].op = "update" /\ Moved(c, "storing", req[c])
           \/ req[c].op = "remove" /\ Moved(c, "idle", None)
    BY <1>1, UpdatePromotionCodeFacts, NoneIsNoRow
  <1>3. Editing(c, k)
    BY <1>1, <1>2 DEF Editing
  <1>4. /\ \A m \in Coupons \ {k} : codes'[m] = codes[m] /\ coupon'[m] = coupon[m]
        /\ disturbed \subseteq disturbed'
    BY <1>2 DEF Types, TypeOK
  <1>5. coupon[k] # None /\ coupon[k].active \in BOOLEAN /\ req[c].row.active \in BOOLEAN
    BY <1>2, <1>3, EditorsFindTheRow DEF CouponRows
  <1>6. ASSUME k \notin disturbed'
        PROVE  codes'[k] = IF req[c].row.active THEN codes[k] \cup {req[c].id}
                           ELSE codes[k] \ {req[c].id}
    BY <1>2, <1>6 DEF Types, TypeOK
  <1>7. CASE req[c].op = "update" /\ Moved(c, "storing", req[c])
    <2>1. ASSUME k \notin disturbed', InOrder(c, k)  PROVE InOrder(c, k)'
      <3>1. /\ req[c].id = coupon[k].promo /\ Settled(k) /\ req[c].id # 0
            /\ req[c].row.active # coupon[k].active
        BY <1>2, <1>7, <2>1 DEF InOrder, Updates
      <3>2. codes'[k] = IF req[c].row.active /\ req[c].id # 0 THEN {req[c].id} ELSE {}
        BY <1>5, <1>6, <2>1, <3>1 DEF Settled
      <3>3. pc'[c] = "storing" /\ req'[c] = req[c]
        BY <1>7 DEF Moved
      <3>. QED  BY <1>2, <1>7, <3>1, <3>2, <3>3 DEF InOrder, Updates
    <2>. QED  BY <1>1, <1>2, <1>3, <1>4, <1>7, <2>1, EditGoesOn DEF EditOps
  <1>8. CASE req[c].op = "remove" /\ Moved(c, "idle", None)
    <2>1. ASSUME k \notin disturbed', InOrder(c, k)  PROVE Settled(k)'
      <3>1. /\ ~ req[c].row.active /\ ~ coupon[k].active /\ codes[k] \subseteq {req[c].id}
        BY <1>2, <1>8, <2>1 DEF InOrder, Removes
      <3>2. codes'[k] = {}
        BY <1>6, <2>1, <3>1
      <3>. QED  BY <1>2, <3>1, <3>2 DEF Settled
    <2>. QED  BY <1>2, <1>3, <1>4, <1>8, <2>1, EditGoesOn
  <1>. QED  BY <1>2, <1>7, <1>8

LEMMA StoreCouponFollows ==
  ASSUME Types, EditsInOrder, NEW c \in Clients, StoreCoupon(c)  PROVE EditsInOrder'
  <1>1. PICK k \in Coupons : k = req[c].k
    BY StoreCouponFacts
  <1>2. /\ pc[c] = "storing" /\ req[c] # None /\ req[c].op \in {"update", "remove"}
        /\ req[c].row \in CouponRows /\ coupon[k] # None
        /\ codes' = codes /\ disturbed' = disturbed
        /\ \/ req[c].op = "remove" /\ req[c].id # 0 /\ Moved(c, "telling", req[c])
           \/ (req[c].op = "update" \/ req[c].id = 0) /\ Moved(c, "idle", None)
    BY <1>1, StoreCouponFacts, NoneIsNoRow
  <1>3. PICK x \in CouponRows :
          /\ coupon' = [coupon EXCEPT ![k] = x]
          /\ x.active = (req[c].op = "update" /\ req[c].row.active)
          /\ x.promo = coupon[k].promo
    BY <1>1, StoreCouponFacts
  <1>4. Editing(c, k)
    BY <1>1, <1>2 DEF Editing
  <1>5. /\ \A m \in Coupons \ {k} : codes'[m] = codes[m] /\ coupon'[m] = coupon[m]
        /\ coupon'[k] = x /\ x # None
    BY <1>2, <1>3, NoneIsNoRow DEF Types, TypeOK
  <1>6. CASE req[c].op = "remove" /\ req[c].id # 0 /\ Moved(c, "telling", req[c])
    <2>1. ASSUME InOrder(c, k)  PROVE InOrder(c, k)'
      <3>1. req[c].id = coupon[k].promo /\ ~ req[c].row.active /\ Settled(k)
        BY <1>2, <1>6, <2>1 DEF InOrder, Removes
      <3>2. codes'[k] \subseteq {req[c].id} /\ ~ x.active /\ req[c].id = x.promo
        BY <1>2, <1>3, <1>6, <3>1 DEF Settled
      <3>3. pc'[c] = "telling" /\ req'[c] = req[c]
        BY <1>6 DEF Moved
      <3>. QED  BY <1>5, <1>6, <3>1, <3>2, <3>3 DEF InOrder, Removes
    <2>. QED  BY <1>1, <1>2, <1>4, <1>5, <1>6, <2>1, EditGoesOn DEF EditOps
  <1>7. CASE req[c].op = "update" /\ Moved(c, "idle", None)
    <2>1. ASSUME InOrder(c, k)  PROVE Settled(k)'
      <3>1. /\ req[c].id = coupon[k].promo
            /\ codes[k] = IF req[c].row.active /\ req[c].id # 0 THEN {req[c].id} ELSE {}
        BY <1>2, <1>7, <2>1 DEF InOrder, Updates
      <3>. QED  BY <1>2, <1>3, <1>5, <1>7, <3>1 DEF Settled
    <2>. QED  BY <1>2, <1>4, <1>5, <1>7, <2>1, EditGoesOn
  <1>8. CASE req[c].op = "remove" /\ req[c].id = 0 /\ Moved(c, "idle", None)
    <2>1. ASSUME InOrder(c, k)  PROVE Settled(k)'
      <3>1. req[c].id = coupon[k].promo /\ Settled(k)
        BY <1>2, <1>8, <2>1 DEF InOrder, Removes
      <3>2. codes[k] = {} /\ ~ x.active
        BY <1>3, <1>8, <3>1 DEF Settled
      <3>. QED  BY <1>2, <1>5, <3>2 DEF Settled
    <2>. QED  BY <1>2, <1>4, <1>5, <1>8, <2>1, EditGoesOn
  <1>. QED  BY <1>2, <1>6, <1>7, <1>8

LEMMA NextFollows == Types /\ EditsInOrder /\ [Next]_vars => EditsInOrder'
  <1>. SUFFICES ASSUME Types, EditsInOrder, [Next]_vars  PROVE EditsInOrder'
    OBVIOUS
  <1>0. \A c \in Clients : RoleFits(c) /\ RoleFits(c)'
    BY Roles, RolesNext
  <1>1. ASSUME coupon' = coupon, NEW k \in Coupons  PROVE SameRow(k)
    BY <1>1 DEF SameRow
  <1>2. ASSUME NEW c \in Clients, SellingStep(c)  PROVE EditsInOrder'
    BY <1>0, <1>1, <1>2, SellingFrame, UneditedFollow DEF EditOps
  <1>3. ASSUME NEW c \in Clients, RefundStep(c)  PROVE EditsInOrder'
    BY <1>0, <1>1, <1>3, RefundFrame, UneditedFollow DEF EditOps
  <1>4. ASSUME NEW c \in Clients, DeliveryStep(c)  PROVE EditsInOrder'
    <2>1. ASSUME NEW k \in Coupons  PROVE SameRow(k)
      <3>1. CASE (\E n \in Ids : Deliver(c, n)) \/ OnCheckoutCompleted(c)
        BY <1>1, <3>1, DeliverFacts, OnCheckoutCompletedFacts
      <3>2. CASE RecordRedemption(c)
        <4>. DEFINE j == session[req[c].n].coupon
        <4>1. j \in Coupons /\ coupon[j] \in CouponRows
          BY <3>2, RecordRedemptionFacts
        <4>2. PICK x \in CouponRows :
                /\ coupon' = [coupon EXCEPT ![j] = x]
                /\ x.active = coupon[j].active /\ x.promo = coupon[j].promo
          BY <3>2, RecordRedemptionFacts
        <4>. HIDE DEF j
        <4>. QED  BY <4>1, <4>2, NoneIsNoRow DEF SameRow, Types, TypeOK
      <3>. QED  BY <1>4, <3>1, <3>2 DEF DeliveryStep
    <2>. QED  BY <1>0, <1>4, <2>1, DeliveryFrame, UneditedFollow DEF EditOps
  <1>5. ASSUME NEW c \in Clients, EditStep(c)  PROVE EditsInOrder'
    BY <1>0, <1>5, EditRequestsFollow, SyncCouponFollows, InsertCouponFollows,
       UpdatePromotionCodeFollows, StoreCouponFollows DEF EditStep
  <1>6. ASSUME NEW c \in Clients, Fail(c)  PROVE EditsInOrder'
    <2>1. /\ coupon' = coupon /\ codes' = codes /\ Bystanders(c) /\ req'[c] = None
          /\ disturbed' = disturbed \cup {k \in Coupons : Editing(c, k)}
      BY <1>6, FailFacts DEF Moved, Bystanders
    <2>2. ASSUME NEW k \in Coupons  PROVE Follows(k)'
      <3>1. CASE Editing(c, k)
        BY <2>1, <3>1 DEF Follows
      <3>2. CASE ~ Editing(c, k)
        <4>1. ~ Editing(c, k)'
          BY <2>1 DEF Editing
        <4>. QED  BY <2>1, <3>2, <4>1, OthersFollow
      <3>. QED  BY <3>1, <3>2
    <2>. QED  BY <2>2 DEF EditsInOrder
  <1>7. CASE QuietStep
    <2>1. UNCHANGED <<coupon, codes, pc, req, disturbed>>
      BY <1>7, QuietFrame
    <2>2. \A d \in Clients, k \in Coupons : Editing(d, k)' <=> Editing(d, k)
      BY <2>1 DEF Editing
    <2>. QED  BY <1>1, <2>1, <2>2, FollowsElsewhere DEF EditsInOrder
  <1>. QED  BY <1>2, <1>3, <1>4, <1>5, <1>6, <1>7, StepKinds DEF QuietStep

-----------------------------------------------------------------------------
(* Redemptions. *)
LEMMA SpentIsFinite ==
  ASSUME NEW k, NEW u
  PROVE  IsFiniteSet(Spent(k, u)) /\ IsFiniteSet(Spent(k, u)')
  <1>1. IsFiniteSet(Ids)
    BY FS_Interval, CheckoutAssumption DEF Ids
  <1>2. Spent(k, u) \subseteq Ids /\ Spent(k, u)' \subseteq Ids
    BY DEF Spent
  <1>. QED  BY <1>1, <1>2, FS_Subset

LEMMA SpentIsCounted ==
  ASSUME NEW k, NEW u, Spent(k, u) \subseteq Spent(k, u)'
  PROVE  /\ Cardinality(Spent(k, u)) \in Nat /\ Cardinality(Spent(k, u)') \in Nat
         /\ Cardinality(Spent(k, u)) <= Cardinality(Spent(k, u)')
  BY SpentIsFinite, FS_Subset, FS_CardinalityType

(* What is accounted for stays so, unless a client takes it up again. *)
LEMMA SpentGrows ==
  ASSUME NEW k \in Coupons, NEW u \in Users, NEW c \in Clients, Bystanders(c),
         \A n \in Ids : session[n] # None /\ session[n].stage = "delivered" =>
           /\ session'[n] # None /\ session'[n].stage = "delivered"
           /\ session'[n].user = session[n].user /\ session'[n].coupon = session[n].coupon
           /\ Role(c)' = "deliver" /\ req'[c].n = n => Role(c) = "deliver" /\ req[c].n = n
  PROVE  Spent(k, u) \subseteq Spent(k, u)'
  <1>1. ASSUME NEW n \in Ids, session[n] # None, session[n].stage = "delivered",
               \A d \in Clients : ~ (Role(d) = "deliver" /\ req[d].n = n)
        PROVE  \A d \in Clients : ~ (Role(d)' = "deliver" /\ req'[d].n = n)
    BY <1>1, BystandersKeepRoles
  <1>. QED  BY <1>1 DEF Spent

(* The redemptions are as they were, and what accounts for them is no less. *)
LEMMA UsesElsewhere ==
  ASSUME Types, Types', UsesInTurn, redeemed' = redeemed,
         \A k \in Coupons : /\ coupon'[k] = None <=> coupon[k] = None
                            /\ coupon[k] # None => coupon'[k].used = coupon[k].used,
         \A n \in Ids : session'[n] # None => session'[n].before = 0,
         \A c \in Clients : Role(c)' = "create" => req'[c].row.used = 0,
         \A k \in Coupons, u \in Users : Spent(k, u) \subseteq Spent(k, u)'
  PROVE  UsesInTurn'
  <1>1. ASSUME NEW k \in Coupons
        PROVE  /\ IsFiniteSet(RedemptionsOf(k)')
               /\ coupon'[k] = None => \A u \in Users : redeemed'[k][u] = 0
               /\ coupon'[k] # None => coupon'[k].used = Cardinality(RedemptionsOf(k)')
               /\ \A u \in Users : redeemed'[k][u] <= Cardinality(Spent(k, u)')
    <2>1. RedemptionsOf(k)' = RedemptionsOf(k)
      BY DEF RedemptionsOf
    <2>2. ASSUME NEW u \in Users  PROVE redeemed'[k][u] <= Cardinality(Spent(k, u)')
      <3>1. /\ redeemed[k][u] \in Nat /\ redeemed'[k][u] = redeemed[k][u]
            /\ redeemed[k][u] <= Cardinality(Spent(k, u))
        BY DEF Types, TypeOK, UsesInTurn
      <3>. QED  BY <3>1, SpentIsCounted
    <2>. QED  BY <2>1, <2>2 DEF UsesInTurn
  <1>. QED  BY <1>1 DEF UsesInTurn

LEMMA CreatorsElsewhere ==
  ASSUME UsesInTurn, NEW c \in Clients, Bystanders(c),
         Role(c)' = "create" => req'[c].row.used = 0
  PROVE  \A d \in Clients : Role(d)' = "create" => req'[d].row.used = 0
  BY BystandersKeepRoles DEF UsesInTurn

(* One redemption more, and one more session accounted for. *)
LEMMA RecordRedemptionUses ==
  ASSUME Types, Types', DeliveredOnce, UsesInTurn, NEW c \in Clients, RecordRedemption(c),
         RoleFits(c), RoleFits(c)'
  PROVE  UsesInTurn'
  <1>1. PICK n \in Ids, k \in Coupons, u \in Users :
          n = req[c].n /\ k = session[n].coupon /\ u = session[n].user
    BY RecordRedemptionFacts DEF Sessions
  <1>2. /\ Role(c) = "deliver" /\ Bystanders(c) /\ Role(c)' = "idle"
        /\ session' = session /\ session[n] # None /\ session[n].stage = "delivered"
        /\ coupon[k] # None
        /\ redeemed' = [redeemed EXCEPT ![k] = [redeemed[k] EXCEPT ![u] = redeemed[k][u] + 1]]
    <2>1. pc[c] = "redeeming" /\ Fits(c) /\ Moved(c, "idle", None) /\ session' = session
      BY RecordRedemptionFacts
    <2>2. coupon[k] # None
      BY <1>1, RecordRedemptionFacts, NoneIsNoRow
    <2>3. redeemed' = [redeemed EXCEPT ![k] = [redeemed[k] EXCEPT ![u] = redeemed[k][u] + 1]]
      BY <1>1, RecordRedemptionFacts
    <2>. QED  BY <1>1, <2>1, <2>2, <2>3 DEF Moved, Bystanders, RoleFits, Fits
  <1>3. PICK x \in CouponRows :
          coupon' = [coupon EXCEPT ![k] = x] /\ x.used = coupon[k].used + 1
    BY <1>1, RecordRedemptionFacts
  <1>4. /\ redeemed'[k][u] = redeemed[k][u] + 1 /\ redeemed[k][u] \in Nat
        /\ \A v \in Users \ {u} : redeemed'[k][v] = redeemed[k][v]
        /\ \A j \in Coupons \ {k} : redeemed'[j] = redeemed[j]
        /\ \A v \in Users : redeemed[k][v] \in Nat
    BY <1>2 DEF Types, TypeOK
  <1>5. /\ coupon'[k] = x /\ x # None
        /\ \A j \in Coupons \ {k} : coupon'[j] = coupon[j]
    BY <1>3, NoneIsNoRow DEF Types, TypeOK
  <1>6. \A j \in Coupons, v \in Users : Spent(j, v) \subseteq Spent(j, v)'
    BY <1>2, SpentGrows
  <1>7. ASSUME NEW j \in Coupons, j # k
        PROVE  /\ IsFiniteSet(RedemptionsOf(j)')
               /\ coupon'[j] = None => \A v \in Users : redeemed'[j][v] = 0
               /\ coupon'[j] # None => coupon'[j].used = Cardinality(RedemptionsOf(j)')
               /\ \A v \in Users : redeemed'[j][v] <= Cardinality(Spent(j, v)')
    <2>1. RedemptionsOf(j)' = RedemptionsOf(j)
      BY <1>4, <1>7 DEF RedemptionsOf
    <2>2. ASSUME NEW v \in Users  PROVE redeemed'[j][v] <= Cardinality(Spent(j, v)')
      <3>1. /\ redeemed[j][v] \in Nat /\ redeemed'[j][v] = redeemed[j][v]
            /\ redeemed[j][v] <= Cardinality(Spent(j, v))
        BY <1>4, <1>7 DEF Types, TypeOK, UsesInTurn
      <3>. QED  BY <1>6, <3>1, SpentIsCounted
    <2>. QED  BY <1>4, <1>5, <1>7, <2>1, <2>2 DEF UsesInTurn
  <1>8. IsFiniteSet(RedemptionsOf(k)') /\ coupon'[k].used = Cardinality(RedemptionsOf(k)')
    <2>. DEFINE e == <<u, redeemed[k][u] + 1>>
    <2>1. RedemptionsOf(k)' = RedemptionsOf(k) \cup {e}
      <3>1. ASSUME NEW y, y \in RedemptionsOf(k)'  PROVE y \in RedemptionsOf(k) \cup {e}
        <4>1. PICK v \in Users, i \in Nat : i \in 1 .. redeemed'[k][v] /\ y = <<v, i>>
          BY <3>1 DEF RedemptionsOf
        <4>2. i \in 1 .. redeemed[k][v] \/ (v = u /\ i = redeemed[k][u] + 1)
          BY <1>4, <4>1
        <4>. QED  BY <4>1, <4>2 DEF RedemptionsOf
      <3>2. ASSUME NEW y, y \in RedemptionsOf(k) \cup {e}  PROVE y \in RedemptionsOf(k)'
        <4>1. PICK v \in Users, i \in Nat :
                y = <<v, i>> /\ (i \in 1 .. redeemed[k][v] \/ (v = u /\ i = redeemed[k][u] + 1))
          BY <1>4, <3>2 DEF RedemptionsOf
        <4>2. i \in 1 .. redeemed'[k][v]
          BY <1>4, <4>1
        <4>. QED  BY <4>1, <4>2 DEF RedemptionsOf
      <3>. QED  BY <3>1, <3>2
    <2>2. e \notin RedemptionsOf(k)
      <3>1. ASSUME NEW v \in Users, NEW i \in 1 .. redeemed[k][v], e = <<v, i>>  PROVE FALSE
        <4>1. v = u /\ i = redeemed[k][u] + 1
          BY <3>1
        <4>. QED  BY <1>4, <4>1
      <3>. QED  BY <3>1 DEF RedemptionsOf
    <2>3. IsFiniteSet(RedemptionsOf(k)) /\ coupon[k].used = Cardinality(RedemptionsOf(k))
      BY <1>2 DEF UsesInTurn
    <2>. HIDE DEF e
    <2>4. /\ IsFiniteSet(RedemptionsOf(k) \cup {e})
          /\ Cardinality(RedemptionsOf(k) \cup {e}) = Cardinality(RedemptionsOf(k)) + 1
      BY <2>2, <2>3, FS_AddElement
    <2>. QED  BY <1>3, <1>5, <2>1, <2>3, <2>4
  <1>9. ASSUME NEW v \in Users  PROVE redeemed'[k][v] <= Cardinality(Spent(k, v)')
    <2>1. redeemed[k][v] <= Cardinality(Spent(k, v)) /\ redeemed[k][v] \in Nat
      BY <1>4 DEF UsesInTurn
    <2>2. CASE v # u
      BY <1>4, <1>6, <2>1, <2>2, SpentIsCounted
    <2>3. CASE v = u
      <3>1. n \notin Spent(k, u)
        BY <1>1, <1>2 DEF Spent
      <3>2. n \in Spent(k, u)'
        <4>1. ASSUME NEW d \in Clients, Role(d)' = "deliver", req'[d].n = n  PROVE FALSE
          <5>1. d # c /\ Role(d) = "deliver" /\ req[d].n = n
            BY <1>2, <4>1, BystandersKeepRoles
          <5>. QED  BY <1>1, <1>2, <5>1 DEF DeliveredOnce
        <4>. QED  BY <1>1, <1>2, <4>1 DEF Spent
      <3>3. Spent(k, u) \cup {n} \subseteq Spent(k, u)'
        BY <1>6, <3>2
      <3>4. /\ IsFiniteSet(Spent(k, u))
            /\ Cardinality(Spent(k, u) \cup {n}) = Cardinality(Spent(k, u)) + 1
        BY <3>1, SpentIsFinite, FS_AddElement
      <3>5. Cardinality(Spent(k, u) \cup {n}) <= Cardinality(Spent(k, u)')
        BY <3>3, SpentIsFinite, FS_Subset
      <3>6. Cardinality(Spent(k, u)') \in Nat /\ Cardinality(Spent(k, u)) \in Nat
        BY SpentIsFinite, FS_CardinalityType
      <3>. QED  BY <1>4, <2>1, <2>3, <3>4, <3>5, <3>6
    <2>. QED  BY <2>2, <2>3
  <1>10. \A d \in Clients : Role(d)' = "create" => req'[d].row.used = 0
    BY <1>2, CreatorsElsewhere
  <1>11. \A m \in Ids : session'[m] # None => session'[m].before = 0
    BY <1>2 DEF UsesInTurn
  <1>12. ASSUME NEW j \in Coupons
         PROVE  /\ IsFiniteSet(RedemptionsOf(j)')
                /\ coupon'[j] = None => \A v \in Users : redeemed'[j][v] = 0
                /\ coupon'[j] # None => coupon'[j].used = Cardinality(RedemptionsOf(j)')
                /\ \A v \in Users : redeemed'[j][v] <= Cardinality(Spent(j, v)')
    BY <1>5, <1>7, <1>8, <1>9
  <1>. QED  BY <1>10, <1>11, <1>12 DEF UsesInTurn

(* A coupon that is new has no redemptions. *)
LEMMA InsertCouponUses ==
  ASSUME Types, Types', UsesInTurn, NEW c \in Clients, InsertCoupon(c), RoleFits(c), RoleFits(c)'
  PROVE  UsesInTurn'
  <1>1. PICK k \in Coupons : k = req[c].k
    BY InsertCouponFacts
  <1>2. /\ pc[c] = "inserting" /\ Role(c) = "create" /\ req[c].row \in CouponRows
        /\ coupon' = IF coupon[k] = None THEN [coupon EXCEPT ![k] = req[c].row] ELSE coupon
        /\ redeemed' = redeemed /\ session' = session /\ Bystanders(c) /\ Role(c)' = "idle"
    BY <1>1, InsertCouponFacts DEF Moved, Bystanders, RoleFits
  <1>3. req[c].row.used = 0
    BY <1>2 DEF UsesInTurn
  <1>4. \A j \in Coupons, v \in Users : Spent(j, v) \subseteq Spent(j, v)'
    BY <1>2, SpentGrows
  <1>5. ASSUME NEW j \in Coupons
        PROVE  /\ IsFiniteSet(RedemptionsOf(j)')
               /\ coupon'[j] = None => \A v \in Users : redeemed'[j][v] = 0
               /\ coupon'[j] # None => coupon'[j].used = Cardinality(RedemptionsOf(j)')
               /\ \A v \in Users : redeemed'[j][v] <= Cardinality(Spent(j, v)')
    <2>1. RedemptionsOf(j)' = RedemptionsOf(j)
      BY <1>2 DEF RedemptionsOf
    <2>2. ASSUME NEW v \in Users  PROVE redeemed'[j][v] <= Cardinality(Spent(j, v)')
      <3>1. /\ redeemed[j][v] \in Nat /\ redeemed'[j][v] = redeemed[j][v]
            /\ redeemed[j][v] <= Cardinality(Spent(j, v))
        BY <1>2 DEF Types, TypeOK, UsesInTurn
      <3>. QED  BY <1>4, <3>1, SpentIsCounted
    <2>3. CASE coupon'[j] = coupon[j]
      BY <1>2, <2>1, <2>2, <2>3 DEF UsesInTurn
    <2>4. CASE coupon'[j] # coupon[j]
      <3>1. j = k /\ coupon[k] = None /\ coupon'[k] = req[c].row /\ coupon'[k] # None
        BY <1>2, <2>4, NoneIsNoRow DEF Types, TypeOK
      <3>2. \A v \in Users : redeemed[k][v] = 0
        BY <3>1 DEF UsesInTurn
      <3>3. RedemptionsOf(k) = {}
        BY <3>2 DEF RedemptionsOf
      <3>4. Cardinality(RedemptionsOf(k)) = 0 /\ IsFiniteSet(RedemptionsOf(k))
        BY <3>3, FS_EmptySet
      <3>. QED  BY <1>3, <2>1, <2>2, <3>1, <3>4
    <2>. QED  BY <2>3, <2>4
  <1>6. \A d \in Clients : Role(d)' = "create" => req'[d].row.used = 0
    BY <1>2, CreatorsElsewhere
  <1>7. \A m \in Ids : session'[m] # None => session'[m].before = 0
    BY <1>2 DEF UsesInTurn
  <1>. QED  BY <1>5, <1>6, <1>7 DEF UsesInTurn

(* The other steps of an edit leave the counts, and a new row counts none. *)
LEMMA EditUses ==
  ASSUME Types, UsesInTurn, NEW c \in Clients, EditStep(c), ~ InsertCoupon(c),
         RoleFits(c), RoleFits(c)'
  PROVE  /\ \A k \in Coupons : /\ coupon'[k] = None <=> coupon[k] = None
                               /\ coupon[k] # None => coupon'[k].used = coupon[k].used
         /\ Role(c)' = "create" => req'[c].row.used = 0
  <1>1. ASSUME NEW k \in Coupons, NEW active \in BOOLEAN, NEW scope \in Scopes, NEW max \in 0 .. 1,
               CreateCoupon(c, k, NewCoupon(active, scope, max))
        PROVE  coupon' = coupon /\ req'[c].row.used = 0
    <2>1. PICK row \in CouponRows : EditBegins(c, "create", k, row, 0, "syncing") /\ row.used = 0
      BY <1>1, CreateCouponFacts
    <2>. QED  BY <2>1 DEF EditBegins, tables, Moved
  <1>2. ASSUME NEW k \in Coupons, NEW active \in BOOLEAN, NEW max \in 0 .. 1, coupon[k] # None,
               UpdateCoupon(c, k, [coupon[k] EXCEPT !.active = active, !.max = max])
        PROVE  coupon' = coupon /\ Role(c)' # "create"
    <2>1. PICK row \in CouponRows, step \in {"telling", "storing"} :
            EditBegins(c, "update", k, row, coupon[k].promo, step)
      BY <1>2, UpdateCouponFacts
    <2>. QED  BY <2>1 DEF EditBegins, tables, Moved, Role
  <1>3. ASSUME NEW k \in Coupons, RemoveCoupon(c, k)
        PROVE  coupon' = coupon /\ Role(c)' # "create"
    <2>1. PICK row \in CouponRows :
            EditBegins(c, "remove", k, row, coupon[k].promo, "storing")
      BY <1>3, RemoveCouponFacts
    <2>. QED  BY <2>1 DEF EditBegins, tables, Moved, Role
  <1>4. CASE SyncCoupon(c)
    <2>1. Role(c) = "create" /\ coupon' = coupon
      BY <1>4, SyncCouponFacts DEF RoleFits
    <2>2. req'[c].row.used = req[c].row.used
      BY <1>4, SyncCouponFacts DEF Moved
    <2>. QED  BY <2>1, <2>2 DEF UsesInTurn
  <1>5. CASE UpdatePromotionCode(c)
    <2>1. coupon' = coupon /\ pc'[c] \in {"storing", "idle"}
      BY <1>5, UpdatePromotionCodeFacts DEF Moved
    <2>. QED  BY <2>1 DEF RoleFits
  <1>6. CASE StoreCoupon(c)
    <2>1. PICK k \in Coupons : k = req[c].k
      BY <1>6, StoreCouponFacts
    <2>2. PICK x \in CouponRows :
            coupon' = [coupon EXCEPT ![k] = x] /\ x.used = coupon[k].used
      BY <1>6, <2>1, StoreCouponFacts
    <2>3. pc'[c] \in {"telling", "idle"} /\ coupon[k] # None
      BY <1>6, <2>1, StoreCouponFacts DEF Moved
    <2>. QED  BY <2>2, <2>3, NoneIsNoRow DEF RoleFits, Types, TypeOK
  <1>. QED  BY <1>1, <1>2, <1>3, <1>4, <1>5, <1>6 DEF EditStep

LEMMA NextUses == Types /\ DeliveredOnce /\ UsesInTurn /\ [Next]_vars => UsesInTurn'
  <1>. SUFFICES ASSUME Types, DeliveredOnce, UsesInTurn, [Next]_vars  PROVE UsesInTurn'
    OBVIOUS
  <1>0. Types' /\ \A c \in Clients : RoleFits(c) /\ RoleFits(c)'
    BY Roles, RolesNext, NextTypes
  <1>1. ASSUME NEW c \in Clients, SellingStep(c)  PROVE UsesInTurn'
    <2>1. /\ UNCHANGED <<coupon, redeemed>> /\ Bystanders(c)
          /\ Role(c)' \in {"idle", "checkout", "portal"}
          /\ \A n \in Ids : session[n] # None => session'[n] = session[n]
          /\ \A n \in Ids : session[n] = None /\ session'[n] # None => session'[n].before = 0
      BY <1>0, <1>1, SellingFrame
    <2>2. \A k \in Coupons, u \in Users : Spent(k, u) \subseteq Spent(k, u)'
      BY <2>1, SpentGrows
    <2>3. \A n \in Ids : session'[n] # None => session'[n].before = 0
      BY <2>1 DEF UsesInTurn
    <2>4. \A d \in Clients : Role(d)' = "create" => req'[d].row.used = 0
      BY <2>1, CreatorsElsewhere
    <2>. QED  BY <1>0, <2>1, <2>2, <2>3, <2>4, UsesElsewhere
  <1>2. ASSUME NEW c \in Clients, RefundStep(c)  PROVE UsesInTurn'
    <2>1. /\ UNCHANGED <<coupon, redeemed, session>> /\ Bystanders(c)
          /\ Role(c)' \in {"idle", "refund"}
      BY <1>0, <1>2, RefundFrame
    <2>2. \A k \in Coupons, u \in Users : Spent(k, u) \subseteq Spent(k, u)'
      BY <2>1, SpentGrows
    <2>3. \A d \in Clients : Role(d)' = "create" => req'[d].row.used = 0
      BY <2>1, CreatorsElsewhere
    <2>4. \A n \in Ids : session'[n] # None => session'[n].before = 0
      BY <2>1 DEF UsesInTurn
    <2>. QED  BY <1>0, <2>1, <2>2, <2>3, <2>4, UsesElsewhere
  <1>3. ASSUME NEW c \in Clients, EditStep(c), ~ InsertCoupon(c)  PROVE UsesInTurn'
    <2>1. /\ UNCHANGED <<redeemed, session>> /\ Bystanders(c) /\ Role(c)' # "deliver"
      BY <1>0, <1>3, EditFrame DEF EditOps
    <2>2. \A k \in Coupons, u \in Users : Spent(k, u) \subseteq Spent(k, u)'
      BY <2>1, SpentGrows
    <2>3. \A d \in Clients : Role(d)' = "create" => req'[d].row.used = 0
      BY <1>0, <1>3, <2>1, EditUses, CreatorsElsewhere
    <2>4. \A n \in Ids : session'[n] # None => session'[n].before = 0
      BY <2>1 DEF UsesInTurn
    <2>5. \A k \in Coupons : /\ coupon'[k] = None <=> coupon[k] = None
                             /\ coupon[k] # None => coupon'[k].used = coupon[k].used
      BY <1>0, <1>3, EditUses
    <2>. QED  BY <1>0, <2>1, <2>2, <2>3, <2>4, <2>5, UsesElsewhere
  <1>4. ASSUME NEW c \in Clients, Fail(c)  PROVE UsesInTurn'
    <2>1. /\ UNCHANGED <<coupon, redeemed, session>> /\ Bystanders(c) /\ Role(c)' = "idle"
      BY <1>4, FailFacts DEF Moved, Bystanders, Role
    <2>2. \A k \in Coupons, u \in Users : Spent(k, u) \subseteq Spent(k, u)'
      BY <2>1, SpentGrows
    <2>3. \A d \in Clients : Role(d)' = "create" => req'[d].row.used = 0
      BY <2>1, CreatorsElsewhere
    <2>4. \A n \in Ids : session'[n] # None => session'[n].before = 0
      BY <2>1 DEF UsesInTurn
    <2>. QED  BY <1>0, <2>1, <2>2, <2>3, <2>4, UsesElsewhere
  <1>5. ASSUME NEW c \in Clients,
               (\E n \in Ids : Deliver(c, n)) \/ OnCheckoutCompleted(c)
        PROVE  UsesInTurn'
    <2>1. /\ Staged /\ Bystanders(c) /\ Role(c)' \in {"idle", "deliver"}
      BY <1>0, <1>5, DeliveryFrame DEF DeliveryStep
    <2>2. UNCHANGED <<coupon, redeemed>>
      BY <1>5, DeliverFacts, OnCheckoutCompletedFacts
    <2>3. ASSUME NEW n \in Ids, session[n] # None, session[n].stage = "delivered",
                 Role(c)' = "deliver", req'[c].n = n
          PROVE  Role(c) = "deliver" /\ req[c].n = n
      <3>1. CASE OnCheckoutCompleted(c)
        <4>1. Role(c) = "deliver" /\ (pc'[c] = "idle" \/ req'[c] = req[c])
          BY <1>0, <3>1, OnCheckoutCompletedFacts DEF Moved, RoleFits
        <4>. QED  BY <2>3, <4>1 DEF Role
      <3>2. ASSUME NEW m \in Ids, Deliver(c, m)  PROVE FALSE
        <4>1. session[m].stage = "paid" /\ req'[c].n = m
          BY <3>2, DeliverFacts DEF Moved
        <4>. QED  BY <2>3, <4>1
      <3>. QED  BY <1>5, <3>1, <3>2
    <2>4. \A k \in Coupons, u \in Users : Spent(k, u) \subseteq Spent(k, u)'
      BY <2>1, <2>3, SpentGrows DEF Staged
    <2>5. \A d \in Clients : Role(d)' = "create" => req'[d].row.used = 0
      BY <2>1, CreatorsElsewhere
    <2>6. \A n \in Ids : session'[n] # None => session'[n].before = 0
      BY <2>1 DEF UsesInTurn, Staged
    <2>. QED  BY <1>0, <2>2, <2>4, <2>5, <2>6, UsesElsewhere
  <1>6. CASE QuietStep
    <2>1. /\ UNCHANGED <<coupon, redeemed, pc, req>> /\ Staged
          /\ \A d \in Clients : Role(d)' = Role(d)
      BY <1>6, QuietFrame DEF Role
    <2>2. \A k \in Coupons, u \in Users : Spent(k, u) \subseteq Spent(k, u)'
      BY <2>1 DEF Spent, Staged
    <2>3. \A d \in Clients : Role(d)' = "create" => req'[d].row.used = 0
      BY <2>1 DEF UsesInTurn
    <2>4. \A n \in Ids : session'[n] # None => session'[n].before = 0
      BY <2>1 DEF UsesInTurn, Staged
    <2>. QED  BY <1>0, <2>1, <2>2, <2>3, <2>4, UsesElsewhere
  <1>7. ASSUME NEW c \in Clients, DeliveryStep(c)  PROVE UsesInTurn'
    BY <1>0, <1>5, <1>7, RecordRedemptionUses DEF DeliveryStep
  <1>8. ASSUME NEW c \in Clients, EditStep(c)  PROVE UsesInTurn'
    BY <1>0, <1>3, <1>8, InsertCouponUses
  <1>. QED  BY <1>1, <1>2, <1>4, <1>6, <1>7, <1>8, StepKinds DEF QuietStep

-----------------------------------------------------------------------------
LEMMA InitIInv == Init => IInv
  <1>. SUFFICES ASSUME Init  PROVE IInv
    OBVIOUS
  <1>1. /\ \A c \in Clients : pc[c] = "idle" /\ Role(c) = "idle" /\ req[c] = None
        /\ \A n \in Ids : session[n] = None /\ payment[n] = "none" /\ returned[n] = 0
    BY DEF Init, Role
  <1>2. Types
    BY InitTypes
  <1>3. DeliveredOnce /\ CustomersInTurn
    BY <1>1 DEF DeliveredOnce, CustomersInTurn, SessionsUseTheRow
  <1>4. RefundsInTurn
    BY <1>1 DEF RefundsInTurn, Returning, StatusIsTrue
  <1>5. ASSUME NEW k \in Coupons, coupon[k] # None
        PROVE  coupon[k].active /\ coupon[k].promo = 1 /\ coupon[k].used = 0
    <2>1. PICK s \in {"ALL", "PLANS"} :
            coupon[k] = [NewCoupon(TRUE, s, 1) EXCEPT !.stripe = 1, !.promo = 1]
      BY <1>5 DEF Init
    <2>. QED  BY <2>1 DEF NewCoupon
  <1>6. EditsInOrder
    <2>1. ASSUME NEW k \in Coupons  PROVE Settled(k)
      <3>1. codes[k] = IF coupon[k] = None THEN {} ELSE {1}
        BY DEF Init
      <3>. QED  BY <1>5, <3>1 DEF Settled
    <2>. QED  BY <1>1, <2>1 DEF EditsInOrder, Follows, Editing
  <1>7. ASSUME NEW k \in Coupons
        PROVE  /\ IsFiniteSet(RedemptionsOf(k)) /\ Cardinality(RedemptionsOf(k)) = 0
               /\ coupon[k] # None => coupon[k].used = 0
               /\ \A u \in Users : redeemed[k][u] = 0
    <2>1. \A u \in Users : redeemed[k][u] = 0
      BY DEF Init
    <2>2. RedemptionsOf(k) = {}
      BY <2>1 DEF RedemptionsOf
    <2>3. IsFiniteSet(RedemptionsOf(k)) /\ Cardinality(RedemptionsOf(k)) = 0
      BY <2>2, FS_EmptySet
    <2>. QED  BY <1>5, <2>1, <2>3
  <1>8. UsesInTurn
    <2>1. ASSUME NEW k \in Coupons, NEW u \in Users
          PROVE  redeemed[k][u] <= Cardinality(Spent(k, u))
      <3>1. Cardinality(Spent(k, u)) \in Nat
        BY SpentIsFinite, FS_CardinalityType
      <3>. QED  BY <1>7, <3>1
    <2>. QED  BY <1>1, <1>7, <2>1 DEF UsesInTurn
  <1>. QED  BY <1>2, <1>3, <1>4, <1>6, <1>8 DEF IInv

LEMMA NextPreserves == IInv /\ [Next]_vars => IInv'
  <1>1. IInv /\ [Next]_vars => /\ Types' /\ DeliveredOnce' /\ CustomersInTurn'
                               /\ RefundsInTurn' /\ EditsInOrder' /\ UsesInTurn'
    BY NextTypes, NextDelivers, NextKeepsCustomers, NextRefunds, NextFollows, NextUses DEF IInv
  <1>. QED  BY <1>1 DEF IInv

(* What the requests and rows have in common, in every state: the coupons'   *)
(* edits, the refunds and the deliveries are where their requests say.      *)
THEOREM Invariance == Spec => []IInv
  BY InitIInv, NextPreserves, PTL DEF Spec

(* TypeOK: what startPackageCheckout, refundPaymentAdmin and CouponsService  *)
(* keep is always of its type.                                              *)
THEOREM Typed == Spec => []TypeOK
  <1>1. IInv => TypeOK
    BY DEF IInv, Types
  <1>. QED  BY <1>1, Invariance, PTL

(* SessionsUseTheRow: of the Stripe customers that racing checkouts made for  *)
(* a user, only the one that getOrCreateStripeCustomer stored is ever billed. *)
THEOREM OneCustomer == Spec => []SessionsUseTheRow
  <1>1. IInv => SessionsUseTheRow
    BY DEF IInv, CustomersInTurn
  <1>. QED  BY <1>1, Invariance, PTL

(* RefundsAgree: what refundPaymentAdmin wrote about a refund is what Stripe  *)
(* returned, however the refunds of a payment overlap.                      *)
THEOREM RefundsTold == Spec => []RefundsAgree
  <1>1. IInv => RefundsAgree
    BY DEF IInv, RefundsInTurn, RefundsAgree, StatusIsTrue, Returning
  <1>. QED  BY <1>1, Invariance, PTL

(* PromotionsFollowCoupons: a coupon's code works at Stripe exactly when its  *)
(* row says so, once CouponsService has finished with it and no edit of it   *)
(* overlapped another, was cut short or lost an answer of Stripe's.         *)
THEOREM CodesFollow == Spec => []PromotionsFollowCoupons
  <1>1. IInv => PromotionsFollowCoupons
    BY DEF IInv, EditsInOrder, Follows, Settled, PromotionsFollowCoupons
  <1>. QED  BY <1>1, Invariance, PTL

(* UsesAreEarned: timesRedeemed is the number of the redemption rows, and     *)
(* every use of a coupon by a user has a session of his own behind it.      *)
THEOREM Earned == Spec => []UsesAreEarned
  <1>1. IInv => UsesAreEarned
    <2>. SUFFICES ASSUME IInv, NEW k \in Coupons, NEW u \in Users
                  PROVE  redeemed[k][u] <= Cardinality({n \in Ids : /\ session[n] # None
                                                                    /\ session[n].user = u
                                                                    /\ session[n].coupon = k
                                                                    /\ session[n].before = 0})
      BY DEF UsesAreEarned, IInv, UsesInTurn
    <2>. DEFINE all == {n \in Ids : /\ session[n] # None /\ session[n].user = u
                                    /\ session[n].coupon = k /\ session[n].before = 0}
    <2>1. redeemed[k][u] \in Nat /\ redeemed[k][u] <= Cardinality(Spent(k, u))
      BY DEF IInv, Types, TypeOK, UsesInTurn
    <2>2. Spent(k, u) \subseteq all /\ all \subseteq Ids
      BY DEF Spent, IInv, UsesInTurn
    <2>3. IsFiniteSet(all)
      <3>1. IsFiniteSet(Ids)
        BY FS_Interval, CheckoutAssumption DEF Ids
      <3>. HIDE DEF all
      <3>. QED  BY <2>2, <3>1, FS_Subset
    <2>. HIDE DEF all
    <2>4. /\ Cardinality(Spent(k, u)) <= Cardinality(all)
          /\ Cardinality(Spent(k, u)) \in Nat /\ Cardinality(all) \in Nat
      BY <2>2, <2>3, SpentIsFinite, FS_Subset, FS_CardinalityType
    <2>. QED  BY <2>1, <2>4 DEF all
  <1>. QED  BY <1>1, Invariance, PTL
=============================================================================
