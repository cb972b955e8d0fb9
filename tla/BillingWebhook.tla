--------------------------- MODULE BillingWebhook ---------------------------
(***************************************************************************)
(* Stripe's webhook: StripeWebhookController.handle and                    *)
(* BillingService.handleStripeEvent with onCheckoutCompleted.              *)
(*                                                                         *)
(* Stripe delivers an event at least once: it retries until it is answered *)
(* 200, it may deliver an event again that it has already been answered,   *)
(* and two deliveries of one event may be handled at the same time.  The   *)
(* handler first inserts the event's id into StripeWebhookEvent; whoever   *)
(* finds it there (P2002) answers 200 and does nothing.  A delivery whose  *)
(* signature cannot be verified is answered 200, too.  The credits a       *)
(* checkout grants are one posting of CreditLedger's GRANT, committed with *)
(* the Payment row.  What the events of subscriptions and invoices write   *)
(* is left to a module of its own: here they are events with nothing due.  *)
(***************************************************************************)
EXTENDS Naturals, FiniteSets

CONSTANTS
  Events,          \* events Stripe has to deliver
  Kind,            \* Kind[e]: "package", "subscription" or "nothing" due
  WithCoupon,      \* checkouts whose metadata carries a couponId
  Workers,         \* requests the servers handle concurrently
  NoEvent,
  MaxDeliveries    \* bound: deliveries of one event before Stripe gives up

ASSUME WebhookAssumption ==
  /\ Kind \in [Events -> {"package", "subscription", "nothing"}]
  /\ WithCoupon \subseteq Events
  /\ NoEvent \notin Events
  /\ MaxDeliveries \in Nat

VARIABLES
  sent,          \* deliveries of each event so far
  acknowledged,  \* events Stripe was answered 200 for
  stored,        \* ids in StripeWebhookEvent
  processed,     \* those with a processedAt
  writes,        \* writes[e][x]: times the write x was committed for e
  pc, job,       \* each worker's position and event
  interrupted,   \* history: events whose handler failed before its writes were done
  swallowed,     \* history: events whose coupon redemption failed and was logged only
  turnedAway     \* history: events answered 200 with { received: false }

history == <<interrupted, swallowed, turnedAway>>
vars == <<sent, acknowledged, stored, processed, writes, pc, job, history>>

Effects == {"credits", "payment", "redemption"}

(* What onCheckoutCompleted commits in its first transaction.              *)
MainWrites(e) ==
  CASE Kind[e] = "package"      -> {"credits", "payment"}
    [] Kind[e] = "subscription" -> {"payment"}
    [] Kind[e] = "nothing"      -> {}

(* Mutation: the redemption attempted for package checkouts only. *)
RedeemsCoupon_package(e) == Kind[e] = "package" /\ e \in WithCoupon
(* The package branch returns before the redemption is reached.            *)
RedeemsCoupon(e) == Kind[e] = "subscription" /\ e \in WithCoupon

-----------------------------------------------------------------------------
Init ==
  /\ sent = [e \in Events |-> 0]
  /\ acknowledged = {}
  /\ stored = {}
  /\ processed = {}
  /\ writes = [e \in Events |-> [x \in Effects |-> 0]]
  /\ pc = [w \in Workers |-> "idle"]
  /\ job = [w \in Workers |-> NoEvent]
  /\ interrupted = {}
  /\ swallowed = {}
  /\ turnedAway = {}

Goto(w, from, to) == pc[w] = from /\ pc' = [pc EXCEPT ![w] = to]
Finish(w) == pc' = [pc EXCEPT ![w] = "idle"] /\ job' = [job EXCEPT ![w] = NoEvent]

Deliver(w, e) ==
  /\ sent[e] < MaxDeliveries
  /\ Goto(w, "idle", "received")
  /\ sent' = [sent EXCEPT ![e] = @ + 1]
  /\ job' = [job EXCEPT ![w] = e]
  /\ UNCHANGED <<acknowledged, stored, processed, writes, history>>

(* 200 { received: false }: no signature, no raw body, or constructEvent     *)
(* throws, as it does for every event while the secret of the webhook is not *)
(* set or is not the one Stripe signs with.  Nothing is stored, and Stripe  *)
(* takes the event for received.                                           *)
TurnAway(w) ==
  /\ pc[w] = "received"
  /\ acknowledged' = acknowledged \cup {job[w]}
  /\ turnedAway' = turnedAway \cup {job[w]}
  /\ Finish(w)
  /\ UNCHANGED <<sent, stored, processed, writes, interrupted, swallowed>>

(* Mutation: no unique key on the event's id. *)
Claim_repeated(w) ==
  /\ Goto(w, "received", "claimed")
  /\ stored' = stored \cup {job[w]}
  /\ UNCHANGED <<sent, acknowledged, processed, writes, job, history>>
(* The INSERT of the event's id: of two deliveries only one succeeds.      *)
Claim(w) ==
  /\ job[w] \notin stored
  /\ Goto(w, "received", "claimed")
  /\ stored' = stored \cup {job[w]}
  /\ UNCHANGED <<sent, acknowledged, processed, writes, job, history>>

(* Mutation: every error of the INSERT taken for a duplicate. *)
SkipDuplicate_anyError(w) ==
  /\ Goto(w, "received", "answering")
  /\ UNCHANGED <<sent, acknowledged, stored, processed, writes, job, history>>
(* Mutation: a duplicate that is not marked as processed is taken up again. *)
SkipDuplicate_resumed(w) ==
  /\ job[w] \in stored
  /\ Goto(w, "received", IF job[w] \in processed THEN "answering" ELSE "claimed")
  /\ UNCHANGED <<sent, acknowledged, stored, processed, writes, job, history>>
(* P2002: logged as a duplicate and skipped.                               *)
SkipDuplicate(w) ==
  /\ job[w] \in stored
  /\ Goto(w, "received", "answering")
  /\ UNCHANGED <<sent, acknowledged, stored, processed, writes, job, history>>

AddWrites(e, X) ==
  writes' = [writes EXCEPT ![e] = [x \in Effects |-> @[x] + (IF x \in X THEN 1 ELSE 0)]]

(* The credits with their Payment, or the Payment alone; notifications are  *)
(* sent best effort and cannot fail the handler.                            *)
Apply(w) ==
  /\ Goto(w, "claimed", IF RedeemsCoupon(job[w]) THEN "redeeming" ELSE "handled")
  /\ AddWrites(job[w], MainWrites(job[w]))
  /\ UNCHANGED <<sent, acknowledged, stored, processed, job, history>>

Redeem(w) ==
  /\ Goto(w, "redeeming", "handled")
  /\ AddWrites(job[w], {"redemption"})
  /\ UNCHANGED <<sent, acknowledged, stored, processed, job, history>>

(* "Failed to record coupon redemption": caught and logged.                *)
RedeemFails(w) ==
  /\ Goto(w, "redeeming", "handled")
  /\ swallowed' = swallowed \cup {job[w]}
  /\ UNCHANGED <<sent, acknowledged, stored, processed, writes, job, interrupted, turnedAway>>

(* Mutation: processedAt set as soon as the event is claimed. *)
MarkProcessed_early(w) ==
  /\ pc[w] \in {"claimed", "handled"}
  /\ pc' = [pc EXCEPT ![w] = "answering"]
  /\ processed' = processed \cup {job[w]}
  /\ UNCHANGED <<sent, acknowledged, stored, writes, job, history>>
MarkProcessed(w) ==
  /\ Goto(w, "handled", "answering")
  /\ processed' = processed \cup {job[w]}
  /\ UNCHANGED <<sent, acknowledged, stored, writes, job, history>>

(* 200 { received: true } reaches Stripe.                                  *)
Answer(w) ==
  /\ pc[w] = "answering"
  /\ acknowledged' = acknowledged \cup {job[w]}
  /\ Finish(w)
  /\ UNCHANGED <<sent, stored, processed, writes, history>>

(* A database error is rethrown and answered 500, the process dies, or the  *)
(* answer is lost: Stripe will deliver again.  The id stays in the table.   *)
Fail(w) ==
  /\ pc[w] # "idle"
  /\ interrupted' = IF pc[w] \in {"claimed", "redeeming"}
                      THEN interrupted \cup {job[w]} ELSE interrupted
  /\ Finish(w)
  /\ UNCHANGED <<sent, acknowledged, stored, processed, writes, swallowed, turnedAway>>

Handle(w) ==
  \/ Claim(w) \/ SkipDuplicate(w)
  \/ Apply(w) \/ Redeem(w) \/ RedeemFails(w)
  \/ MarkProcessed(w) \/ Answer(w)

Next ==
  \E w \in Workers : \/ \E e \in Events : Deliver(w, e)
                     \/ TurnAway(w)
                     \/ Handle(w)
                     \/ Fail(w)

(* A request in progress is carried on, and Stripe keeps delivering what it *)
(* has not been answered for.                                               *)
Retry(e) == e \notin acknowledged /\ \E w \in Workers : Deliver(w, e)
Fairness ==
  /\ \A w \in Workers : WF_vars(Handle(w))
  /\ \A e \in Events : WF_vars(Retry(e))

Spec == Init /\ [][Next]_vars /\ Fairness

-----------------------------------------------------------------------------
(* What the tables and the requests in progress hold. *)
TypeOK ==
  /\ sent \in [Events -> 0 .. MaxDeliveries]
  /\ acknowledged \subseteq Events
  /\ stored \subseteq Events
  /\ processed \subseteq Events
  /\ writes \in [Events -> [Effects -> Nat]]
  /\ pc \in [Workers -> {"idle", "received", "claimed", "redeeming", "handled",
                         "answering"}]
  /\ job \in [Workers -> Events \cup {NoEvent}]
  /\ interrupted \subseteq Events
  /\ swallowed \subseteq Events
  /\ turnedAway \subseteq Events

Handling(w) == pc[w] \in {"claimed", "redeeming", "handled"}
InProgress(e) == \E w \in Workers : Handling(w) /\ job[w] = e

Complete(e) ==
  /\ \A x \in MainWrites(e) : writes[e][x] > 0
  /\ RedeemsCoupon(e) => writes[e]["redemption"] > 0 \/ e \in swallowed

(* However often and however concurrently an event is delivered, and        *)
(* wherever handlers die, its credits, its payment and its redemption are   *)
(* written at most once (billing.service.ts, lines 706-721).                *)
AtMostOnce == \A e \in Events, x \in Effects : writes[e][x] <= 1

(* processedAt is only ever set on an event whose writes were all committed *)
(* (lines 725-751).                                                         *)
ProcessedIsComplete == \A e \in processed : Complete(e)

(* Turned away, and none of its deliveries got as far as the table. *)
Unseen(e) == e \in turnedAway \ stored

(* An event Stripe stops retrying has been applied or is being applied, or  *)
(* it was lost in one of two ways: a handler failed after inserting its id  *)
(* (billing.service.ts, lines 708-757), or the controller turned a delivery *)
(* away and no other one was let in (stripe-webhook.controller.ts, 36-55).  *)
(* One delivery let in is enough: the event is then held to the first part. *)
LossHasACause ==
  \A e \in acknowledged : \/ Complete(e) \/ InProgress(e)
                         \/ e \in interrupted \/ Unseen(e)

(* At most one worker is past the INSERT for an event; before its writes    *)
(* the event has none, and an event no worker is past it for is complete    *)
(* or interrupted.  The inductive part of the three properties above.       *)
OneClaimant ==
  /\ \A v, w \in Workers : Handling(v) /\ Handling(w) /\ job[v] = job[w] => v = w
  /\ \A w \in Workers :
       /\ pc[w] # "idle" => job[w] \in Events
       /\ pc[w] \in {"claimed", "redeeming", "handled", "answering"} => job[w] \in stored
       /\ pc[w] = "claimed" => \A x \in Effects : writes[job[w]][x] = 0
       /\ pc[w] = "redeeming" => /\ writes[job[w]]["redemption"] = 0
                                 /\ \A x \in MainWrites(job[w]) : writes[job[w]][x] > 0
       /\ pc[w] = "handled" => Complete(job[w])
  /\ \A e \in Events \ stored : \A x \in Effects : writes[e][x] = 0
  /\ acknowledged \subseteq stored \cup turnedAway
  /\ \A e \in stored : Complete(e) \/ InProgress(e) \/ e \in interrupted

IInv == TypeOK /\ AtMostOnce /\ ProcessedIsComplete /\ OneClaimant

(* Every event is applied in the end, unless a handler fails after claiming *)
(* it, Stripe has used up its deliveries, or one was turned away and none   *)
(* was let in.                                                             *)
EventuallyApplied ==
  \A e \in Events :
    <>(Complete(e) \/ e \in interrupted \/ sent[e] = MaxDeliveries \/ Unseen(e))

(* Seen from the tables, the deliveries and workers of an event are one      *)
(* handler that takes it once, writes in order and whole, and is never      *)
(* resumed once it has given up (Fulfilment).                              *)
Handler == INSTANCE Fulfilment WITH
  taken <- stored, busy <- {e \in Events : InProgress(e)}, waived <- swallowed,
  Grants <- [e \in Events |-> MainWrites(e)], Redeeming <- {e \in Events : RedeemsCoupon(e)}
FulfilsInTurn == Handler!Spec

(* What the controller relies on ("Return 500 so Stripe retries"): an event *)
(* answered { received: true } and in nobody's hands any more has had its   *)
(* effect.                                                                 *)
AcknowledgedIsApplied ==
  \A e \in acknowledged \ turnedAway : Complete(e) \/ InProgress(e)
=============================================================================
