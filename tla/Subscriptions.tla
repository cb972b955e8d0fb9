----------------------------- MODULE Subscriptions -----------------------------
(***************************************************************************)
(* The Subscription table as a copy of Stripe's: onSubscriptionEvent,      *)
(* onInvoicePaid, onInvoiceFailed, cancelMySubscription and                *)
(* cancelSubscriptionAdmin of BillingService.                              *)
(*                                                                         *)
(* Stripe numbers nothing: an event carries the subscription as it was and *)
(* may arrive in any order, several of them at the same time.  (That one   *)
(* event takes effect at most once is BillingWebhook's matter.)  n, the    *)
(* number of an event, is a history: the code never sees it.  A handler    *)
(* reads the row and writes it some statements later; so does a            *)
(* cancellation, with a call to Stripe in between.                         *)
(*                                                                         *)
(* Names that BillingWebhook has too carry the prefix Sub, because           *)
(* BillingProofs extends both modules.                                     *)
(***************************************************************************)
EXTENDS Integers, FiniteSets

CONSTANTS
  Subs,        \* subscriptions at Stripe, all of one user
  Clients,     \* requests the servers run concurrently
  MaxEvents,   \* bound: events Stripe emits for one subscription
  MaxCancels,  \* bound: cancellations begun in a behavior
  NoRow, NoRequest

ASSUME SubscriptionsAssumption == MaxEvents \in Nat /\ MaxCancels \in Nat

Live == {"incomplete", "trialing", "active", "past_due", "unpaid", "paused"}
Over == {"canceled", "incomplete_expired"}
SubscriptionStatus == {"TRIALING", "ACTIVE", "PAST_DUE", "CANCELED", "INCOMPLETE",
                       "INCOMPLETE_EXPIRED", "UNPAID"}
Current == {"ACTIVE", "TRIALING", "PAST_DUE"}
Kinds == {"snapshot", "paid", "failed"}
Cancels == {"mine", "period end", "immediate"}
Causes == {"late", "lost", "stale", "swallowed", "invoice"}

Rows == [status : SubscriptionStatus, cancelAt : BOOLEAN, made : Nat]
Copies == [status : Live \cup Over \cup {"none"}, cancelAt : BOOLEAN]
SubEvents == [sub : Subs, n : Nat, kind : Kinds, copy : Copies]
Requests == [op : Kinds \cup Cancels, sub : Subs, n : Nat \cup {-1}, copy : Copies,
             status : SubscriptionStatus,  \* of the row, as a cancellation read it
             found : BOOLEAN]              \* whether a handler found a row

ASSUME NullAssumption == NoRow \notin Rows /\ NoRequest \notin Requests

VARIABLES
  stripe,     \* each subscription as Stripe has it
  ours,       \* whether its metadata names a user and a plan
  emitted,    \* events Stripe emitted for it
  mail,       \* events that have not reached a handler
  rows,       \* the Subscription table
  collected,  \* invoices Stripe was paid
  recorded,   \* Payment rows of paid invoices
  stage, req, cancels,
  settled,    \* history: the latest event of status handled or lost
  why,        \* history: what disturbed the row since it took its newest snapshot
  missed      \* history: paid invoices lost, or handled before an event they follow

outside == <<stripe, ours, emitted, mail, collected>>
subHistory == <<settled, why, missed>>
subVars == <<outside, rows, recorded, stage, req, cancels, subHistory>>

SubInit ==
  /\ stripe = [s \in Subs |-> [status |-> "none", cancelAt |-> FALSE]]
  /\ ours \in [Subs -> BOOLEAN]
  /\ emitted = [s \in Subs |-> 0] /\ mail = {}
  /\ rows = [s \in Subs |-> NoRow]
  /\ collected = [s \in Subs |-> 0] /\ recorded = [s \in Subs |-> 0]
  /\ stage = [c \in Clients |-> "idle"] /\ req = [c \in Clients |-> NoRequest]
  /\ cancels = 0
  /\ settled = [s \in Subs |-> 0] /\ why = [s \in Subs |-> {}]
  /\ missed = [s \in Subs |-> 0]

-----------------------------------------------------------------------------
(* Stripe: what a subscription may go through, and the events it emits.     *)
Event(s, n, kind) == [sub |-> s, n |-> emitted[s] + n, kind |-> kind, copy |-> stripe'[s]]

Emit(s, kinds) ==
  /\ emitted[s] + Cardinality(kinds) <= MaxEvents
  /\ emitted' = [emitted EXCEPT ![s] = @ + Cardinality(kinds)]
  /\ \E place \in [kinds -> 1 .. Cardinality(kinds)] :
       /\ \A j, k \in kinds : j # k => place[j] # place[k]
       /\ mail' = mail \cup {Event(s, place[k], k) : k \in kinds}

Become(s, status, cancelAt) ==
  stripe' = [stripe EXCEPT ![s] = [status |-> status, cancelAt |-> cancelAt]]

Subscribe(s, status) ==
  /\ stripe[s].status = "none"
  /\ Become(s, status, FALSE) /\ Emit(s, {"snapshot"})
  /\ UNCHANGED collected

Collect(s) ==
  /\ stripe[s].status \in Live
  /\ Become(s, "active", stripe[s].cancelAt) /\ Emit(s, {"snapshot", "paid"})
  /\ collected' = [collected EXCEPT ![s] = @ + 1]

ChargeFails(s) ==
  /\ \/ /\ stripe[s].status = "incomplete"
        /\ UNCHANGED stripe /\ Emit(s, {"failed"})
     \/ /\ stripe[s].status \in {"active", "trialing"}
        /\ Become(s, "past_due", stripe[s].cancelAt) /\ Emit(s, {"snapshot", "failed"})
     \/ /\ stripe[s].status = "past_due"
        /\ \E status \in {"unpaid", "canceled"} : Become(s, status, stripe[s].cancelAt)
        /\ Emit(s, {"snapshot", "failed"})
  /\ UNCHANGED collected

(* The portal, Stripe's dashboard, or the end of a period.                  *)
Change(s) ==
  /\ stripe[s].status \in Live
  /\ \/ Become(s, stripe[s].status, ~ stripe[s].cancelAt)
     \/ \E status \in Over \cup {"paused"} : Become(s, status, stripe[s].cancelAt)
  /\ stripe' # stripe /\ Emit(s, {"snapshot"})
  /\ UNCHANGED collected

Stripe ==
  /\ \E s \in Subs : \/ \E status \in {"incomplete", "trialing"} : Subscribe(s, status)
                     \/ Collect(s) \/ ChargeFails(s) \/ Change(s)
  /\ UNCHANGED <<ours, rows, recorded, stage, req, cancels, subHistory>>

-----------------------------------------------------------------------------
(* Stripe's statuses as the table names them; paused has no name there. *)
MapSubStatus(status) ==
  CASE status = "active" -> "ACTIVE"
    [] status = "trialing" -> "TRIALING"
    [] status = "past_due" -> "PAST_DUE"
    [] status = "canceled" -> "CANCELED"
    [] status = "incomplete_expired" -> "INCOMPLETE_EXPIRED"
    [] status = "unpaid" -> "UNPAID"
    [] OTHER -> "INCOMPLETE"

Has(s) == rows[s] # NoRow

Idle(c) == stage' = [stage EXCEPT ![c] = "idle"] /\ req' = [req EXCEPT ![c] = NoRequest]

(* Events of s with a smaller number that have not taken effect.            *)
Outstanding(s, n) ==
  \/ \E e \in mail : e.sub = s /\ e.n < n
  \/ \E d \in Clients : /\ req[d] # NoRequest /\ req[d].op \in Kinds
                        /\ req[d].sub = s /\ req[d].n < n

Settle(s, n) == settled' = [settled EXCEPT ![s] = IF n > @ THEN n ELSE @]

(* Mutation: only the invoices of active subscriptions are handled. *)
Ignores_inactive(e) ==
  IF e.kind = "snapshot" THEN ~ ours[e.sub]
  ELSE ~ Has(e.sub) \/ rows[e.sub].status # "ACTIVE"
(* What ends at once: an event of a subscription that names no user or plan, *)
(* an invoice of one that has no row.                                       *)
Ignores(e) == IF e.kind = "snapshot" THEN ~ ours[e.sub] ELSE ~ Has(e.sub)

(* A handler takes an event and looks its row up.                           *)
Receive(c, e) ==
  LET s == e.sub IN
  /\ stage[c] = "idle" /\ e \in mail
  /\ mail' = mail \ {e}
  /\ IF Ignores(e)
     THEN /\ missed' = IF /\ e.kind = "paid"
                          /\ ~ ours[s] \/ Outstanding(s, e.n) \/ "lost" \in why[s]
                       THEN [missed EXCEPT ![s] = @ + 1] ELSE missed
          /\ UNCHANGED <<stage, req>>
     ELSE /\ stage' = [stage EXCEPT ![c] = "handling"]
          /\ req' = [req EXCEPT ![c] = [op |-> e.kind, sub |-> s, n |-> e.n,
                                        copy |-> e.copy, status |-> "INCOMPLETE",
                                        found |-> Has(s)]]
          /\ UNCHANGED missed
  /\ UNCHANGED <<stripe, ours, emitted, collected, rows, recorded, cancels, settled, why>>

(* Mutation: no cancellation date leaves the old one standing. *)
Snapshot_undefined(c, made) ==
  [status |-> MapSubStatus(req[c].copy.status),
   cancelAt |-> req[c].copy.cancelAt \/ (Has(req[c].sub) /\ rows[req[c].sub].cancelAt),
   made |-> made]
Snapshot(c, made) ==
  [status |-> MapSubStatus(req[c].copy.status), cancelAt |-> req[c].copy.cancelAt,
   made |-> made]

(* onSubscriptionEvent: a second row of one subscription is refused, and the *)
(* event is lost.                                                           *)
OnSubscriptionEvent(c) ==
  LET s == req[c].sub IN
  /\ stage[c] = "handling" /\ req[c].op = "snapshot"
  /\ IF req[c].found \/ ~ Has(s)
     THEN /\ rows' = [rows EXCEPT ![s] = Snapshot(c,
                        IF Has(s) THEN @.made ELSE Cardinality({t \in Subs : Has(t)}))]
          /\ why' = [why EXCEPT ![s] = IF req[c].n > settled[s] THEN {} ELSE @ \cup {"late"}]
     ELSE why' = [why EXCEPT ![s] = @ \cup {"lost"}] /\ UNCHANGED rows
  /\ Settle(s, req[c].n)
  /\ Idle(c)
  /\ UNCHANGED <<outside, recorded, cancels, missed>>

(* onInvoicePaid and onInvoiceFailed, when the row was found.               *)
OnInvoicePaid(c) ==
  /\ stage[c] = "handling" /\ req[c].op = "paid"
  /\ recorded' = [recorded EXCEPT ![req[c].sub] = @ + 1]
  /\ Idle(c)
  /\ UNCHANGED <<outside, rows, cancels, subHistory>>

OnInvoiceFailed(c) ==
  LET s == req[c].sub IN
  /\ stage[c] = "handling" /\ req[c].op = "failed"
  /\ rows' = [rows EXCEPT ![s].status = "PAST_DUE"]
  /\ why' = [why EXCEPT ![s] = @ \cup {IF req[c].n > settled[s] THEN "invoice" ELSE "late"}]
  /\ Settle(s, req[c].n)
  /\ Idle(c)
  /\ UNCHANGED <<outside, recorded, cancels, missed>>

-----------------------------------------------------------------------------
(* cancelMySubscription takes the user's newest current row,                *)
(* cancelSubscriptionAdmin any row, whatever its status.                    *)
Newest(s) == \A t \in Subs : Has(t) /\ rows[t].status \in Current => rows[t].made <= rows[s].made

BeginCancel(c, op, s) ==
  /\ stage[c] = "idle" /\ cancels < MaxCancels /\ cancels' = cancels + 1
  /\ Has(s)
  /\ op = "mine" => rows[s].status \in Current /\ Newest(s)
  /\ stage' = [stage EXCEPT ![c] = "cancelling"]
  /\ req' = [req EXCEPT ![c] = [op |-> op, sub |-> s, n |-> 0, copy |-> stripe[s],
                                status |-> rows[s].status, found |-> TRUE]]
  /\ UNCHANGED <<outside, rows, recorded, subHistory>>

(* stripe.cancelSubscription: Stripe refuses to touch a subscription that is *)
(* over, and may fail; it may also carry the call out and its answer be lost. *)
CallStripe(c, answered) ==
  LET r == req[c]
      s == r.sub IN
  /\ stage[c] = "cancelling"
  /\ stripe[s].status \in Live
  /\ IF r.op = "immediate" THEN Become(s, "canceled", stripe[s].cancelAt)
                           ELSE Become(s, stripe[s].status, TRUE)
  /\ IF stripe' = stripe THEN UNCHANGED <<emitted, mail>> ELSE Emit(s, {"snapshot"})
  /\ IF answered \/ r.op # "mine"
     THEN /\ stage' = [stage EXCEPT ![c] = "marking"]
          /\ req' = [req EXCEPT ![c].n = emitted'[s]]
     ELSE Idle(c)
  /\ UNCHANGED <<ours, collected, rows, recorded, cancels, subHistory>>

(* The user's request fails with Stripe; the administrator's goes on.       *)
StripeFails(c) ==
  /\ stage[c] = "cancelling"
  /\ IF req[c].op = "mine"
     THEN Idle(c)
     ELSE /\ stage' = [stage EXCEPT ![c] = "marking"]
          /\ req' = [req EXCEPT ![c].n = -1]
  /\ UNCHANGED <<outside, rows, recorded, cancels, subHistory>>

(* The row is marked; the administrator's request writes back the status it *)
(* has read.  A write is stale if the row has moved on.                     *)
Mark(c) ==
  LET r == req[c]
      s == r.sub
      status == CASE r.op = "immediate" -> "CANCELED"
                  [] r.op = "period end" -> r.status
                  [] r.op = "mine" -> rows[s].status IN
  /\ stage[c] = "marking"
  /\ rows' = [rows EXCEPT ![s].status = status, ![s].cancelAt = TRUE]
  /\ why' = [why EXCEPT ![s] =
       @ \cup (IF r.n = -1 THEN {"swallowed"} ELSE {})
         \cup (IF r.n # -1 /\ (settled[s] > r.n \/ (r.op = "period end" /\ rows[s].status # r.status))
               THEN {"stale"} ELSE {})]
  /\ Idle(c)
  /\ UNCHANGED <<outside, recorded, cancels, settled, missed>>

(* A handler or a request that ends early: an event is not handled again.   *)
(* An event turned away before it is handled has the same outcome.         *)
SubFail(c) ==
  LET s == req[c].sub IN
  /\ stage[c] # "idle"
  /\ why' = IF req[c].op \in {"snapshot", "failed"} THEN [why EXCEPT ![s] = @ \cup {"lost"}] ELSE why
  /\ missed' = IF req[c].op = "paid" THEN [missed EXCEPT ![s] = @ + 1] ELSE missed
  /\ IF req[c].op \in {"snapshot", "failed"} THEN Settle(s, req[c].n) ELSE UNCHANGED settled
  /\ Idle(c)
  /\ UNCHANGED <<outside, rows, recorded, cancels>>

-----------------------------------------------------------------------------
Server(c) ==
  \/ \E e \in mail : Receive(c, e)
  \/ OnSubscriptionEvent(c) \/ OnInvoicePaid(c) \/ OnInvoiceFailed(c)
  \/ \E op \in Cancels, s \in Subs : BeginCancel(c, op, s)
  \/ \E answered \in BOOLEAN : CallStripe(c, answered)
  \/ StripeFails(c) \/ Mark(c) \/ SubFail(c)

SubNext == Stripe \/ \E c \in Clients : Server(c)

SubSpec == SubInit /\ [][SubNext]_subVars

-----------------------------------------------------------------------------
(* What the tables and the requests in progress hold. *)
SubTypeOK ==
  /\ stripe \in [Subs -> Copies] /\ ours \in [Subs -> BOOLEAN]
  /\ emitted \in [Subs -> 0 .. MaxEvents] /\ mail \subseteq SubEvents
  /\ rows \in [Subs -> Rows \cup {NoRow}]
  /\ collected \in [Subs -> Nat] /\ recorded \in [Subs -> Nat]
  /\ stage \in [Clients -> {"idle", "handling", "cancelling", "marking"}]
  /\ req \in [Clients -> Requests \cup {NoRequest}]
  /\ cancels \in 0 .. MaxCancels
  /\ settled \in [Subs -> Nat] /\ why \in [Subs -> SUBSET Causes] /\ missed \in [Subs -> Nat]

AtRest(s) ==
  /\ \A e \in mail : e.sub # s
  /\ \A c \in Clients : req[c] # NoRequest => req[c].sub # s

(* Once everything Stripe sent about a subscription has been handled, the row *)
(* shows what Stripe has - PAST_DUE after a failed invoice apart - unless,   *)
(* since its newest snapshot, an event came late or was lost, a cancellation *)
(* wrote over a row that had moved on, or Stripe's error was swallowed.      *)
RowFollowsStripe ==
  \A s \in Subs : AtRest(s) /\ emitted[s] > 0 /\ why[s] \subseteq {"invoice"} =>
    IF ~ ours[s] THEN ~ Has(s)
    ELSE /\ Has(s)
         /\ \/ rows[s].status = MapSubStatus(stripe[s].status)
            \/ "invoice" \in why[s] /\ rows[s].status = "PAST_DUE"
         /\ stripe[s].status \in Live => rows[s].cancelAt = stripe[s].cancelAt

(* Every invoice Stripe was paid has its Payment row in the end, unless its  *)
(* handler failed, or was run before an event that came first had been      *)
(* handled, or after one that was lost; and there is never one too many.     *)
InvoicesAreRecorded ==
  \A s \in Subs : /\ recorded[s] + missed[s] <= collected[s]
                  /\ AtRest(s) => recorded[s] + missed[s] = collected[s]
=============================================================================
