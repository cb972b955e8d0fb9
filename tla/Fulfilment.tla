----------------------------- MODULE Fulfilment -----------------------------
(***************************************************************************)
(* What Stripe's webhook promises of one event, whatever the number of     *)
(* deliveries and of servers: the event is taken once, by one handler.     *)
(* What it grants is granted in one piece, a coupon is redeemed (or the    *)
(* redemption is waived) after that, and only a handler that has done all  *)
(* of it says so.  A handler may give up anywhere, and then nobody resumes: *)
(* what was not written by then never is.                                  *)
(***************************************************************************)
EXTENDS Naturals

CONSTANTS
  Events, Effects,
  Grants,       \* Grants[e]: what the event grants
  Redeeming     \* events that redeem a coupon, too

VARIABLES
  taken,        \* events a handler has taken
  busy,         \* those it still has in its hands
  writes,       \* writes[e][x]: how often the write x was committed for e
  waived,       \* events whose redemption failed and was let go
  processed     \* events marked as processed

vars == <<taken, busy, writes, waived, processed>>

Init ==
  /\ taken = {} /\ busy = {} /\ waived = {} /\ processed = {}
  /\ writes = [e \in Events |-> [x \in Effects |-> 0]]

Has(e, X) == \A x \in Effects : writes[e][x] = IF x \in X THEN 1 ELSE 0

Take(e) ==
  /\ e \notin taken
  /\ taken' = taken \cup {e} /\ busy' = busy \cup {e}
  /\ UNCHANGED <<writes, waived, processed>>

Grant(e) ==
  /\ e \in busy /\ Has(e, {})
  /\ writes' = [writes EXCEPT ![e] = [x \in Effects |-> IF x \in Grants[e] THEN 1 ELSE 0]]
  /\ UNCHANGED <<taken, busy, waived, processed>>

AtRedemption(e) == e \in busy /\ e \in Redeeming \ waived /\ Has(e, Grants[e])

Redeem(e) ==
  /\ AtRedemption(e)
  /\ writes' = [writes EXCEPT ![e]["redemption"] = 1]
  /\ UNCHANGED <<taken, busy, waived, processed>>

Waive(e) ==
  /\ AtRedemption(e)
  /\ waived' = waived \cup {e}
  /\ UNCHANGED <<taken, busy, writes, processed>>

Process(e) ==
  /\ e \in busy
  /\ Has(e, Grants[e] \cup IF e \in Redeeming \ waived THEN {"redemption"} ELSE {})
  /\ processed' = processed \cup {e} /\ busy' = busy \ {e}
  /\ UNCHANGED <<taken, writes, waived>>

GiveUp(e) ==
  /\ e \in busy /\ busy' = busy \ {e}
  /\ UNCHANGED <<taken, writes, waived, processed>>

Next == \E e \in Events : \/ Take(e) \/ Grant(e) \/ Redeem(e) \/ Waive(e)
                          \/ Process(e) \/ GiveUp(e)

Spec == Init /\ [][Next]_vars
=============================================================================
