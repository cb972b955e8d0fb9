----------------------------- MODULE BillingProofs -----------------------------
(***************************************************************************)
(* The safety of the two billing components that copy Stripe: BillingWebhook *)
(* for every set of events and workers, and Subscriptions for every set of  *)
(* subscriptions and clients and every number of events and cancellations.  *)
(***************************************************************************)
EXTENDS BillingWebhook, Subscriptions, FiniteSetTheorems, TLAPS

-----------------------------------------------------------------------------
(* BillingWebhook *)

LEMMA MainWritesAreEffects ==
  ASSUME NEW e \in Events
  PROVE  MainWrites(e) \subseteq Effects \ {"redemption"}
  <1>1. Kind[e] \in {"package", "subscription", "nothing"}
    BY WebhookAssumption
  <1>. QED  BY <1>1 DEF MainWrites, Effects

LEMMA InitIInv == Init => IInv
  BY WebhookAssumption
  DEF Init, IInv, TypeOK, AtMostOnce, ProcessedIsComplete, OneClaimant, Handling,
      Effects

(* Completeness is not undone.                                             *)
LEMMA CompleteStays ==
  ASSUME TypeOK, NEW e \in Events, Complete(e), swallowed \subseteq swallowed',
         \A x \in Effects : writes[e][x] > 0 => writes'[e][x] > 0
  PROVE  Complete(e)'
  BY MainWritesAreEffects DEF Complete, TypeOK, Effects

LEMMA DeliverPreserves ==
  ASSUME IInv, NEW w \in Workers, NEW e \in Events, Deliver(w, e)  PROVE IInv'
  <1>. USE DEF Deliver, Goto, history
  <1>1. TypeOK'
    BY WebhookAssumption DEF IInv, TypeOK
  <1>2. \A f \in Events : Complete(f)' <=> Complete(f)
    BY DEF Complete
  <1>3. AtMostOnce' /\ ProcessedIsComplete'
    BY <1>2 DEF IInv, AtMostOnce, ProcessedIsComplete, Complete
  <1>4. \A v \in Workers : Handling(v)' <=> Handling(v)
    BY DEF IInv, TypeOK, Handling
  <1>5. \A v \in Workers : Handling(v) => job'[v] = job[v]
    BY DEF IInv, TypeOK, Handling
  <1>6. \A f \in Events : InProgress(f) => InProgress(f)'
    BY <1>4, <1>5 DEF InProgress
  <1>7. OneClaimant'
    BY <1>2, <1>4, <1>5, <1>6 DEF IInv, TypeOK, OneClaimant, Handling, Complete
  <1>. QED  BY <1>1, <1>3, <1>7 DEF IInv

LEMMA ClaimPreserves ==
  ASSUME IInv, NEW w \in Workers, Claim(w)  PROVE IInv'
  <1>. USE DEF Claim, Goto, history
  <1>0. job[w] \in Events
    BY DEF IInv, OneClaimant
  <1>1. TypeOK'
    BY <1>0 DEF IInv, TypeOK
  <1>2. \A f \in Events : Complete(f)' <=> Complete(f)
    BY DEF Complete
  <1>3. AtMostOnce' /\ ProcessedIsComplete'
    BY <1>2 DEF IInv, AtMostOnce, ProcessedIsComplete, Complete
  <1>4. \A v \in Workers : Handling(v)' <=> (Handling(v) \/ v = w)
    BY DEF IInv, TypeOK, Handling
  <1>5. \A v \in Workers : Handling(v) => job[v] \in stored
    BY DEF IInv, OneClaimant, Handling
  <1>6. \A f \in Events : InProgress(f)' <=> (InProgress(f) \/ f = job[w])
    BY <1>4 DEF InProgress
  <1>7. OneClaimant'
    BY <1>0, <1>2, <1>4, <1>5, <1>6
    DEF IInv, TypeOK, OneClaimant, Complete
  <1>. QED  BY <1>1, <1>3, <1>7 DEF IInv

LEMMA SkipPreserves ==
  ASSUME IInv, NEW w \in Workers, SkipDuplicate(w)  PROVE IInv'
  <1>. USE DEF SkipDuplicate, Goto, history
  <1>1. TypeOK'
    BY DEF IInv, TypeOK
  <1>2. \A f \in Events : Complete(f)' <=> Complete(f)
    BY DEF Complete
  <1>3. AtMostOnce' /\ ProcessedIsComplete'
    BY <1>2 DEF IInv, AtMostOnce, ProcessedIsComplete, Complete
  <1>4. \A v \in Workers : Handling(v)' <=> Handling(v)
    BY DEF IInv, TypeOK, Handling
  <1>5. \A f \in Events : InProgress(f)' <=> InProgress(f)
    BY <1>4 DEF InProgress
  <1>6. OneClaimant'
    BY <1>2, <1>4, <1>5 DEF IInv, TypeOK, OneClaimant
  <1>. QED  BY <1>1, <1>3, <1>6 DEF IInv

(* A worker that has claimed an event adds writes the event did not have.  *)
LEMMA WritingPreserves ==
  ASSUME IInv, NEW w \in Workers, NEW X \in SUBSET Effects, NEW next \in {"redeeming", "handled"},
         Handling(w), pc' = [pc EXCEPT ![w] = next], AddWrites(job[w], X),
         swallowed \subseteq swallowed', swallowed' \subseteq Events,
         UNCHANGED <<sent, acknowledged, stored, processed, job, interrupted, turnedAway>>,
         \A x \in X : writes[job[w]][x] = 0,
         next = "redeeming" => /\ MainWrites(job[w]) \subseteq X
                               /\ "redemption" \notin X
                               /\ writes[job[w]]["redemption"] = 0,
         next = "handled" => Complete(job[w])'
  PROVE  IInv'
  <1>. DEFINE e == job[w]
  <1>0. e \in Events /\ e \in stored /\ Effects # {}
    BY DEF IInv, OneClaimant, Handling, Effects
  <1>1. /\ writes' \in [Events -> [Effects -> Nat]]
        /\ \A f \in Events \ {e} : writes'[f] = writes[f]
        /\ \A x \in Effects : writes'[e][x] = writes[e][x] + (IF x \in X THEN 1 ELSE 0)
    BY <1>0 DEF IInv, TypeOK, AddWrites
  <1>2. \A f \in Events, x \in Effects :
          writes[f][x] \in Nat /\ (writes[f][x] > 0 => writes'[f][x] > 0)
    BY <1>0, <1>1 DEF IInv, TypeOK
  <1>3. TypeOK'
    BY <1>1 DEF IInv, TypeOK
  <1>4. \A f \in Events : Complete(f) => Complete(f)'
    BY <1>2, CompleteStays DEF IInv
  <1>5. AtMostOnce'
    BY <1>1, <1>2 DEF IInv, AtMostOnce
  <1>6. ProcessedIsComplete'
    BY <1>4 DEF IInv, TypeOK, ProcessedIsComplete
  <1>7. \A v \in Workers : Handling(v)' <=> Handling(v)
    BY DEF IInv, TypeOK, Handling
  <1>8. \A f \in Events : InProgress(f)' <=> InProgress(f)
    BY <1>7 DEF InProgress
  <1>9. \A v \in Workers \ {w} : Handling(v) => job[v] # e
    BY DEF IInv, OneClaimant
  <1>10. OneClaimant'
    <2>1. \A v \in Workers \ {w} :
            pc'[v] = pc[v] /\ (Handling(v) => writes'[job[v]] = writes[job[v]])
      BY <1>1, <1>9 DEF IInv, TypeOK, OneClaimant, Handling
    <2>2. \A u, v \in Workers :
            Handling(u)' /\ Handling(v)' /\ job'[u] = job'[v] => u = v
      BY <1>7 DEF IInv, OneClaimant
    <2>3. ASSUME NEW v \in Workers
          PROVE  /\ pc'[v] # "idle" => job'[v] \in Events
                 /\ pc'[v] \in {"claimed", "redeeming", "handled", "answering"}
                      => job'[v] \in stored'
                 /\ pc'[v] = "claimed" => \A x \in Effects : writes'[job'[v]][x] = 0
                 /\ pc'[v] = "redeeming" =>
                      /\ writes'[job'[v]]["redemption"] = 0
                      /\ \A x \in MainWrites(job'[v]) : writes'[job'[v]][x] > 0
                 /\ pc'[v] = "handled" => Complete(job[v])'
      <3>1. CASE v = w
        <4>1. pc'[w] = next /\ job'[w] = e
          BY DEF IInv, TypeOK
        <4>2. CASE next = "handled"
          BY <1>0, <3>1, <4>1, <4>2
        <4>3. CASE next = "redeeming"
          <5>1. "redemption" \in Effects /\ MainWrites(e) \subseteq X
            BY <4>3 DEF Effects
          <5>2. writes'[e]["redemption"] = 0
            BY <1>1, <4>3, <5>1
          <5>3. \A x \in MainWrites(e) : writes'[e][x] > 0
            BY <1>1, <1>2, <1>0, <5>1
          <5>. QED  BY <1>0, <3>1, <4>1, <4>3, <5>2, <5>3
        <4>. QED  BY <4>2, <4>3
      <3>2. CASE v # w
        BY <1>4, <2>1, <3>2 DEF IInv, TypeOK, OneClaimant, Handling
      <3>. QED  BY <3>1, <3>2
    <2>4. \A f \in Events \ stored' : \A x \in Effects : writes'[f][x] = 0
      BY <1>0, <1>1 DEF IInv, OneClaimant
    <2>5. \A f \in stored' : Complete(f)' \/ InProgress(f)' \/ f \in interrupted'
      BY <1>4, <1>8 DEF IInv, TypeOK, OneClaimant
    <2>6. acknowledged' \subseteq stored' \cup turnedAway'
      BY DEF IInv, OneClaimant
    <2>. QED  BY <2>2, <2>3, <2>4, <2>5, <2>6 DEF OneClaimant
  <1>. QED  BY <1>3, <1>5, <1>6, <1>10 DEF IInv

LEMMA ApplyPreserves ==
  ASSUME IInv, NEW w \in Workers, Apply(w)  PROVE IInv'
  <1>. DEFINE e == job[w]
              X == MainWrites(e)
              next == IF RedeemsCoupon(e) THEN "redeeming" ELSE "handled"
  <1>1. /\ pc[w] = "claimed" /\ Handling(w)
        /\ pc' = [pc EXCEPT ![w] = next]
        /\ AddWrites(job[w], X)
        /\ UNCHANGED <<sent, acknowledged, stored, processed, job, interrupted, swallowed, turnedAway>>
    BY DEF Apply, Goto, Handling, history
  <1>2. e \in Events /\ \A x \in Effects : writes[e][x] = 0
    BY <1>1 DEF IInv, OneClaimant
  <1>3. X \subseteq Effects \ {"redemption"} /\ "redemption" \in Effects
    BY <1>2, MainWritesAreEffects DEF Effects
  <1>4. next = "handled" => Complete(job[w])'
    <2>1. \A x \in X : writes'[e][x] > 0
      BY <1>1, <1>2, <1>3 DEF AddWrites, IInv, TypeOK
    <2>2. next = "handled" => ~ RedeemsCoupon(e)
      OBVIOUS
    <2>. QED  BY <1>1, <2>1, <2>2 DEF Complete
  <1>5. next \in {"redeeming", "handled"}
    OBVIOUS
  <1>6. swallowed \subseteq swallowed' /\ swallowed' \subseteq Events
    BY <1>1 DEF IInv, TypeOK
  <1>7. /\ \A x \in X : writes[job[w]][x] = 0
        /\ next = "redeeming" => /\ MainWrites(job[w]) \subseteq X
                                 /\ "redemption" \notin X
                                 /\ writes[job[w]]["redemption"] = 0
    BY <1>2, <1>3
  <1>8. X \in SUBSET Effects
    BY <1>3
  <1>. HIDE DEF X, next
  <1>. QED  BY <1>1, <1>4, <1>5, <1>6, <1>7, <1>8, WritingPreserves

LEMMA RedeemPreserves ==
  ASSUME IInv, NEW w \in Workers, Redeem(w)  PROVE IInv'
  <1>. DEFINE e == job[w]
              X == {"redemption"}
  <1>1. /\ pc[w] = "redeeming" /\ Handling(w)
        /\ pc' = [pc EXCEPT ![w] = "handled"]
        /\ AddWrites(job[w], X)
        /\ UNCHANGED <<sent, acknowledged, stored, processed, job, interrupted, swallowed, turnedAway>>
    BY DEF Redeem, Goto, Handling, history
  <1>2. /\ e \in Events /\ writes[e]["redemption"] = 0
        /\ \A x \in MainWrites(e) : writes[e][x] > 0
    BY <1>1 DEF IInv, OneClaimant
  <1>3. MainWrites(e) \subseteq Effects /\ X \in SUBSET Effects
    BY <1>2, MainWritesAreEffects DEF Effects
  <1>4. Complete(job[w])'
    <2>1. \A x \in Effects : writes'[e][x] = writes[e][x] + (IF x \in X THEN 1 ELSE 0)
      BY <1>1, <1>2 DEF AddWrites, IInv, TypeOK
    <2>2. \A x \in Effects : writes[e][x] \in Nat
      BY <1>2 DEF IInv, TypeOK
    <2>3. \A x \in MainWrites(e) : writes'[e][x] > 0
      BY <1>2, <1>3, <2>1, <2>2
    <2>4. writes'[e]["redemption"] > 0
      BY <1>2, <2>1 DEF Effects
    <2>. QED  BY <1>1, <2>3, <2>4 DEF Complete
  <1>5. swallowed \subseteq swallowed' /\ swallowed' \subseteq Events
    BY <1>1 DEF IInv, TypeOK
  <1>6. \A x \in X : writes[job[w]][x] = 0
    BY <1>2
  <1>. HIDE DEF X
  <1>. QED  BY <1>1, <1>3, <1>4, <1>5, <1>6, WritingPreserves

LEMMA RedeemFailsPreserves ==
  ASSUME IInv, NEW w \in Workers, RedeemFails(w)  PROVE IInv'
  <1>. DEFINE e == job[w]
  <1>1. /\ pc[w] = "redeeming" /\ Handling(w)
        /\ pc' = [pc EXCEPT ![w] = "handled"]
        /\ swallowed' = swallowed \cup {e}
        /\ UNCHANGED <<sent, acknowledged, stored, processed, writes, job, interrupted, turnedAway>>
    BY DEF RedeemFails, Goto, Handling
  <1>2. e \in Events /\ \A x \in MainWrites(e) : writes[e][x] > 0
    BY <1>1 DEF IInv, OneClaimant
  <1>3. AddWrites(job[w], {})
    <2>1. writes \in [Events -> [Effects -> Nat]]
      BY DEF IInv, TypeOK
    <2>2. writes[e] = [x \in Effects |-> writes[e][x] + (IF x \in {} THEN 1 ELSE 0)]
      BY <1>2, <2>1
    <2>. QED  BY <1>1, <1>2, <2>1, <2>2 DEF AddWrites
  <1>4. Complete(job[w])'
    BY <1>1, <1>2 DEF Complete
  <1>5. swallowed \subseteq swallowed' /\ swallowed' \subseteq Events
    BY <1>1, <1>2 DEF IInv, TypeOK
  <1>. DEFINE X == {}
  <1>6. /\ X \in SUBSET Effects /\ AddWrites(job[w], X)
        /\ \A x \in X : writes[job[w]][x] = 0
    BY <1>3
  <1>. HIDE DEF X
  <1>. QED  BY <1>1, <1>4, <1>5, <1>6, WritingPreserves

(* A worker that is past its writes, or fails, leaves the event to its      *)
(* record: nothing is written any more.                                    *)
LEMMA LeavingPreserves ==
  ASSUME IInv, NEW w \in Workers, NEW next \in {"idle", "answering"},
         pc[w] # "idle",
         pc' = [pc EXCEPT ![w] = next],
         next = "answering" => pc[w] = "handled" /\ job' = job,
         next = "idle" => job' = [job EXCEPT ![w] = NoEvent],
         UNCHANGED <<sent, stored, writes, swallowed>>,
         acknowledged' \subseteq stored \cup turnedAway', turnedAway' \subseteq Events,
         processed \subseteq processed', processed' \subseteq processed \cup {job[w]},
         processed' # processed => pc[w] = "handled",
         interrupted \subseteq interrupted', interrupted' \subseteq Events,
         pc[w] \in {"claimed", "redeeming"} => job[w] \in interrupted'
  PROVE  IInv'
  <1>. DEFINE e == job[w]
  <1>0. e \in Events /\ (pc[w] = "handled" => Complete(e))
    BY DEF IInv, OneClaimant
  <1>1. TypeOK'
    BY <1>0 DEF IInv, TypeOK
  <1>2. \A f \in Events : Complete(f)' <=> Complete(f)
    BY DEF Complete
  <1>3. AtMostOnce' /\ ProcessedIsComplete'
    BY <1>0, <1>2 DEF IInv, TypeOK, AtMostOnce, ProcessedIsComplete
  <1>4. \A v \in Workers : Handling(v)' <=> Handling(v) /\ v # w
    BY DEF IInv, TypeOK, Handling
  <1>5. \A v \in Workers \ {w} : pc'[v] = pc[v] /\ job'[v] = job[v]
    BY DEF IInv, TypeOK
  <1>6. \A f \in Events : InProgress(f)' \/ (InProgress(f) => f = e /\ Handling(w))
    BY <1>4, <1>5 DEF InProgress
  <1>7. OneClaimant'
    <2>1. \A u, v \in Workers :
            Handling(u)' /\ Handling(v)' /\ job'[u] = job'[v] => u = v
      BY <1>4, <1>5 DEF IInv, OneClaimant
    <2>2. /\ pc'[w] = next
          /\ next = "answering" => job'[w] = e /\ e \in stored
      BY DEF IInv, TypeOK, OneClaimant
    <2>3. ASSUME NEW v \in Workers
          PROVE  /\ pc'[v] # "idle" => job'[v] \in Events
                 /\ pc'[v] \in {"claimed", "redeeming", "handled", "answering"}
                      => job'[v] \in stored'
                 /\ pc'[v] = "claimed" => \A x \in Effects : writes'[job'[v]][x] = 0
                 /\ pc'[v] = "redeeming" =>
                      /\ writes'[job'[v]]["redemption"] = 0
                      /\ \A x \in MainWrites(job'[v]) : writes'[job'[v]][x] > 0
                 /\ pc'[v] = "handled" => Complete(job[v])'
      <3>1. CASE v = w
        BY <1>0, <2>2, <3>1
      <3>2. CASE v # w
        BY <1>2, <1>5, <3>2 DEF IInv, OneClaimant
      <3>. QED  BY <3>1, <3>2
    <2>4. \A f \in Events \ stored' : \A x \in Effects : writes'[f][x] = 0
      BY DEF IInv, OneClaimant
    <2>5. ASSUME NEW f \in stored'
          PROVE  Complete(f)' \/ InProgress(f)' \/ f \in interrupted'
      <3>1. f \in Events /\ (Complete(f) \/ InProgress(f) \/ f \in interrupted)
        BY DEF IInv, TypeOK, OneClaimant
      <3>2. Handling(w) => Complete(e) \/ e \in interrupted'
        BY <1>0 DEF Handling
      <3>. QED  BY <1>2, <1>6, <3>1, <3>2
    <2>6. acknowledged' \subseteq stored' \cup turnedAway'
      OBVIOUS
    <2>. QED  BY <2>1, <2>3, <2>4, <2>5, <2>6 DEF OneClaimant
  <1>. QED  BY <1>1, <1>3, <1>7 DEF IInv

LEMMA MarkProcessedPreserves ==
  ASSUME IInv, NEW w \in Workers, MarkProcessed(w)  PROVE IInv'
  <1>1. /\ pc[w] = "handled" /\ pc' = [pc EXCEPT ![w] = "answering"] /\ job' = job
        /\ processed' = processed \cup {job[w]}
        /\ UNCHANGED <<sent, acknowledged, stored, writes, interrupted, swallowed, turnedAway>>
    BY DEF MarkProcessed, Goto, history
  <1>2. /\ acknowledged' \subseteq stored \cup turnedAway' /\ turnedAway' \subseteq Events
        /\ interrupted' \subseteq Events
    BY <1>1 DEF IInv, TypeOK, OneClaimant
  <1>. QED  BY <1>1, <1>2, LeavingPreserves

LEMMA AnswerPreserves ==
  ASSUME IInv, NEW w \in Workers, Answer(w)  PROVE IInv'
  <1>1. /\ pc[w] = "answering" /\ pc' = [pc EXCEPT ![w] = "idle"]
        /\ job' = [job EXCEPT ![w] = NoEvent]
        /\ acknowledged' = acknowledged \cup {job[w]}
        /\ UNCHANGED <<sent, stored, processed, writes, interrupted, swallowed, turnedAway>>
    BY DEF Answer, Finish, history
  <1>2. /\ acknowledged' \subseteq stored \cup turnedAway' /\ turnedAway' \subseteq Events
        /\ interrupted' \subseteq Events
    BY <1>1 DEF IInv, TypeOK, OneClaimant
  <1>. QED  BY <1>1, <1>2, LeavingPreserves

LEMMA TurnAwayPreserves ==
  ASSUME IInv, NEW w \in Workers, TurnAway(w)  PROVE IInv'
  <1>1. /\ pc[w] = "received" /\ pc' = [pc EXCEPT ![w] = "idle"]
        /\ job' = [job EXCEPT ![w] = NoEvent]
        /\ acknowledged' = acknowledged \cup {job[w]}
        /\ turnedAway' = turnedAway \cup {job[w]}
        /\ UNCHANGED <<sent, stored, processed, writes, interrupted, swallowed>>
    BY DEF TurnAway, Finish
  <1>2. job[w] \in Events
    BY <1>1 DEF IInv, OneClaimant
  <1>3. /\ acknowledged' \subseteq stored \cup turnedAway' /\ turnedAway' \subseteq Events
        /\ interrupted' \subseteq Events
    BY <1>1, <1>2 DEF IInv, TypeOK, OneClaimant
  <1>. QED  BY <1>1, <1>3, LeavingPreserves

LEMMA FailPreserves ==
  ASSUME IInv, NEW w \in Workers, Fail(w)  PROVE IInv'
  <1>1. /\ pc[w] # "idle" /\ pc' = [pc EXCEPT ![w] = "idle"]
        /\ job' = [job EXCEPT ![w] = NoEvent]
        /\ UNCHANGED <<sent, acknowledged, stored, processed, writes, swallowed, turnedAway>>
    BY DEF Fail, Finish
  <1>2. job[w] \in Events
    BY <1>1 DEF IInv, OneClaimant
  <1>3. /\ interrupted \subseteq interrupted' /\ interrupted' \subseteq Events
        /\ pc[w] \in {"claimed", "redeeming"} => job[w] \in interrupted'
    BY <1>2 DEF Fail, IInv, TypeOK
  <1>4. acknowledged' \subseteq stored \cup turnedAway' /\ turnedAway' \subseteq Events
    BY <1>1 DEF IInv, TypeOK, OneClaimant
  <1>. QED  BY <1>1, <1>3, <1>4, LeavingPreserves

LEMMA NextPreserves == IInv /\ [Next]_vars => IInv'
  <1>. SUFFICES ASSUME IInv, [Next]_vars  PROVE IInv'
    OBVIOUS
  <1>1. CASE UNCHANGED vars
    BY <1>1 DEF vars, history, IInv, TypeOK, AtMostOnce, ProcessedIsComplete,
                OneClaimant, Complete, InProgress, Handling
  <1>2. ASSUME NEW w \in Workers, NEW e \in Events, Deliver(w, e)  PROVE IInv'
    BY <1>2, DeliverPreserves
  <1>3. ASSUME NEW w \in Workers, Handle(w)  PROVE IInv'
    BY <1>3, ClaimPreserves, SkipPreserves, ApplyPreserves, RedeemPreserves,
       RedeemFailsPreserves, MarkProcessedPreserves, AnswerPreserves DEF Handle
  <1>4. ASSUME NEW w \in Workers, Fail(w) \/ TurnAway(w)  PROVE IInv'
    BY <1>4, FailPreserves, TurnAwayPreserves
  <1>. QED  BY <1>1, <1>2, <1>3, <1>4 DEF Next

(* IInv is an invariant: types, one worker past the INSERT for an event,    *)
(* and what that worker still owes the event.                              *)
THEOREM Invariance == Spec => []IInv
  BY InitIInv, NextPreserves, PTL DEF Spec

(* Type correctness alone: the event rows and the deliveries in progress.  *)
THEOREM Typed == Spec => []TypeOK
  <1>1. IInv => TypeOK
    BY DEF IInv
  <1>. QED  BY <1>1, Invariance, PTL

(* Credits, payment and redemption of an event are written at most once,    *)
(* whatever Stripe redelivers and whichever handlers die.                  *)
THEOREM WrittenAtMostOnce == Spec => []AtMostOnce
  <1>1. IInv => AtMostOnce
    BY DEF IInv
  <1>. QED  BY <1>1, Invariance, PTL

(* processedAt means that all of the event's writes were committed.        *)
THEOREM ProcessedMeansComplete == Spec => []ProcessedIsComplete
  <1>1. IInv => ProcessedIsComplete
    BY DEF IInv
  <1>. QED  BY <1>1, Invariance, PTL

(* An acknowledged event is applied or in hand, or a handler failed after   *)
(* inserting its id, or a delivery was turned away and none let in.         *)
THEOREM EveryLossHasACause == Spec => []LossHasACause
  <1>1. IInv => LossHasACause
    BY DEF IInv, OneClaimant, LossHasACause, Unseen
  <1>. QED  BY <1>1, Invariance, PTL

-----------------------------------------------------------------------------
(* The webhook implements Fulfilment. *)

(* Nothing is written that is not due, and a redemption not after it was let *)
(* go.                                                                     *)
InTurn ==
  /\ \A e \in Events, x \in Effects : writes[e][x] > 0 =>
       x \in MainWrites(e) \/ (x = "redemption" /\ RedeemsCoupon(e) /\ e \notin swallowed)
  /\ swallowed \subseteq stored
  /\ \A w \in Workers :
       /\ pc[w] \in {"claimed", "redeeming"} => job[w] \notin swallowed
       /\ pc[w] = "redeeming" => RedeemsCoupon(job[w])

(* What is written of an event, as a set. *)
LEMMA WrittenIs ==
  ASSUME IInv, InTurn, NEW e \in Events, NEW X \in SUBSET Effects,
         \A x \in X : writes[e][x] > 0, \A x \in Effects \ X : writes[e][x] = 0
  PROVE  Handler!Has(e, X)
  <1>1. \A x \in Effects : writes[e][x] \in Nat /\ writes[e][x] <= 1
    BY DEF IInv, TypeOK, AtMostOnce
  <1>2. \A x \in Effects : writes[e][x] = IF x \in X THEN 1 ELSE 0
    BY <1>1
  <1>. QED  BY <1>2 DEF Handler!Has

(* An event changes hands, or does not. *)
LEMMA HandsSame ==
  ASSUME TypeOK, NEW w \in Workers, NEW next, pc' = [pc EXCEPT ![w] = next],
         \A v \in Workers \ {w} : job'[v] = job[v],
         \/ /\ pc[w] \in {"claimed", "redeeming", "handled"}
            /\ next \in {"claimed", "redeeming", "handled"} /\ job'[w] = job[w]
         \/ /\ pc[w] \notin {"claimed", "redeeming", "handled"}
            /\ next \notin {"claimed", "redeeming", "handled"}
  PROVE  {e \in Events : InProgress(e)}' = {e \in Events : InProgress(e)}
  <1>1. \A v \in Workers : Handling(v)' <=> Handling(v)
    BY DEF TypeOK, Handling
  <1>2. \A v \in Workers : Handling(v) => job'[v] = job[v]
    BY DEF Handling
  <1>3. \A e \in Events : InProgress(e)' <=> InProgress(e)
    BY <1>1, <1>2 DEF InProgress
  <1>. QED  BY <1>3

LEMMA HandsFewer ==
  ASSUME IInv, NEW w \in Workers, NEW next, next \notin {"claimed", "redeeming", "handled"},
         pc[w] \in {"claimed", "redeeming", "handled"}, pc' = [pc EXCEPT ![w] = next],
         \A v \in Workers \ {w} : job'[v] = job[v]
  PROVE  {e \in Events : InProgress(e)}' = {e \in Events : InProgress(e)} \ {job[w]}
  <1>1. \A v \in Workers : Handling(v)' <=> Handling(v) /\ v # w
    BY DEF IInv, TypeOK, Handling
  <1>2. \A v \in Workers \ {w} : Handling(v) => job[v] # job[w]
    BY DEF IInv, OneClaimant, Handling
  <1>3. \A e \in Events : InProgress(e)' <=> InProgress(e) /\ e # job[w]
    BY <1>1, <1>2 DEF InProgress
  <1>. QED  BY <1>3

LEMMA InTurnPreserved == IInv /\ InTurn /\ [Next]_vars => InTurn'
  <1>. SUFFICES ASSUME IInv, InTurn, [Next]_vars  PROVE InTurn'
    OBVIOUS
  <1>1. CASE UNCHANGED vars
    BY <1>1 DEF vars, history, InTurn
  (* Steps that write nothing. *)
  <1>2. ASSUME NEW w \in Workers, UNCHANGED <<writes, swallowed>>, stored \subseteq stored',
               \A v \in Workers \ {w} : pc'[v] = pc[v] /\ job'[v] = job[v],
               pc'[w] # "redeeming", pc'[w] = "claimed" => job'[w] \notin swallowed
        PROVE  InTurn'
    BY <1>2 DEF InTurn
  <1>3. ASSUME NEW w \in Workers, NEW e \in Events, Deliver(w, e)  PROVE InTurn'
    BY <1>2, <1>3 DEF Deliver, Goto, history, IInv, TypeOK
  <1>4. ASSUME NEW w \in Workers, Claim(w)  PROVE InTurn'
    BY <1>2, <1>4 DEF Claim, Goto, history, IInv, TypeOK, InTurn
  <1>5. ASSUME NEW w \in Workers, SkipDuplicate(w)  PROVE InTurn'
    BY <1>2, <1>5 DEF SkipDuplicate, Goto, history, IInv, TypeOK
  <1>6. ASSUME NEW w \in Workers, MarkProcessed(w)  PROVE InTurn'
    BY <1>2, <1>6 DEF MarkProcessed, Goto, history, IInv, TypeOK
  <1>7. ASSUME NEW w \in Workers, Answer(w)  PROVE InTurn'
    BY <1>2, <1>7 DEF Answer, Finish, history, IInv, TypeOK
  <1>8. ASSUME NEW w \in Workers, Fail(w)  PROVE InTurn'
    BY <1>2, <1>8 DEF Fail, Finish, IInv, TypeOK
  <1>9. ASSUME NEW w \in Workers, TurnAway(w)  PROVE InTurn'
    BY <1>2, <1>9 DEF TurnAway, Finish, IInv, TypeOK
  <1>10. ASSUME NEW w \in Workers, NEW X \in SUBSET Effects, AddWrites(job[w], X),
               job[w] \in Events, job' = job, UNCHANGED <<stored, swallowed>>,
               \A v \in Workers \ {w} : pc'[v] = pc[v], pc'[w] \in {"redeeming", "handled"},
               pc'[w] = "redeeming" => RedeemsCoupon(job[w]) /\ job[w] \notin swallowed,
               \A x \in X : x \in MainWrites(job[w]) \/
                            (x = "redemption" /\ RedeemsCoupon(job[w]) /\ job[w] \notin swallowed)
        PROVE  InTurn'
    <2>1. /\ \A f \in Events \ {job[w]} : writes'[f] = writes[f]
          /\ \A x \in Effects : writes'[job[w]][x] = writes[job[w]][x] + (IF x \in X THEN 1 ELSE 0)
      BY <1>10 DEF IInv, TypeOK, AddWrites
    <2>2. \A x \in Effects : writes[job[w]][x] \in Nat
      BY <1>10 DEF IInv, TypeOK
    <2>3. \A f \in Events, x \in Effects : writes'[f][x] > 0 =>
            x \in MainWrites(f) \/ (x = "redemption" /\ RedeemsCoupon(f) /\ f \notin swallowed)
      BY <1>10, <2>1, <2>2 DEF InTurn
    <2>. QED  BY <1>10, <2>3 DEF InTurn
  <1>11. ASSUME NEW w \in Workers, Apply(w)  PROVE InTurn'
    <2>1. /\ pc[w] = "claimed" /\ job[w] \in Events /\ job' = job
          /\ AddWrites(job[w], MainWrites(job[w])) /\ UNCHANGED <<stored, swallowed>>
          /\ \A v \in Workers \ {w} : pc'[v] = pc[v]
          /\ pc'[w] = IF RedeemsCoupon(job[w]) THEN "redeeming" ELSE "handled"
      BY <1>11 DEF Apply, Goto, history, IInv, TypeOK, OneClaimant
    <2>2. PICK X \in SUBSET Effects : X = MainWrites(job[w])
      BY <2>1, MainWritesAreEffects
    <2>3. job[w] \notin swallowed
      BY <2>1 DEF InTurn
    <2>. QED  BY <1>10, <2>1, <2>2, <2>3
  <1>12. ASSUME NEW w \in Workers, Redeem(w)  PROVE InTurn'
    <2>1. /\ pc[w] = "redeeming" /\ job[w] \in Events /\ job' = job
          /\ AddWrites(job[w], {"redemption"}) /\ UNCHANGED <<stored, swallowed>>
          /\ \A v \in Workers \ {w} : pc'[v] = pc[v]
          /\ pc'[w] = "handled"
      BY <1>12 DEF Redeem, Goto, history, IInv, TypeOK, OneClaimant
    <2>2. PICK X \in SUBSET Effects : X = {"redemption"}
      BY DEF Effects
    <2>3. job[w] \notin swallowed /\ RedeemsCoupon(job[w])
      BY <2>1 DEF InTurn
    <2>. QED  BY <1>10, <2>1, <2>2, <2>3
  <1>13. ASSUME NEW w \in Workers, RedeemFails(w)  PROVE InTurn'
    <2>1. /\ pc[w] = "redeeming" /\ job[w] \in Events /\ job[w] \in stored
          /\ writes[job[w]]["redemption"] = 0
          /\ UNCHANGED <<stored, writes, job>> /\ swallowed' = swallowed \cup {job[w]}
          /\ \A v \in Workers \ {w} : pc'[v] = pc[v]
          /\ pc'[w] = "handled"
      BY <1>13 DEF RedeemFails, Goto, IInv, TypeOK, OneClaimant
    <2>2. \A v \in Workers \ {w} : pc[v] \in {"claimed", "redeeming"} => job[v] # job[w]
      BY <2>1 DEF IInv, OneClaimant, Handling
    <2>3. \A f \in Events, x \in Effects : writes'[f][x] > 0 =>
            x \in MainWrites(f) \/ (x = "redemption" /\ RedeemsCoupon(f) /\ f \notin swallowed')
      BY <2>1 DEF InTurn
    <2>. QED  BY <2>1, <2>2, <2>3 DEF InTurn
  <1>. QED  BY <1>1, <1>3, <1>4, <1>5, <1>6, <1>7, <1>8, <1>9, <1>11, <1>12, <1>13
            DEF Next, Handle

(* The steps of a worker are steps of the handler, or of nobody.            *)
LEMMA ClaimTakes ==
  ASSUME IInv, NEW w \in Workers, Claim(w)  PROVE Handler!Take(job[w])
  <1>1. /\ pc[w] = "received" /\ job[w] \notin stored /\ stored' = stored \cup {job[w]}
        /\ pc' = [pc EXCEPT ![w] = "claimed"] /\ UNCHANGED <<writes, swallowed, processed, job>>
    BY DEF Claim, Goto, history
  <1>2. \A v \in Workers : Handling(v)' <=> Handling(v) \/ v = w
    BY <1>1 DEF IInv, TypeOK, Handling
  <1>3. \A e \in Events : InProgress(e)' <=> InProgress(e) \/ e = job[w]
    BY <1>1, <1>2 DEF InProgress
  <1>4. job[w] \in Events
    BY <1>1 DEF IInv, OneClaimant
  <1>5. {e \in Events : InProgress(e)}' = {e \in Events : InProgress(e)} \cup {job[w]}
    BY <1>3, <1>4
  <1>. QED  BY <1>1, <1>5 DEF Handler!Take

LEMMA ApplyGrants ==
  ASSUME IInv, InTurn, NEW w \in Workers, Apply(w)  PROVE Handler!Grant(job[w])
  <1>. DEFINE e == job[w]
  <1>1. /\ pc[w] = "claimed" /\ AddWrites(e, MainWrites(e)) /\ job' = job
        /\ pc' = [pc EXCEPT ![w] = IF RedeemsCoupon(e) THEN "redeeming" ELSE "handled"]
        /\ UNCHANGED <<stored, swallowed, processed>>
    BY DEF Apply, Goto, history
  <1>2. e \in Events /\ \A x \in Effects : writes[e][x] = 0
    BY <1>1 DEF IInv, OneClaimant
  <1>3. Handling(w)
    BY <1>1 DEF Handling
  <1>4. InProgress(e)
    BY <1>3 DEF InProgress
  <1>5. {f \in Events : InProgress(f)}' = {f \in Events : InProgress(f)}
    BY <1>1, HandsSame DEF IInv
  <1>6. Handler!Has(e, {})
    BY <1>2 DEF Handler!Has
  <1>7. writes' = [writes EXCEPT ![e] =
                     [x \in Effects |-> IF x \in [f \in Events |-> MainWrites(f)][e] THEN 1 ELSE 0]]
    <2>1. [f \in Events |-> MainWrites(f)][e] = MainWrites(e)
      BY <1>2
    <2>2. [x \in Effects |-> writes[e][x] + (IF x \in MainWrites(e) THEN 1 ELSE 0)] =
          [x \in Effects |-> IF x \in MainWrites(e) THEN 1 ELSE 0]
      BY <1>2
    <2>3. writes' = [writes EXCEPT ![e] =
                       [x \in Effects |-> writes[e][x] + (IF x \in MainWrites(e) THEN 1 ELSE 0)]]
      BY <1>1, <1>2 DEF AddWrites, IInv, TypeOK
    <2>. QED  BY <2>1, <2>2, <2>3
  <1>. QED  BY <1>1, <1>2, <1>4, <1>5, <1>6, <1>7 DEF Handler!Grant

LEMMA RedemptionDue ==
  ASSUME IInv, InTurn, NEW w \in Workers, pc[w] = "redeeming"  PROVE Handler!AtRedemption(job[w])
  <1>. DEFINE e == job[w]
  <1>1. /\ e \in Events /\ writes[e]["redemption"] = 0
        /\ \A x \in MainWrites(e) : writes[e][x] > 0
    BY DEF IInv, OneClaimant
  <1>2. RedeemsCoupon(e) /\ e \notin swallowed
    BY DEF InTurn
  <1>3. MainWrites(e) \subseteq Effects /\ "redemption" \notin MainWrites(e)
    BY <1>1, MainWritesAreEffects
  <1>4. \A x \in Effects \ MainWrites(e) : writes[e][x] = 0
    <2>1. \A x \in Effects \ MainWrites(e) : writes[e][x] > 0 => x = "redemption"
      BY <1>1 DEF InTurn
    <2>2. \A x \in Effects : writes[e][x] \in Nat
      BY <1>1 DEF IInv, TypeOK
    <2>. QED  BY <1>1, <2>1, <2>2
  <1>5. Handler!Has(e, MainWrites(e))
    BY <1>1, <1>3, <1>4, WrittenIs
  <1>6. InProgress(e)
    BY DEF InProgress, Handling
  <1>7. [f \in Events |-> MainWrites(f)][e] = MainWrites(e)
    BY <1>1
  <1>. QED  BY <1>1, <1>2, <1>5, <1>6, <1>7 DEF Handler!AtRedemption

LEMMA RedeemRedeems ==
  ASSUME IInv, InTurn, NEW w \in Workers, Redeem(w)  PROVE Handler!Redeem(job[w])
  <1>. DEFINE e == job[w]
  <1>1. /\ pc[w] = "redeeming" /\ AddWrites(e, {"redemption"}) /\ job' = job
        /\ pc' = [pc EXCEPT ![w] = "handled"]
        /\ UNCHANGED <<stored, swallowed, processed>>
    BY DEF Redeem, Goto, history
  <1>2. e \in Events /\ writes[e]["redemption"] = 0
    BY <1>1 DEF IInv, OneClaimant
  <1>3. {f \in Events : InProgress(f)}' = {f \in Events : InProgress(f)}
    BY <1>1, HandsSame DEF IInv
  <1>4. writes' = [writes EXCEPT ![e]["redemption"] = 1]
    <2>1. writes \in [Events -> [Effects -> Nat]]
      BY DEF IInv, TypeOK
    <2>2. writes' = [writes EXCEPT ![e] =
                       [x \in Effects |-> writes[e][x] + (IF x \in {"redemption"} THEN 1 ELSE 0)]]
      BY <1>1, <1>2, <2>1 DEF AddWrites
    <2>3. [x \in Effects |-> writes[e][x] + (IF x \in {"redemption"} THEN 1 ELSE 0)] =
          [writes[e] EXCEPT !["redemption"] = 1]
      BY <1>2, <2>1
    <2>. QED  BY <1>2, <2>1, <2>2, <2>3
  <1>. QED  BY <1>1, <1>3, <1>4, RedemptionDue DEF Handler!Redeem

LEMMA RedeemFailsWaives ==
  ASSUME IInv, InTurn, NEW w \in Workers, RedeemFails(w)  PROVE Handler!Waive(job[w])
  <1>1. /\ pc[w] = "redeeming" /\ swallowed' = swallowed \cup {job[w]}
        /\ pc' = [pc EXCEPT ![w] = "handled"] /\ UNCHANGED <<stored, writes, processed, job>>
    BY DEF RedeemFails, Goto
  <1>2. {f \in Events : InProgress(f)}' = {f \in Events : InProgress(f)}
    BY <1>1, HandsSame DEF IInv
  <1>. QED  BY <1>1, <1>2, RedemptionDue DEF Handler!Waive

LEMMA MarkProcesses ==
  ASSUME IInv, InTurn, NEW w \in Workers, MarkProcessed(w)  PROVE Handler!Process(job[w])
  <1>. DEFINE e == job[w]
              X == MainWrites(e) \cup IF RedeemsCoupon(e) /\ e \notin swallowed
                                      THEN {"redemption"} ELSE {}
  <1>1. /\ pc[w] = "handled" /\ processed' = processed \cup {e}
        /\ pc' = [pc EXCEPT ![w] = "answering"] /\ UNCHANGED <<stored, swallowed, writes, job>>
    BY DEF MarkProcessed, Goto, history
  <1>2. e \in Events /\ Complete(e)
    BY <1>1 DEF IInv, OneClaimant
  <1>3. X \in SUBSET Effects
    BY <1>2, MainWritesAreEffects DEF Effects
  <1>4. \A x \in X : writes[e][x] > 0
    BY <1>2 DEF Complete
  <1>5. \A x \in Effects \ X : writes[e][x] = 0
    <2>1. \A x \in Effects : writes[e][x] > 0 => x \in X
      BY <1>2 DEF InTurn
    <2>2. \A x \in Effects : writes[e][x] \in Nat
      BY <1>2 DEF IInv, TypeOK
    <2>. QED  BY <2>1, <2>2
  <1>6. Handler!Has(e, X)
    BY <1>2, <1>3, <1>4, <1>5, WrittenIs
  <1>7. X = [f \in Events |-> MainWrites(f)][e] \cup
            IF e \in {f \in Events : RedeemsCoupon(f)} \ swallowed THEN {"redemption"} ELSE {}
    BY <1>2
  <1>8. InProgress(e)
    BY <1>1 DEF InProgress, Handling
  <1>9. {f \in Events : InProgress(f)}' = {f \in Events : InProgress(f)} \ {e}
    BY <1>1, HandsFewer
  <1>. HIDE DEF X
  <1>. QED  BY <1>1, <1>2, <1>6, <1>7, <1>8, <1>9 DEF Handler!Process

LEMMA FailGivesUp ==
  ASSUME IInv, NEW w \in Workers, Fail(w), pc[w] \in {"claimed", "redeeming", "handled"}
  PROVE  Handler!GiveUp(job[w])
  <1>1. /\ pc' = [pc EXCEPT ![w] = "idle"] /\ job' = [job EXCEPT ![w] = NoEvent]
        /\ UNCHANGED <<stored, writes, swallowed, processed>>
    BY DEF Fail, Finish
  <1>2. job[w] \in Events
    BY DEF IInv, OneClaimant
  <1>3. InProgress(job[w])
    BY DEF InProgress, Handling
  <1>4. {f \in Events : InProgress(f)}' = {f \in Events : InProgress(f)} \ {job[w]}
    BY <1>1, HandsFewer DEF IInv, TypeOK
  <1>. QED  BY <1>1, <1>2, <1>3, <1>4 DEF Handler!GiveUp

LEMMA NextFulfils == IInv /\ InTurn /\ [Next]_vars => [Handler!Next]_(Handler!vars)
  <1>. SUFFICES ASSUME IInv, InTurn, [Next]_vars  PROVE Handler!Next \/ UNCHANGED Handler!vars
    OBVIOUS
  <1>1. CASE UNCHANGED vars
    <2>1. {f \in Events : InProgress(f)}' = {f \in Events : InProgress(f)}
      BY <1>1 DEF vars, InProgress, Handling
    <2>. QED  BY <1>1, <2>1 DEF vars, history, Handler!vars
  (* A step of a worker that holds no claim, before and after. *)
  <1>2. ASSUME NEW w \in Workers, NEW next \in {"idle", "received", "answering"},
               pc[w] \notin {"claimed", "redeeming", "handled"}, pc' = [pc EXCEPT ![w] = next],
               \A v \in Workers \ {w} : job'[v] = job[v],
               UNCHANGED <<stored, writes, swallowed, processed>>
        PROVE  UNCHANGED Handler!vars
    <2>1. {f \in Events : InProgress(f)}' = {f \in Events : InProgress(f)}
      BY <1>2, HandsSame DEF IInv
    <2>. QED  BY <1>2, <2>1 DEF Handler!vars
  <1>3. ASSUME NEW w \in Workers, NEW e \in Events, Deliver(w, e)  PROVE UNCHANGED Handler!vars
    BY <1>2, <1>3 DEF Deliver, Goto, history, IInv, TypeOK
  <1>4. ASSUME NEW w \in Workers, SkipDuplicate(w)  PROVE UNCHANGED Handler!vars
    BY <1>2, <1>4 DEF SkipDuplicate, Goto, history
  <1>5. ASSUME NEW w \in Workers, Answer(w)  PROVE UNCHANGED Handler!vars
    BY <1>2, <1>5 DEF Answer, Finish, history, IInv, TypeOK
  <1>6. ASSUME NEW w \in Workers, TurnAway(w)  PROVE UNCHANGED Handler!vars
    BY <1>2, <1>6 DEF TurnAway, Finish, IInv, TypeOK
  <1>7. ASSUME NEW w \in Workers, pc[w] # "idle"  PROVE job[w] \in Events
    BY <1>7 DEF IInv, OneClaimant
  <1>8. ASSUME NEW w \in Workers, Fail(w)  PROVE Handler!Next \/ UNCHANGED Handler!vars
    <2>1. CASE pc[w] \in {"claimed", "redeeming", "handled"}
      BY <1>7, <1>8, <2>1, FailGivesUp DEF Handler!Next
    <2>2. CASE pc[w] \notin {"claimed", "redeeming", "handled"}
      BY <1>2, <1>8, <2>2 DEF Fail, Finish, IInv, TypeOK
    <2>. QED  BY <2>1, <2>2
  <1>9. ASSUME NEW w \in Workers,
               Claim(w) \/ Apply(w) \/ Redeem(w) \/ RedeemFails(w) \/ MarkProcessed(w)
        PROVE  Handler!Next
    <2>1. job[w] \in Events
      BY <1>7, <1>9 DEF Claim, Apply, Redeem, RedeemFails, MarkProcessed, Goto
    <2>. QED  BY <1>9, <2>1, ClaimTakes, ApplyGrants, RedeemRedeems, RedeemFailsWaives,
                 MarkProcesses DEF Handler!Next
  <1>. QED  BY <1>1, <1>3, <1>4, <1>5, <1>6, <1>8, <1>9 DEF Next, Handle

(* The webhook implements Fulfilment: however many deliveries and workers    *)
(* an event has, its tables show one handler that takes it once, writes      *)
(* whole and in order, and is never resumed (billing.service.ts, 705-903).   *)
THEOREM ImplementsFulfilment == Spec => FulfilsInTurn
  <1>1. Init => Handler!Init
    <2>. SUFFICES ASSUME Init  PROVE Handler!Init
      OBVIOUS
    <2>1. \A e : ~ InProgress(e)
      BY DEF Init, InProgress, Handling
    <2>. QED  BY <2>1 DEF Init, Handler!Init
  <1>2. Init => InTurn
    BY DEF Init, InTurn
  <1>3. Spec => []InTurn
    BY <1>2, InTurnPreserved, Invariance, PTL DEF Spec
  <1>. QED  BY <1>1, <1>3, NextFulfils, Invariance, PTL DEF Spec, FulfilsInTurn, Handler!Spec

-----------------------------------------------------------------------------
(* Subscriptions.  The inductive invariant is about the events that have not *)
(* taken effect: once there are none, what it says of a row is               *)
(* RowFollowsStripe, and what it says of the invoices InvoicesAreRecorded.    *)

(* The events that have not taken effect: in the mail, or in the hands of a *)
(* handler.                                                                *)
InHand(c) == [sub |-> req[c].sub, n |-> req[c].n, kind |-> req[c].op, copy |-> req[c].copy]
Held == {InHand(c) : c \in {d \in Clients : stage[d] = "handling"}}
Out == mail \cup Held

RequestFits(c) ==
  /\ stage[c] = "idle" <=> req[c] = NoRequest
  /\ stage[c] = "handling" =>
       /\ req[c].op \in Kinds /\ req[c].n \in Nat
       /\ req[c].op = "snapshot" => ours[req[c].sub] /\ (req[c].found => Has(req[c].sub))
       /\ req[c].op # "snapshot" => Has(req[c].sub)
  /\ stage[c] \in {"cancelling", "marking"} => req[c].op \in Cancels /\ Has(req[c].sub)
SubTypes == SubTypeOK /\ \A c \in Clients : RequestFits(c)

(* Stripe's numbers: one event each, and one handler for it at most.       *)
Numbered ==
  /\ \A e \in Out : e.n \in 1 .. emitted[e.sub]
  /\ \A e, f \in Out : e.sub = f.sub /\ e.n = f.n => e = f
  /\ \A c \in Clients : stage[c] = "handling" =>
       /\ InHand(c) \notin mail
       /\ \A d \in Clients \ {c} : stage[d] = "handling" => InHand(d) # InHand(c)

(* What Stripe has now is on its way, in a snapshot numbered above n.      *)
OnItsWay(s, n) == \E f \in Out : /\ f.sub = s /\ f.kind = "snapshot" /\ f.n > n
                                 /\ f.copy = stripe[s]

(* The row shows what Stripe has, or there is a reason why it does not.    *)
Shows(s) ==
  /\ Has(s)
  /\ \/ rows[s].status = MapSubStatus(stripe[s].status)
     \/ "invoice" \in why[s] /\ rows[s].status = "PAST_DUE"
  /\ stripe[s].status \in Live => rows[s].cancelAt = stripe[s].cancelAt
Excused(s) == ~ (why[s] \subseteq {"invoice"})
RowOrReason ==
  /\ \A s \in Subs : emitted[s] = 0 <=> stripe[s].status = "none"
  /\ \A s \in Subs : IF ours[s] THEN emitted[s] > 0 => OnItsWay(s, 0) \/ Shows(s) \/ Excused(s)
                                ELSE ~ Has(s)

(* A snapshot that would count as the newest shows what Stripe has, or a    *)
(* newer one does.                                                         *)
InOrder ==
  \A e \in Out : ours[e.sub] /\ e.kind = "snapshot" /\ e.n > settled[e.sub]
                 => e.copy = stripe[e.sub] \/ OnItsWay(e.sub, e.n)

(* A cancellation Stripe has carried out stands, or is overtaken by a       *)
(* snapshot that has been handled or is on its way.                        *)
Cancelled(op, copy) == IF op = "immediate" THEN copy.status = "canceled"
                       ELSE copy.status \in Live => copy.cancelAt
Marks ==
  \A c \in Clients : stage[c] = "marking" /\ req[c].n # -1 =>
    LET s == req[c].sub IN
    /\ req[c].n <= emitted[s]
    /\ settled[s] > req[c].n \/ OnItsWay(s, req[c].n) \/ Cancelled(req[c].op, stripe[s])

(* The first event of a subscription is a snapshot: until it has been       *)
(* handled, an invoice waits for an event that comes first.                *)
FirstOnItsWay(s) == \E f \in Out : f.sub = s /\ f.kind = "snapshot" /\ f.n = 1
FirstComesFirst ==
  /\ \A s \in Subs : ours[s] /\ emitted[s] > 0 /\ ~ Has(s)
                     => FirstOnItsWay(s) \/ "lost" \in why[s]
  /\ \A e \in Out : e.kind = "paid" => e.n > 1

(* Every invoice paid is recorded, missed, or on its way.                  *)
Unrecorded(s) == {n \in 1 .. MaxEvents : \E e \in Out : e.sub = s /\ e.kind = "paid" /\ e.n = n}
InvoicesCounted ==
  \A s \in Subs : recorded[s] + missed[s] + Cardinality(Unrecorded(s)) = collected[s]

(* A new row's made is the number of rows there are.                       *)
RowsAreFinite == IsFiniteSet({s \in Subs : Has(s)})

SubIInv ==
  /\ SubTypes /\ RowsAreFinite /\ Numbered
  /\ RowOrReason /\ InOrder /\ Marks
  /\ FirstComesFirst /\ InvoicesCounted

-----------------------------------------------------------------------------
(* The events on their way, as the steps change them. *)

LEMMA HeldIsEvent ==
  ASSUME SubTypes, NEW c \in Clients, stage[c] = "handling"
  PROVE  /\ InHand(c) \in SubEvents /\ InHand(c) \in Out
         /\ InHand(c).sub = req[c].sub /\ InHand(c).n = req[c].n
         /\ InHand(c).kind = req[c].op /\ InHand(c).copy = req[c].copy
  <1>1. req[c] \in Requests /\ req[c].op \in Kinds /\ req[c].n \in Nat
    BY NullAssumption DEF SubTypes, SubTypeOK, RequestFits
  <1>2. InHand(c) \in SubEvents
    BY <1>1 DEF InHand, SubEvents, Requests
  <1>. QED  BY <1>2 DEF InHand, Out, Held

LEMMA OutAreEvents == SubTypes => Out \subseteq SubEvents
  <1>. SUFFICES ASSUME SubTypes, NEW e \in Out  PROVE e \in SubEvents
    OBVIOUS
  <1>1. CASE e \in mail
    BY <1>1 DEF SubTypes, SubTypeOK
  <1>2. CASE e \in Held
    BY <1>2, HeldIsEvent DEF Held
  <1>. QED  BY <1>1, <1>2 DEF Out

LEMMA OutAreEventsNext == SubTypes' => Out' \subseteq SubEvents
  <1>. SUFFICES ASSUME SubTypes', NEW e \in Out'  PROVE e \in SubEvents
    OBVIOUS
  <1>1. CASE e \in mail'
    BY <1>1 DEF SubTypes, SubTypeOK
  <1>2. CASE e \in Held'
    <2>1. PICK c \in Clients : stage'[c] = "handling" /\ e = InHand(c)'
      BY <1>2 DEF Held
    <2>2. req'[c] \in Requests /\ req'[c].op \in Kinds /\ req'[c].n \in Nat
      BY <2>1, NullAssumption DEF SubTypes, SubTypeOK, RequestFits
    <2>. QED  BY <2>1, <2>2 DEF InHand, SubEvents, Requests
  <1>. QED  BY <1>1, <1>2 DEF Out

(* Nobody takes an event or is done with one.                              *)
LEMMA SameHands ==
  ASSUME SubTypes, Numbered, SubTypes', NEW s \in Subs, NEW N, mail' = mail \cup N,
         \A e \in N : /\ e \in SubEvents /\ e.sub = s
                      /\ e.n \in emitted[s] + 1 .. emitted'[s],
         \A e, f \in N : e.n = f.n => e = f,
         \A t \in Subs \ {s} : emitted'[t] = emitted[t],
         emitted'[s] >= emitted[s],
         \A d \in Clients : /\ stage'[d] = "handling" <=> stage[d] = "handling"
                            /\ stage[d] = "handling" => req'[d] = req[d]
  PROVE  Out' = Out \cup N /\ Numbered'
  <1>1. \A d \in Clients : stage[d] = "handling" => InHand(d)' = InHand(d)
    BY DEF InHand
  <1>2. Held' = Held
    BY <1>1 DEF Held
  <1>3. Out' = Out \cup N
    BY <1>2 DEF Out
  <1>4. Out \subseteq SubEvents
    BY OutAreEvents
  <1>5. \A e \in Out : e.n \in Nat /\ e.sub \in Subs /\ e.n <= emitted[e.sub] /\ e.n >= 1
    BY <1>4 DEF Numbered, SubEvents, SubTypes, SubTypeOK
  <1>6. \A e \in N : e.n \in Nat /\ e.sub = s /\ e.n > emitted[s] /\ e.n <= emitted'[s] /\ e.n >= 1
    BY DEF SubEvents, SubTypes, SubTypeOK
  <1>7. \A t \in Subs : emitted[t] \in Nat /\ emitted'[t] \in Nat /\ emitted'[t] >= emitted[t]
    BY DEF SubTypes, SubTypeOK
  <1>8. \A e \in Out' : e.n \in 1 .. emitted'[e.sub]
    BY <1>3, <1>5, <1>6, <1>7
  <1>9. \A e \in Out, f \in N : e.sub = f.sub => e.n # f.n
    BY <1>5, <1>6, <1>7
  <1>10. \A e, f \in Out' : e.sub = f.sub /\ e.n = f.n => e = f
    BY <1>3, <1>9 DEF Numbered
  <1>11. ASSUME NEW c \in Clients, stage'[c] = "handling"
         PROVE  /\ InHand(c)' \notin mail'
                /\ \A d \in Clients \ {c} : stage'[d] = "handling" => InHand(d)' # InHand(c)'
    <2>1. stage[c] = "handling" /\ InHand(c)' = InHand(c)
      BY <1>1, <1>11
    <2>2. InHand(c) \notin mail /\ InHand(c) \in Out
      BY <2>1, HeldIsEvent DEF Numbered
    <2>3. InHand(c) \notin N
      BY <1>9, <2>2
    <2>4. \A d \in Clients \ {c} : stage[d] = "handling" => InHand(d) # InHand(c)
      BY <2>1 DEF Numbered
    <2>. QED  BY <1>1, <2>1, <2>2, <2>3, <2>4
  <1>. QED  BY <1>3, <1>8, <1>10, <1>11 DEF Numbered

(* A handler takes an event out of the mail. *)
LEMMA EventTaken ==
  ASSUME SubTypes, Numbered, NEW c \in Clients, NEW e \in mail, stage[c] # "handling",
         mail' = mail \ {e}, stage'[c] = "handling", InHand(c)' = e,
         emitted' = emitted,
         \A d \in Clients \ {c} : stage'[d] = stage[d] /\ req'[d] = req[d]
  PROVE  Out' = Out /\ Numbered'
  <1>1. \A d \in Clients \ {c} : /\ stage'[d] = "handling" <=> stage[d] = "handling"
                                 /\ InHand(d)' = InHand(d)
    BY DEF InHand
  <1>2. Held' = Held \cup {e}
    BY <1>1 DEF Held
  <1>3. Out' = Out
    BY <1>2 DEF Out
  <1>4. ASSUME NEW d \in Clients \ {c}, stage[d] = "handling"
        PROVE  InHand(d) # e
    BY <1>4 DEF Numbered
  <1>5. \A d \in Clients : stage'[d] = "handling" =>
          /\ InHand(d)' \notin mail'
          /\ \A b \in Clients \ {d} : stage'[b] = "handling" => InHand(b)' # InHand(d)'
    BY <1>1, <1>4 DEF Numbered
  <1>. QED  BY <1>3, <1>5 DEF Numbered

(* A handler is done with its event.                                       *)
LEMMA EventDone ==
  ASSUME SubTypes, Numbered, NEW c \in Clients, stage[c] = "handling", stage'[c] # "handling",
         mail' = mail, emitted' = emitted,
         \A d \in Clients \ {c} : stage'[d] = stage[d] /\ req'[d] = req[d]
  PROVE  Out' = Out \ {InHand(c)} /\ Numbered'
  <1>1. \A d \in Clients \ {c} : /\ stage'[d] = "handling" <=> stage[d] = "handling"
                                 /\ InHand(d)' = InHand(d)
    BY DEF InHand
  <1>2. \A d \in Clients \ {c} : stage[d] = "handling" => InHand(d) # InHand(c)
    BY DEF Numbered
  <1>3. Held' = Held \ {InHand(c)}
    BY <1>1, <1>2 DEF Held
  <1>4. InHand(c) \notin mail
    BY DEF Numbered
  <1>5. Out' = Out \ {InHand(c)}
    BY <1>3, <1>4 DEF Out
  <1>6. \A d \in Clients : stage'[d] = "handling" =>
          /\ InHand(d)' \notin mail'
          /\ \A b \in Clients \ {d} : stage'[b] = "handling" => InHand(b)' # InHand(d)'
    BY <1>1 DEF Numbered
  <1>. QED  BY <1>5, <1>6 DEF Numbered

(* An event is over as soon as it arrives.                                 *)
LEMMA EventIgnored ==
  ASSUME SubTypes, Numbered, NEW e \in mail, mail' = mail \ {e},
         UNCHANGED <<emitted, stage, req>>
  PROVE  Out' = Out \ {e} /\ Numbered'
  <1>1. \A d \in Clients : InHand(d)' = InHand(d)
    BY DEF InHand
  <1>2. Held' = Held
    BY <1>1 DEF Held
  <1>3. e \notin Held
    BY DEF Held, Numbered
  <1>4. Out' = Out \ {e}
    BY <1>2, <1>3 DEF Out
  <1>. QED  BY <1>1, <1>4 DEF Numbered

-----------------------------------------------------------------------------
(* Stripe moves on, or nothing does: every event on its way is still, and   *)
(* those that are new say what Stripe has now.                             *)

(* What N, the events that are new, has to do with s, the subscription they *)
(* are about.                                                              *)
Announces(s, N) ==
  /\ \A e \in N : e.sub = s /\ e.copy = stripe'[s] /\ e.n > emitted[s]
  /\ \A t \in Subs \ {s} : emitted'[t] = emitted[t] /\ stripe'[t] = stripe[t]
  /\ emitted'[s] >= emitted[s]
  /\ stripe'[s] = stripe[s] \/ \E e \in N : e.kind = "snapshot"
  /\ emitted'[s] = 0 <=> stripe'[s].status = "none"
  /\ emitted[s] = 0 => \/ emitted'[s] = 0 /\ N = {}
                       \/ \E e \in N : e.kind = "snapshot" /\ e.n = 1
  /\ \A e \in N : e.kind = "paid" => emitted[s] > 0

LEMMA StillOnItsWay ==
  ASSUME SubTypes, NEW s \in Subs, NEW N, Announces(s, N), Out' = Out \cup N,
         Out' \subseteq SubEvents, NEW t \in Subs, NEW n \in Int, n <= emitted[t], OnItsWay(t, n)
  PROVE  OnItsWay(t, n)'
  <1>1. PICK f \in Out : f.sub = t /\ f.kind = "snapshot" /\ f.n > n /\ f.copy = stripe[t]
    BY DEF OnItsWay
  <1>2. CASE stripe'[t] = stripe[t]
    BY <1>1, <1>2 DEF OnItsWay
  <1>3. CASE stripe'[t] # stripe[t]
    <2>1. t = s
      BY <1>3 DEF Announces
    <2>2. PICK e \in N : e.kind = "snapshot"
      BY <1>3, <2>1 DEF Announces
    <2>3. e.sub = t /\ e.copy = stripe'[t] /\ e.n > emitted[t] /\ e.n \in Nat
      BY <2>1, <2>2 DEF Announces, SubEvents
    <2>4. e.n > n
      BY <2>3 DEF SubTypes, SubTypeOK
    <2>. QED  BY <2>2, <2>3, <2>4 DEF OnItsWay
  <1>. QED  BY <1>2, <1>3

(* What Stripe has now is on its way if it is not what it was.             *)
LEMMA NewsOnItsWay ==
  ASSUME SubTypes, NEW s \in Subs, NEW N, Announces(s, N), Out' = Out \cup N,
         Out' \subseteq SubEvents, NEW t \in Subs, NEW n \in Int, n <= emitted[t],
         stripe'[t] # stripe[t]
  PROVE  OnItsWay(t, n)'
  <1>1. t = s
    BY DEF Announces
  <1>2. PICK e \in N : e.kind = "snapshot"
    BY <1>1 DEF Announces
  <1>3. e.sub = t /\ e.copy = stripe'[t] /\ e.n > emitted[t] /\ e.n \in Nat
    BY <1>1, <1>2 DEF Announces, SubEvents
  <1>4. e.n > n
    BY <1>3 DEF SubTypes, SubTypeOK
  <1>. QED  BY <1>2, <1>3, <1>4 DEF OnItsWay

LEMMA AnnouncedInOrder ==
  ASSUME SubTypes, Numbered, InOrder, NEW s \in Subs, NEW N, Announces(s, N), Out' = Out \cup N,
         Out' \subseteq SubEvents, UNCHANGED <<ours, settled>>
  PROVE  InOrder'
  <1>. SUFFICES ASSUME NEW e \in Out', ours[e.sub], e.kind = "snapshot", e.n > settled[e.sub]
                PROVE  e.copy = stripe'[e.sub] \/ OnItsWay(e.sub, e.n)'
    BY DEF InOrder
  <1>0. e.sub \in Subs /\ e.n \in Nat
    BY DEF SubEvents
  <1>1. CASE e \in N
    BY <1>1 DEF Announces
  <1>2. CASE e \in Out
    <2>1. e.n <= emitted[e.sub]
      BY <1>0, <1>2 DEF Numbered, SubTypes, SubTypeOK
    <2>2. e.copy = stripe[e.sub] \/ OnItsWay(e.sub, e.n)
      BY <1>2 DEF InOrder
    <2>3. stripe'[e.sub] = stripe[e.sub] \/ OnItsWay(e.sub, e.n)'
      BY <1>0, <2>1, NewsOnItsWay
    <2>. QED  BY <1>0, <2>1, <2>2, <2>3, StillOnItsWay
  <1>. QED  BY <1>1, <1>2

LEMMA AnnouncedOrReason ==
  ASSUME SubTypes, Numbered, RowOrReason, NEW s \in Subs, NEW N, Announces(s, N),
         Out' = Out \cup N, Out' \subseteq SubEvents, UNCHANGED <<ours, rows, why>>
  PROVE  RowOrReason'
  <1>1. \A t \in Subs : emitted'[t] = 0 <=> stripe'[t].status = "none"
    BY DEF Announces, RowOrReason
  <1>2. ASSUME NEW t \in Subs, ours[t], emitted'[t] > 0
        PROVE  OnItsWay(t, 0)' \/ Shows(t)' \/ Excused(t)'
    <2>0. emitted[t] \in Nat /\ emitted'[t] >= emitted[t]
      BY DEF Announces, SubTypes, SubTypeOK
    <2>1. CASE stripe'[t] # stripe[t]
      BY <2>0, <2>1, NewsOnItsWay
    <2>2. CASE stripe'[t] = stripe[t]
      <3>1. emitted[t] > 0
        BY <1>1, <1>2, <2>0, <2>2 DEF RowOrReason
      <3>2. OnItsWay(t, 0) \/ Shows(t) \/ Excused(t)
        BY <1>2, <3>1 DEF RowOrReason
      <3>3. Shows(t) => Shows(t)'
        BY <2>2 DEF Shows, Has
      <3>4. Excused(t) => Excused(t)'
        BY DEF Excused
      <3>. QED  BY <2>0, <3>2, <3>3, <3>4, StillOnItsWay
    <2>. QED  BY <2>1, <2>2
  <1>3. \A t \in Subs : ~ ours[t] => ~ Has(t)'
    BY DEF RowOrReason, Has
  <1>. QED  BY <1>1, <1>2, <1>3 DEF RowOrReason

LEMMA AnnouncedMarks ==
  ASSUME SubTypes, Marks, NEW s \in Subs, NEW N, Announces(s, N), Out' = Out \cup N,
         Out' \subseteq SubEvents, SubTypes', UNCHANGED settled,
         \A d \in Clients : stage'[d] = "marking" =>
           \/ stage[d] = "marking" /\ req'[d] = req[d]
           \/ req'[d].n = -1
           \/ /\ req'[d].sub = s /\ req'[d].n = emitted'[s]
              /\ Cancelled(req'[d].op, stripe'[s])
  PROVE  Marks'
  <1>1. ASSUME NEW d \in Clients, stage'[d] = "marking", NEW t, t = req'[d].sub,
               NEW n, n = req'[d].n, n # -1
        PROVE  /\ n <= emitted'[t]
               /\ settled[t] > n \/ OnItsWay(t, n)' \/ Cancelled(req'[d].op, stripe'[t])
    <2>1. CASE t = s /\ n = emitted'[s] /\ Cancelled(req'[d].op, stripe'[s])
      BY <2>1 DEF SubTypes, SubTypeOK
    <2>2. CASE stage[d] = "marking" /\ req'[d] = req[d]
      <3>1. t \in Subs /\ n \in Int /\ emitted[t] \in Nat /\ emitted'[t] \in Nat
        BY <1>1, <2>2, NullAssumption DEF SubTypes, SubTypeOK, RequestFits, Requests
      <3>2. n <= emitted[t] /\ emitted[t] <= emitted'[t]
        BY <1>1, <2>2, <3>1 DEF Marks, Announces
      <3>3. settled[t] > n \/ OnItsWay(t, n) \/ Cancelled(req[d].op, stripe[t])
        BY <1>1, <2>2 DEF Marks
      <3>4. stripe'[t] = stripe[t] \/ OnItsWay(t, n)'
        BY <3>1, <3>2, NewsOnItsWay
      <3>5. OnItsWay(t, n) => OnItsWay(t, n)'
        BY <3>1, <3>2, StillOnItsWay
      <3>. QED  BY <2>2, <3>1, <3>2, <3>3, <3>4, <3>5
    <2>. QED  BY <1>1, <2>1, <2>2
  <1>2. ASSUME NEW d \in Clients, stage'[d] = "marking", req'[d].n # -1
        PROVE  /\ req'[d].n <= emitted'[req'[d].sub]
               /\ \/ settled'[req'[d].sub] > req'[d].n
                  \/ \E f \in Out' : /\ f.sub = req'[d].sub /\ f.kind = "snapshot"
                                     /\ f.n > req'[d].n /\ f.copy = stripe'[req'[d].sub]
                  \/ Cancelled(req'[d].op, stripe'[req'[d].sub])
    BY <1>1, <1>2 DEF OnItsWay
  <1>. QED  BY <1>2 DEF Marks, OnItsWay

LEMMA AnnouncedFirst ==
  ASSUME SubTypes, FirstComesFirst, NEW s \in Subs, NEW N, Announces(s, N), Out' = Out \cup N,
         Out' \subseteq SubEvents, UNCHANGED <<ours, rows, why>>
  PROVE  FirstComesFirst'
  <1>0. \A t \in Subs : emitted[t] \in Nat
    BY DEF SubTypes, SubTypeOK
  <1>1. ASSUME NEW t \in Subs, ours[t], emitted'[t] > 0, ~ Has(t)'
        PROVE  FirstOnItsWay(t)' \/ "lost" \in why[t]
    <2>1. CASE emitted[t] > 0
      BY <1>1, <2>1 DEF FirstComesFirst, FirstOnItsWay, Has
    <2>2. CASE emitted[t] = 0
      <3>1. t = s
        BY <1>1, <2>2 DEF Announces
      <3>. QED  BY <1>1, <2>2, <3>1 DEF Announces, FirstOnItsWay
    <2>. QED  BY <1>0, <2>1, <2>2
  <1>2. ASSUME NEW e \in Out', e.kind = "paid"
        PROVE  e.n > 1
    <2>1. CASE e \in N
      <3>1. e.n \in Nat /\ e.n > emitted[s] /\ emitted[s] > 0
        BY <1>2, <2>1 DEF Announces, SubEvents
      <3>. QED  BY <1>0, <3>1
    <2>. QED  BY <1>2, <2>1 DEF FirstComesFirst
  <1>. QED  BY <1>1, <1>2 DEF FirstComesFirst

(* The invoices on their way are numbers up to MaxEvents. *)
LEMMA UnrecordedIsFinite ==
  ASSUME NEW s  PROVE IsFiniteSet(Unrecorded(s)) /\ Cardinality(Unrecorded(s)) \in Nat
  <1>1. IsFiniteSet(1 .. MaxEvents)
    BY SubscriptionsAssumption, FS_Interval
  <1>2. Unrecorded(s) \subseteq 1 .. MaxEvents
    BY DEF Unrecorded
  <1>3. IsFiniteSet(Unrecorded(s))
    BY <1>1, <1>2, FS_Subset
  <1>. QED  BY <1>3, FS_CardinalityType

LEMMA AnnouncedCounted ==
  ASSUME SubTypes, Numbered, InvoicesCounted, NEW s \in Subs, NEW N, Announces(s, N),
         Out' = Out \cup N, Out' \subseteq SubEvents, Numbered', SubTypes',
         UNCHANGED <<recorded, missed>>,
         \A t \in Subs \ {s} : collected'[t] = collected[t],
         \/ collected'[s] = collected[s] /\ \A e \in N : e.kind # "paid"
         \/ /\ collected'[s] = collected[s] + 1
            /\ \E e \in N : e.kind = "paid" /\ \A f \in N : f.kind = "paid" => f = e
  PROVE  InvoicesCounted'
  <1>1. ASSUME NEW t \in Subs, t # s \/ \A e \in N : e.kind # "paid"
        PROVE  Unrecorded(t)' = Unrecorded(t)
    <2>1. \A e \in N : ~ (e.sub = t /\ e.kind = "paid")
      BY <1>1 DEF Announces
    <2>. QED  BY <2>1 DEF Unrecorded
  <1>2. ASSUME NEW e \in N, e.kind = "paid", \A f \in N : f.kind = "paid" => f = e
        PROVE  Cardinality(Unrecorded(s)') = Cardinality(Unrecorded(s)) + 1
    <2>1. e.sub = s /\ e.n \in Nat /\ e.n > emitted[s] /\ e \in Out'
      BY <1>2 DEF Announces, SubEvents
    <2>2. e.n \in 1 .. MaxEvents
      <3>1. e.n \in 1 .. emitted'[s] /\ emitted'[s] \in 0 .. MaxEvents
        BY <2>1 DEF Numbered, SubTypes, SubTypeOK
      <3>. QED  BY <3>1, SubscriptionsAssumption
    <2>3. Unrecorded(s)' = Unrecorded(s) \cup {e.n}
      BY <1>2, <2>1, <2>2 DEF Unrecorded
    <2>4. e.n \notin Unrecorded(s)
      <3>1. \A f \in Out : f.sub = s => f.n # e.n
        BY <2>1 DEF Numbered, SubTypes, SubTypeOK
      <3>. QED  BY <3>1 DEF Unrecorded
    <2>. QED  BY <2>3, <2>4, UnrecordedIsFinite, FS_AddElement
  <1>3. \A t \in Subs : Cardinality(Unrecorded(t)) \in Nat
    BY UnrecordedIsFinite
  <1>4. \A t \in Subs : /\ recorded[t] \in Nat /\ missed[t] \in Nat /\ collected[t] \in Nat
                        /\ recorded[t] + missed[t] + Cardinality(Unrecorded(t)) = collected[t]
    BY DEF SubTypes, SubTypeOK, InvoicesCounted
  <1>5. ASSUME NEW t \in Subs
        PROVE  recorded[t] + missed[t] + Cardinality(Unrecorded(t)') = collected'[t]
    <2>1. CASE t # s \/ \A e \in N : e.kind # "paid"
      BY <1>1, <1>4, <2>1
    <2>2. CASE t = s /\ \E e \in N : e.kind = "paid"
      BY <1>2, <1>3, <1>4, <2>2
    <2>. QED  BY <2>1, <2>2
  <1>. QED  BY <1>5 DEF InvoicesCounted

-----------------------------------------------------------------------------
(* An event is handled, or lost: it is on its way no longer. *)

LEMMA OthersOnTheirWay ==
  ASSUME NEW x \in Out, Out' = Out \ {x}, stripe' = stripe, Out \subseteq SubEvents,
         NEW t, NEW n \in Int, OnItsWay(t, n), x.sub # t \/ x.kind # "snapshot" \/ n >= x.n
  PROVE  OnItsWay(t, n)'
  <1>1. PICK f \in Out : f.sub = t /\ f.kind = "snapshot" /\ f.n > n /\ f.copy = stripe[t]
    BY DEF OnItsWay
  <1>2. f # x
    BY <1>1 DEF SubEvents
  <1>. QED  BY <1>1, <1>2 DEF OnItsWay

(* What becomes of a snapshot counts as settled. *)
Settles(x) ==
  /\ \A t \in Subs : settled'[t] >= settled[t]
  /\ ours[x.sub] /\ x.kind = "snapshot" => settled'[x.sub] >= x.n

LEMMA DoneInOrder ==
  ASSUME SubTypes, SubTypes', InOrder, NEW x \in Out, Out' = Out \ {x},
         UNCHANGED <<stripe, ours>>, Settles(x)
  PROVE  InOrder'
  <1>. SUFFICES ASSUME NEW e \in Out', ours[e.sub], e.kind = "snapshot", e.n > settled'[e.sub]
                PROVE  e.copy = stripe[e.sub] \/ OnItsWay(e.sub, e.n)'
    BY DEF InOrder
  <1>1. /\ Out \subseteq SubEvents /\ e.sub \in Subs /\ e.n \in Nat /\ x.n \in Nat
        /\ settled[e.sub] \in Nat /\ settled'[e.sub] \in Nat /\ x.sub \in Subs
    BY OutAreEvents DEF SubEvents, SubTypes, SubTypeOK
  <1>2. e.n > settled[e.sub] /\ (x.sub = e.sub /\ x.kind = "snapshot" => e.n >= x.n)
    BY <1>1 DEF Settles
  <1>3. e.copy = stripe[e.sub] \/ OnItsWay(e.sub, e.n)
    BY <1>2 DEF InOrder
  <1>. QED  BY <1>1, <1>2, <1>3, OthersOnTheirWay

LEMMA DoneMarks ==
  ASSUME SubTypes, SubTypes', RowOrReason, Marks, NEW x \in Out, Out' = Out \ {x},
         UNCHANGED <<stripe, ours, emitted>>, Settles(x),
         \A d \in Clients : stage'[d] = "marking" => stage[d] = "marking" /\ req'[d] = req[d]
  PROVE  Marks'
  <1>1. ASSUME NEW d \in Clients, stage'[d] = "marking", NEW t, t = req'[d].sub,
               NEW n, n = req'[d].n, n # -1
        PROVE  /\ n <= emitted'[t]
               /\ settled'[t] > n \/ OnItsWay(t, n)' \/ Cancelled(req'[d].op, stripe'[t])
    <2>1. /\ stage[d] = "marking" /\ req'[d] = req[d]
          /\ t \in Subs /\ n \in Int /\ Has(t)
      BY <1>1, NullAssumption DEF SubTypes, SubTypeOK, RequestFits, Requests
    <2>2. ours[t]
      BY <2>1 DEF RowOrReason
    <2>3. /\ settled[t] \in Nat /\ settled'[t] \in Nat /\ x.n \in Nat /\ Out \subseteq SubEvents
      BY <2>1, OutAreEvents DEF SubEvents, SubTypes, SubTypeOK
    <2>4. settled'[t] >= settled[t]
      BY <2>1 DEF Settles
    <2>5. n <= emitted[t]
      BY <1>1, <2>1 DEF Marks
    <2>6. settled[t] > n \/ OnItsWay(t, n) \/ Cancelled(req[d].op, stripe[t])
      BY <1>1, <2>1 DEF Marks
    <2>7. OnItsWay(t, n) => OnItsWay(t, n)' \/ settled'[t] > n
      <3>1. CASE x.sub # t \/ x.kind # "snapshot" \/ n >= x.n
        BY <2>1, <2>3, <3>1, OthersOnTheirWay
      <3>2. CASE x.sub = t /\ x.kind = "snapshot" /\ n < x.n
        BY <2>1, <2>2, <2>3, <3>2 DEF Settles
      <3>. QED  BY <2>1, <2>3, <3>1, <3>2
    <2>. QED  BY <2>1, <2>3, <2>4, <2>5, <2>6, <2>7
  <1>2. ASSUME NEW d \in Clients, stage'[d] = "marking", req'[d].n # -1
        PROVE  /\ req'[d].n <= emitted'[req'[d].sub]
               /\ \/ settled'[req'[d].sub] > req'[d].n
                  \/ \E f \in Out' : /\ f.sub = req'[d].sub /\ f.kind = "snapshot"
                                     /\ f.n > req'[d].n /\ f.copy = stripe'[req'[d].sub]
                  \/ Cancelled(req'[d].op, stripe'[req'[d].sub])
    BY <1>1, <1>2 DEF OnItsWay
  <1>. QED  BY <1>2 DEF Marks, OnItsWay

LEMMA DoneOrReason ==
  ASSUME SubTypes, RowOrReason, NEW x \in Out, Out' = Out \ {x}, NEW s, x.sub = s,
         UNCHANGED <<stripe, ours, emitted>>,
         \A t \in Subs \ {s} : rows'[t] = rows[t] /\ why'[t] = why[t],
         ours[s] /\ emitted[s] > 0 => OnItsWay(s, 0)' \/ Shows(s)' \/ Excused(s)',
         ~ ours[s] => ~ Has(s)'
  PROVE  RowOrReason'
  <1>1. Out \subseteq SubEvents
    BY OutAreEvents
  <1>2. ASSUME NEW t \in Subs, t # s, ours[t], emitted[t] > 0
        PROVE  OnItsWay(t, 0)' \/ Shows(t)' \/ Excused(t)'
    <2>1. OnItsWay(t, 0) \/ Shows(t) \/ Excused(t)
      BY <1>2 DEF RowOrReason
    <2>2. OnItsWay(t, 0) => OnItsWay(t, 0)'
      BY <1>1, <1>2, OthersOnTheirWay
    <2>3. Shows(t) => Shows(t)'
      BY <1>2 DEF Shows, Has
    <2>4. Excused(t) => Excused(t)'
      BY <1>2 DEF Excused
    <2>. QED  BY <2>1, <2>2, <2>3, <2>4
  <1>3. \A t \in Subs : t # s /\ ~ ours[t] => ~ Has(t)'
    BY DEF RowOrReason, Has
  <1>. QED  BY <1>2, <1>3 DEF RowOrReason

LEMMA DoneFirst ==
  ASSUME SubTypes, FirstComesFirst, NEW x \in Out, Out' = Out \ {x}, UNCHANGED <<ours, emitted>>,
         \A t \in Subs : /\ Has(t) => Has(t)'
                         /\ "lost" \in why[t] => Has(t)' \/ "lost" \in why'[t],
         x.kind = "snapshot" /\ ours[x.sub] => Has(x.sub)' \/ "lost" \in why'[x.sub]
  PROVE  FirstComesFirst'
  <1>1. ASSUME NEW t \in Subs, ours[t], emitted[t] > 0, ~ Has(t)'
        PROVE  FirstOnItsWay(t)' \/ "lost" \in why'[t]
    <2>1. FirstOnItsWay(t) \/ "lost" \in why[t]
      BY <1>1 DEF FirstComesFirst
    <2>2. CASE FirstOnItsWay(t)
      <3>1. PICK f \in Out : f.sub = t /\ f.kind = "snapshot" /\ f.n = 1
        BY <2>2 DEF FirstOnItsWay
      <3>. QED  BY <1>1, <3>1 DEF FirstOnItsWay
    <2>. QED  BY <1>1, <2>1, <2>2
  <1>. QED  BY <1>1 DEF FirstComesFirst

LEMMA DoneCounted ==
  ASSUME SubTypes, SubTypes', Numbered, InvoicesCounted, NEW x \in Out, Out' = Out \ {x},
         NEW s, x.sub = s, UNCHANGED collected,
         \A t \in Subs : recorded'[t] + missed'[t] =
                           recorded[t] + missed[t] + (IF x.kind = "paid" /\ t = s THEN 1 ELSE 0)
  PROVE  InvoicesCounted'
  <1>0. Out \subseteq SubEvents /\ x.n \in Nat
    BY OutAreEvents DEF SubEvents
  <1>1. ASSUME NEW t \in Subs, t # s \/ x.kind # "paid"
        PROVE  Unrecorded(t)' = Unrecorded(t)
    BY <1>1 DEF Unrecorded
  <1>2. ASSUME x.kind = "paid"
        PROVE  Cardinality(Unrecorded(s)') = Cardinality(Unrecorded(s)) - 1
    <2>1. \A e \in Out : e.sub = s /\ e.n = x.n => e = x
      BY DEF Numbered
    <2>2. Unrecorded(s)' = Unrecorded(s) \ {x.n}
      BY <1>2, <2>1 DEF Unrecorded
    <2>3. x.n \in Unrecorded(s)
      <3>1. x.n \in 1 .. emitted[s] /\ emitted[s] \in 0 .. MaxEvents
        BY <1>0 DEF Numbered, SubTypes, SubTypeOK, SubEvents
      <3>. QED  BY <1>2, <3>1, SubscriptionsAssumption DEF Unrecorded
    <2>. QED  BY <2>2, <2>3, UnrecordedIsFinite, FS_RemoveElement
  <1>3. \A t \in Subs : Cardinality(Unrecorded(t)) \in Nat
    BY UnrecordedIsFinite
  <1>4. \A t \in Subs : /\ recorded[t] \in Nat /\ missed[t] \in Nat /\ collected[t] \in Nat
                        /\ recorded'[t] \in Nat /\ missed'[t] \in Nat
                        /\ recorded[t] + missed[t] + Cardinality(Unrecorded(t)) = collected[t]
    BY DEF SubTypes, SubTypeOK, InvoicesCounted
  <1>5. ASSUME NEW t \in Subs
        PROVE  recorded'[t] + missed'[t] + Cardinality(Unrecorded(t)') = collected[t]
    <2>1. CASE t # s \/ x.kind # "paid"
      BY <1>1, <1>3, <1>4, <2>1
    <2>2. CASE t = s /\ x.kind = "paid"
      BY <1>2, <1>3, <1>4, <2>2
    <2>. QED  BY <2>1, <2>2
  <1>. QED  BY <1>5 DEF InvoicesCounted

-----------------------------------------------------------------------------
(* The steps of Stripe. *)

LEMMA SubInitIInv == SubInit => SubIInv
  <1>. SUFFICES ASSUME SubInit  PROVE SubIInv
    OBVIOUS
  <1>1. SubTypes
    BY SubscriptionsAssumption
    DEF SubInit, SubTypes, SubTypeOK, RequestFits, Copies
  <1>2. Out = {}
    BY DEF SubInit, Out, Held
  <1>3. RowsAreFinite
    <2>1. {s \in Subs : Has(s)} = {}
      BY DEF SubInit, Has
    <2>. QED  BY <2>1, FS_EmptySet DEF RowsAreFinite
  <1>4. Numbered /\ InOrder /\ Marks /\ FirstComesFirst
    BY <1>2 DEF SubInit, Numbered, InOrder, Marks, FirstComesFirst
  <1>5. RowOrReason
    BY DEF SubInit, RowOrReason, Has
  <1>6. ASSUME NEW s \in Subs
        PROVE  recorded[s] + missed[s] + Cardinality(Unrecorded(s)) = collected[s]
    <2>1. Unrecorded(s) = {}
      BY <1>2 DEF Unrecorded
    <2>. QED  BY <2>1, FS_EmptySet DEF SubInit
  <1>. QED  BY <1>1, <1>3, <1>4, <1>5, <1>6 DEF SubIInv, InvoicesCounted

LEMMA EmitsEvents ==
  ASSUME SubTypes, NEW s \in Subs, stripe' \in [Subs -> Copies], NEW kinds,
         kinds \in {{"snapshot"}, {"failed"}, {"snapshot", "paid"}, {"snapshot", "failed"}},
         Emit(s, kinds)
  PROVE  /\ emitted' \in [Subs -> 0 .. MaxEvents] /\ emitted'[s] > emitted[s]
         /\ \A t \in Subs \ {s} : emitted'[t] = emitted[t]
         /\ \E N : /\ mail' = mail \cup N
                   /\ \A e \in N : /\ e \in SubEvents /\ e.sub = s /\ e.copy = stripe'[s]
                                   /\ e.kind \in kinds
                                   /\ e.n \in emitted[s] + 1 .. emitted'[s]
                                   /\ kinds = {"snapshot"} => e.n = emitted[s] + 1
                   /\ \A e, f \in N : e.n = f.n \/ e.kind = f.kind => e = f
                   /\ \A k \in kinds : \E e \in N : e.kind = k
  <1>1. PICK m \in {1, 2} : m = Cardinality(kinds) /\ (kinds = {"snapshot"} => m = 1)
    <2>1. \A k : IsFiniteSet({k}) /\ Cardinality({k}) = 1
      BY FS_Singleton
    <2>2. \A j, k : j # k => Cardinality({j, k}) = 2
      <3>1. ASSUME NEW j, NEW k, j # k  PROVE Cardinality({j, k}) = 2
        <4>1. {j, k} = {j} \cup {k} /\ k \notin {j}
          BY <3>1
        <4>2. IsFiniteSet({j}) /\ Cardinality({j}) = 1
          BY <2>1
        <4>3. Cardinality({j} \cup {k}) = 1 + 1
          BY <4>1, <4>2, FS_AddElement
        <4>. QED  BY <4>1, <4>3
      <3>. QED  BY <3>1
    <2>3. Cardinality({"snapshot", "paid"}) = 2 /\ Cardinality({"snapshot", "failed"}) = 2
      BY <2>2
    <2>4. kinds = {"snapshot"} => Cardinality(kinds) = 1
      BY <2>1
    <2>5. Cardinality(kinds) \in {1, 2}
      BY <2>1, <2>3
    <2>. QED  BY <2>4, <2>5
  <1>2. PICK k0 \in Nat : k0 = emitted[s]
    BY DEF SubTypes, SubTypeOK
  <1>3. PICK place \in [kinds -> 1 .. m] :
          /\ \A j, k \in kinds : j # k => place[j] # place[k]
          /\ mail' = mail \cup {[sub |-> s, n |-> k0 + place[k], kind |-> k,
                                 copy |-> stripe'[s]] : k \in kinds}
    BY <1>1, <1>2 DEF Emit, Event
  <1>4. emitted' = [emitted EXCEPT ![s] = k0 + m] /\ k0 + m <= MaxEvents
    BY <1>1, <1>2 DEF Emit
  <1>5. /\ emitted' \in [Subs -> 0 .. MaxEvents] /\ emitted'[s] = k0 + m
        /\ \A t \in Subs \ {s} : emitted'[t] = emitted[t]
    BY <1>1, <1>2, <1>4, SubscriptionsAssumption DEF SubTypes, SubTypeOK
  <1>6. PICK N : N = {[sub |-> s, n |-> k0 + place[k], kind |-> k, copy |-> stripe'[s]] : k \in kinds}
    OBVIOUS
  <1>7. kinds \subseteq Kinds /\ stripe'[s] \in Copies
    BY DEF Kinds
  <1>8. \A k \in kinds : place[k] \in 1 .. m
    BY <1>3
  <1>9. ASSUME NEW e \in N
        PROVE  \E k \in kinds : /\ e.sub = s /\ e.n = k0 + place[k] /\ e.kind = k
                                /\ e.copy = stripe'[s] /\ e \in SubEvents
    <2>1. PICK k \in kinds : e = [sub |-> s, n |-> k0 + place[k], kind |-> k, copy |-> stripe'[s]]
      BY <1>6
    <2>2. k0 + place[k] \in Nat
      BY <1>1, <1>2, <1>8
    <2>. QED  BY <1>7, <2>1, <2>2 DEF SubEvents
  <1>10. \A e \in N : /\ e \in SubEvents /\ e.sub = s /\ e.copy = stripe'[s] /\ e.kind \in kinds
                      /\ e.n \in k0 + 1 .. k0 + m
                      /\ kinds = {"snapshot"} => e.n = k0 + 1
    BY <1>1, <1>2, <1>8, <1>9
  <1>11. ASSUME NEW e \in N, NEW f \in N, e.n = f.n \/ e.kind = f.kind
         PROVE  e = f
    <2>1. PICK j \in kinds : e = [sub |-> s, n |-> k0 + place[j], kind |-> j, copy |-> stripe'[s]]
      BY <1>6
    <2>2. PICK k \in kinds : f = [sub |-> s, n |-> k0 + place[k], kind |-> k, copy |-> stripe'[s]]
      BY <1>6
    <2>3. place[j] \in Int /\ place[k] \in Int
      BY <1>1, <1>8
    <2>4. j = k
      BY <1>2, <1>3, <1>11, <2>1, <2>2, <2>3
    <2>. QED  BY <2>1, <2>2, <2>4
  <1>12. ASSUME NEW k \in kinds  PROVE \E e \in N : e.kind = k
    <2>1. PICK e : e = [sub |-> s, n |-> k0 + place[k], kind |-> k, copy |-> stripe'[s]]
      OBVIOUS
    <2>2. e \in N /\ e.kind = k
      BY <1>6, <2>1
    <2>. QED  BY <2>2
  <1>13. mail' = mail \cup N
    BY <1>3, <1>6
  <1>. QED  BY <1>1, <1>2, <1>5, <1>10, <1>11, <1>12, <1>13

LEMMA AnnouncementPreserves ==
  ASSUME SubIInv, SubTypes', NEW s \in Subs, NEW N, Announces(s, N), Out' = Out \cup N, Numbered',
         UNCHANGED <<ours, rows, recorded, settled, why, missed>>,
         \A t \in Subs \ {s} : collected'[t] = collected[t],
         \/ collected'[s] = collected[s] /\ \A e \in N : e.kind # "paid"
         \/ /\ collected'[s] = collected[s] + 1
            /\ \E e \in N : e.kind = "paid" /\ \A f \in N : f.kind = "paid" => f = e,
         \A d \in Clients : stage'[d] = "marking" =>
           \/ stage[d] = "marking" /\ req'[d] = req[d]
           \/ req'[d].n = -1
           \/ /\ req'[d].sub = s /\ req'[d].n = emitted'[s]
              /\ Cancelled(req'[d].op, stripe'[s])
  PROVE  SubIInv'
  <1>1. Out' \subseteq SubEvents
    BY OutAreEventsNext
  <1>2. RowsAreFinite'
    BY DEF SubIInv, RowsAreFinite, Has
  <1>3. InOrder' /\ RowOrReason' /\ FirstComesFirst'
    BY <1>1, AnnouncedInOrder, AnnouncedOrReason, AnnouncedFirst DEF SubIInv
  <1>4. Marks'
    BY <1>1, AnnouncedMarks DEF SubIInv
  <1>5. InvoicesCounted'
    BY <1>1, AnnouncedCounted DEF SubIInv
  <1>. QED  BY <1>2, <1>3, <1>4, <1>5 DEF SubIInv

(* The requests of the others are what they were.                          *)
LEMMA OthersFit ==
  ASSUME SubTypes, NEW c, ours' = ours, \A t \in Subs : Has(t) => Has(t)',
         \A d \in Clients \ {c} : stage'[d] = stage[d] /\ req'[d] = req[d]
  PROVE  \A d \in Clients \ {c} : RequestFits(d)'
  <1>1. \A d \in Clients : stage[d] # "idle" => req[d].sub \in Subs
    BY NullAssumption DEF SubTypes, SubTypeOK, RequestFits, Requests
  <1>. QED  BY <1>1 DEF SubTypes, SubTypeOK, RequestFits

LEMMA StripePreserves == SubIInv /\ Stripe => SubIInv'
  <1>. SUFFICES ASSUME SubIInv, Stripe  PROVE SubIInv'
    OBVIOUS
  <1>0. UNCHANGED <<ours, rows, recorded, stage, req, cancels, settled, why, missed>>
    BY DEF Stripe, subHistory
  <1>1. ASSUME NEW s \in Subs, NEW x \in Copies, x.status # "none",
               stripe' = [stripe EXCEPT ![s] = x], NEW kinds, Emit(s, kinds),
               kinds \in {{"snapshot"}, {"failed"}, {"snapshot", "paid"}, {"snapshot", "failed"}},
               "snapshot" \in kinds \/ (x = stripe[s] /\ emitted[s] > 0),
               emitted[s] = 0 => kinds = {"snapshot"},
               collected' = IF "paid" \in kinds THEN [collected EXCEPT ![s] = @ + 1] ELSE collected
        PROVE  SubIInv'
    <2>1. stripe' \in [Subs -> Copies] /\ stripe'[s] = x
          /\ \A t \in Subs \ {s} : stripe'[t] = stripe[t]
      BY <1>1 DEF SubIInv, SubTypes, SubTypeOK
    <2>2. SubTypes
      BY DEF SubIInv
    <2>3. /\ emitted' \in [Subs -> 0 .. MaxEvents] /\ emitted'[s] > emitted[s]
          /\ \A t \in Subs \ {s} : emitted'[t] = emitted[t]
      BY <1>1, <2>1, <2>2, EmitsEvents
    <2>4. PICK N : /\ mail' = mail \cup N
                   /\ \A e \in N : /\ e \in SubEvents /\ e.sub = s /\ e.copy = stripe'[s]
                                   /\ e.kind \in kinds
                                   /\ e.n \in emitted[s] + 1 .. emitted'[s]
                                   /\ kinds = {"snapshot"} => e.n = emitted[s] + 1
                   /\ \A e, f \in N : e.n = f.n \/ e.kind = f.kind => e = f
                   /\ \A k \in kinds : \E e \in N : e.kind = k
      BY <1>1, <2>1, <2>2, EmitsEvents
    <2>5. emitted[s] \in Nat /\ emitted'[s] \in Nat
      BY <2>2, <2>3 DEF SubTypes, SubTypeOK
    <2>6. collected' \in [Subs -> Nat]
      BY <1>1, <2>2 DEF SubTypes, SubTypeOK
    <2>7. SubTypes'
      <3>1. SubTypeOK'
        BY <1>0, <2>1, <2>2, <2>3, <2>4, <2>6 DEF SubTypes, SubTypeOK
      <3>2. \A d \in Clients : RequestFits(d)'
        BY <1>0, <2>2 DEF SubTypes, RequestFits, Has
      <3>. QED  BY <3>1, <3>2 DEF SubTypes
    <2>8. Out' = Out \cup N /\ Numbered'
      BY <1>0, <2>2, <2>3, <2>4, <2>5, <2>7, SameHands DEF SubIInv
    <2>9. Announces(s, N)
      <3>1. \A e \in N : e.sub = s /\ e.copy = stripe'[s] /\ e.n > emitted[s]
        BY <2>4, <2>5
      <3>2. stripe'[s] = stripe[s] \/ \E e \in N : e.kind = "snapshot"
        BY <1>1, <2>1, <2>4
      <3>3. emitted'[s] = 0 <=> stripe'[s].status = "none"
        BY <1>1, <2>1, <2>3, <2>5
      <3>4. emitted[s] = 0 => \E e \in N : e.kind = "snapshot" /\ e.n = 1
        BY <1>1, <2>4
      <3>5. \A e \in N : e.kind = "paid" => emitted[s] > 0
        BY <1>1, <2>4, <2>5
      <3>. QED  BY <2>1, <2>3, <2>5, <3>1, <3>2, <3>3, <3>4, <3>5 DEF Announces
    <2>10. \A t \in Subs \ {s} : collected'[t] = collected[t]
      BY <1>1, <2>2 DEF SubTypes, SubTypeOK
    <2>11. \/ collected'[s] = collected[s] /\ \A e \in N : e.kind # "paid"
           \/ /\ collected'[s] = collected[s] + 1
              /\ \E e \in N : e.kind = "paid" /\ \A f \in N : f.kind = "paid" => f = e
      <3>1. CASE "paid" \in kinds
        BY <1>1, <2>2, <2>4, <3>1 DEF SubTypes, SubTypeOK
      <3>2. CASE "paid" \notin kinds
        BY <1>1, <2>4, <3>2
      <3>. QED  BY <3>1, <3>2
    <2>. QED  BY <1>0, <2>7, <2>8, <2>9, <2>10, <2>11, AnnouncementPreserves
  <1>2. ASSUME NEW s \in Subs  PROVE /\ stripe[s] \in Copies /\ stripe[s].cancelAt \in BOOLEAN
                                     /\ emitted[s] \in Nat
                                     /\ stripe = [stripe EXCEPT ![s] = stripe[s]]
                                     /\ stripe[s].status # "none" => emitted[s] > 0
    BY DEF SubIInv, SubTypes, SubTypeOK, Copies, RowOrReason
  <1>3. ASSUME NEW s \in Subs, NEW status \in {"incomplete", "trialing"}, Subscribe(s, status)
        PROVE  SubIInv'
    <2>. DEFINE x == [status |-> status, cancelAt |-> FALSE]
    <2>1. x \in Copies /\ x.status # "none"
      BY DEF Copies, Live
    <2>2. /\ stripe' = [stripe EXCEPT ![s] = x] /\ Emit(s, {"snapshot"}) /\ collected' = collected
      BY <1>3 DEF Subscribe, Become
    <2>. HIDE DEF x
    <2>. QED  BY <1>1, <2>1, <2>2
  <1>4. ASSUME NEW s \in Subs, Collect(s)
        PROVE  SubIInv'
    <2>. DEFINE x == [status |-> "active", cancelAt |-> stripe[s].cancelAt]
    <2>1. x \in Copies /\ x.status # "none"
      BY <1>2 DEF Copies, Live
    <2>2. /\ stripe' = [stripe EXCEPT ![s] = x] /\ Emit(s, {"snapshot", "paid"})
          /\ collected' = [collected EXCEPT ![s] = @ + 1] /\ stripe[s].status # "none"
      BY <1>4 DEF Collect, Become, Live
    <2>. HIDE DEF x
    <2>3. PICK kinds : kinds = {"snapshot", "paid"}
      OBVIOUS
    <2>4. "snapshot" \in kinds /\ "paid" \in kinds /\ emitted[s] # 0
      BY <1>2, <2>2, <2>3
    <2>. QED  BY <1>1, <2>1, <2>2, <2>3, <2>4
  <1>5. ASSUME NEW s \in Subs, ChargeFails(s)
        PROVE  SubIInv'
    <2>1. CASE stripe[s].status = "incomplete" /\ UNCHANGED stripe /\ Emit(s, {"failed"})
      BY <1>1, <1>2, <1>5, <2>1 DEF ChargeFails
    <2>2. ASSUME NEW status \in {"past_due", "unpaid", "canceled"},
                 Become(s, status, stripe[s].cancelAt), Emit(s, {"snapshot", "failed"}),
                 stripe[s].status # "none"
          PROVE  SubIInv'
      <3>. DEFINE x == [status |-> status, cancelAt |-> stripe[s].cancelAt]
      <3>1. x \in Copies /\ x.status # "none"
        BY <1>2 DEF Copies, Live, Over
      <3>2. stripe' = [stripe EXCEPT ![s] = x] /\ collected' = collected
        BY <1>5, <2>2 DEF ChargeFails, Become
      <3>. HIDE DEF x
      <3>3. PICK kinds : kinds = {"snapshot", "failed"}
        OBVIOUS
      <3>4. "snapshot" \in kinds /\ "paid" \notin kinds /\ emitted[s] # 0
        BY <1>2, <2>2, <3>3
      <3>. QED  BY <1>1, <2>2, <3>1, <3>2, <3>3, <3>4
    <2>. QED  BY <1>5, <2>1, <2>2 DEF ChargeFails
  <1>6. ASSUME NEW s \in Subs, Change(s)
        PROVE  SubIInv'
    <2>1. PICK status \in Live \cup Over, cancelAt \in BOOLEAN : Become(s, status, cancelAt)
      BY <1>2, <1>6 DEF Change, Live, Over
    <2>. DEFINE x == [status |-> status, cancelAt |-> cancelAt]
    <2>2. x \in Copies /\ x.status # "none"
      BY DEF Copies, Live, Over
    <2>3. /\ stripe' = [stripe EXCEPT ![s] = x] /\ Emit(s, {"snapshot"}) /\ collected' = collected
          /\ stripe[s].status # "none"
      BY <1>6, <2>1 DEF Change, Become, Live
    <2>. HIDE DEF x
    <2>. QED  BY <1>1, <1>2, <2>2, <2>3
  <1>. QED  BY <1>3, <1>4, <1>5, <1>6 DEF Stripe

-----------------------------------------------------------------------------
(* The steps of the servers. *)

LEMMA NothingNew ==
  ASSUME SubIInv, SubTypes', Out' = Out, Numbered',
         UNCHANGED <<stripe, ours, emitted, collected, rows, recorded, settled, why, missed>>,
         \A d \in Clients : stage'[d] = "marking" =>
           \/ stage[d] = "marking" /\ req'[d] = req[d]
           \/ req'[d].n = -1
  PROVE  SubIInv'
  <1>1. InOrder' /\ Marks' /\ RowOrReason' /\ FirstComesFirst' /\ InvoicesCounted'
    <2>1. \A t : \A n \in Int : OnItsWay(t, n)' <=> OnItsWay(t, n)
      BY DEF OnItsWay
    <2>2. InOrder'
      BY OutAreEvents DEF SubIInv, InOrder, OnItsWay
    <2>3. ASSUME NEW d \in Clients, stage'[d] = "marking", req'[d].n # -1
          PROVE  stage[d] = "marking" /\ req'[d] = req[d]
      BY <2>3
    <2>4. Marks'
      BY <2>3 DEF SubIInv, Marks, OnItsWay
    <2>5. RowOrReason'
      BY DEF SubIInv, RowOrReason, OnItsWay, Shows, Excused, Has
    <2>6. FirstComesFirst'
      BY DEF SubIInv, FirstComesFirst, FirstOnItsWay, Has
    <2>7. \A t \in Subs : Unrecorded(t)' = Unrecorded(t)
      BY DEF Unrecorded
    <2>8. InvoicesCounted'
      BY <2>7 DEF SubIInv, InvoicesCounted
    <2>. QED  BY <2>2, <2>4, <2>5, <2>6, <2>8
  <1>2. RowsAreFinite'
    BY DEF SubIInv, RowsAreFinite, Has
  <1>. QED  BY <1>1, <1>2 DEF SubIInv

LEMMA IdleTypes ==
  ASSUME SubTypes, NEW c \in Clients, Idle(c)
  PROVE  /\ stage'[c] = "idle" /\ req'[c] = NoRequest
         /\ stage' \in [Clients -> {"idle", "handling", "cancelling", "marking"}]
         /\ req' \in [Clients -> Requests \cup {NoRequest}]
         /\ \A d \in Clients \ {c} : stage'[d] = stage[d] /\ req'[d] = req[d]
  BY DEF Idle, SubTypes, SubTypeOK

LEMMA DonePreserves ==
  ASSUME SubIInv, NEW x \in Out, Out' = Out \ {x}, Numbered', SubTypes', RowsAreFinite',
         NEW s \in Subs, x.sub = s,
         UNCHANGED <<stripe, ours, emitted, collected>>, Settles(x),
         \A d \in Clients : stage'[d] = "marking" => stage[d] = "marking" /\ req'[d] = req[d],
         \A t \in Subs \ {s} : rows'[t] = rows[t] /\ why'[t] = why[t],
         Has(s) => Has(s)',
         "lost" \in why[s] => Has(s)' \/ "lost" \in why'[s],
         x.kind = "snapshot" /\ ours[s] => Has(s)' \/ "lost" \in why'[s],
         ours[s] /\ emitted[s] > 0 => OnItsWay(s, 0)' \/ Shows(s)' \/ Excused(s)',
         ~ ours[s] => ~ Has(s)',
         \A t \in Subs : recorded'[t] + missed'[t] =
                           recorded[t] + missed[t] + (IF x.kind = "paid" /\ t = s THEN 1 ELSE 0)
  PROVE  SubIInv'
  <1>0. SubTypes /\ Numbered /\ RowOrReason /\ InOrder /\ Marks /\ FirstComesFirst
        /\ InvoicesCounted
    BY DEF SubIInv
  <1>1. InOrder' /\ Marks'
    BY <1>0, DoneInOrder, DoneMarks
  <1>2. RowOrReason'
    BY <1>0, DoneOrReason
  <1>3. FirstComesFirst'
    <2>1. \A t \in Subs : /\ Has(t) => Has(t)'
                          /\ "lost" \in why[t] => Has(t)' \/ "lost" \in why'[t]
      BY DEF Has
    <2>. QED  BY <1>0, <2>1, DoneFirst
  <1>4. InvoicesCounted'
    BY <1>0, DoneCounted
  <1>. QED  BY <1>1, <1>2, <1>3, <1>4 DEF SubIInv

(* An invoice that finds no row finds a reason: its subscription is not     *)
(* ours, or the first event is on its way still, or is lost.               *)
LEMMA InvoiceTooEarly ==
  ASSUME SubIInv, NEW e \in mail, e.kind = "paid", ~ Has(e.sub), ours[e.sub]
  PROVE  Outstanding(e.sub, e.n) \/ "lost" \in why[e.sub]
  <1>. DEFINE s == e.sub
  <1>1. e \in Out /\ s \in Subs /\ e.n \in Nat /\ emitted[s] \in Nat
    BY DEF Out, SubIInv, SubTypes, SubTypeOK, SubEvents
  <1>2. emitted[s] > 0 /\ e.n > 1
    BY <1>1 DEF SubIInv, Numbered, FirstComesFirst
  <1>3. CASE FirstOnItsWay(s)
    <2>1. PICK f \in Out : f.sub = s /\ f.n = 1
      BY <1>3 DEF FirstOnItsWay
    <2>2. CASE f \in mail
      BY <1>2, <2>1, <2>2 DEF Outstanding
    <2>3. CASE f \in Held
      <3>1. PICK d \in Clients : stage[d] = "handling" /\ f = InHand(d)
        BY <2>3 DEF Held
      <3>2. req[d] # NoRequest /\ req[d].op \in Kinds /\ req[d].sub = s /\ req[d].n = 1
        BY <2>1, <3>1, HeldIsEvent DEF SubIInv, SubTypes, RequestFits
      <3>. QED  BY <1>2, <3>2 DEF Outstanding
    <2>. QED  BY <2>1, <2>2, <2>3 DEF Out
  <1>. QED  BY <1>1, <1>2, <1>3 DEF SubIInv, FirstComesFirst

LEMMA IgnoredPreserves ==
  ASSUME SubIInv, NEW c \in Clients, NEW e \in mail, Receive(c, e), Ignores(e)  PROVE SubIInv'
  <1>. DEFINE s == e.sub
  <1>1. /\ mail' = mail \ {e}
        /\ UNCHANGED <<stage, req, stripe, ours, emitted, collected, rows, recorded, cancels,
                       settled, why>>
        /\ missed' = IF e.kind = "paid"
                        /\ (~ ours[s] \/ Outstanding(s, e.n) \/ "lost" \in why[s])
                     THEN [missed EXCEPT ![s] = @ + 1] ELSE missed
    BY DEF Receive
  <1>2. /\ e \in Out /\ s \in Subs /\ e.kind \in Kinds /\ e.n \in Nat
        /\ missed \in [Subs -> Nat] /\ recorded \in [Subs -> Nat] /\ settled \in [Subs -> Nat]
    BY DEF Out, SubIInv, SubTypes, SubTypeOK, SubEvents
  <1>3. Out' = Out \ {e} /\ Numbered'
    BY <1>1, EventIgnored DEF SubIInv
  <1>4. IF e.kind = "snapshot" THEN ~ ours[s] ELSE ~ Has(s)
    BY DEF Ignores
  <1>5. missed' = IF e.kind = "paid" THEN [missed EXCEPT ![s] = @ + 1] ELSE missed
    BY <1>1, <1>4, InvoiceTooEarly
  <1>6. missed' \in [Subs -> Nat]
    BY <1>2, <1>5
  <1>7. SubTypes'
    <2>1. SubTypeOK'
      BY <1>1, <1>6 DEF SubIInv, SubTypes, SubTypeOK
    <2>2. \A d \in Clients : RequestFits(d)'
      BY <1>1 DEF SubIInv, SubTypes, RequestFits, Has
    <2>. QED  BY <2>1, <2>2 DEF SubTypes
  <1>8. RowsAreFinite'
    BY <1>1 DEF SubIInv, RowsAreFinite, Has
  <1>9. Settles(e)
    BY <1>1, <1>2, <1>4 DEF Settles
  <1>10. \A t \in Subs : recorded'[t] + missed'[t] =
                           recorded[t] + missed[t] + (IF e.kind = "paid" /\ t = s THEN 1 ELSE 0)
    BY <1>1, <1>2, <1>5
  <1>11. ours[s] /\ emitted[s] > 0 => OnItsWay(s, 0)' \/ Shows(s)' \/ Excused(s)'
    <2>1. SUFFICES ASSUME ours[s], emitted[s] > 0
                   PROVE  OnItsWay(s, 0)' \/ Shows(s)' \/ Excused(s)'
      OBVIOUS
    <2>2. OnItsWay(s, 0) \/ Shows(s) \/ Excused(s)
      BY <1>2, <2>1 DEF SubIInv, RowOrReason
    <2>3. OnItsWay(s, 0) => OnItsWay(s, 0)'
      BY <1>1, <1>2, <1>3, <1>4, <2>1, OutAreEvents, OthersOnTheirWay DEF SubIInv
    <2>4. Shows(s) => Shows(s)'
      BY <1>1 DEF Shows, Has
    <2>5. Excused(s) => Excused(s)'
      BY <1>1 DEF Excused
    <2>. QED  BY <2>2, <2>3, <2>4, <2>5
  <1>12. ~ ours[s] => ~ Has(s)'
    BY <1>1, <1>2 DEF SubIInv, RowOrReason, Has
  <1>13. Has(s) => Has(s)'
    BY <1>1 DEF Has
  <1>14. "lost" \in why[s] => "lost" \in why'[s]
    BY <1>1
  <1>15. \A t \in Subs \ {s} : rows'[t] = rows[t] /\ why'[t] = why[t]
    BY <1>1
  <1>16. \A d \in Clients : stage'[d] = "marking" => stage[d] = "marking" /\ req'[d] = req[d]
    BY <1>1
  <1>. HIDE DEF s
  <1>17. e.sub = s
    BY DEF s
  <1>18. ~ (e.kind = "snapshot" /\ ours[s])
    BY <1>4
  <1>. QED  BY <1>1, <1>2, <1>3, <1>7, <1>8, <1>9, <1>10, <1>11, <1>12, <1>13, <1>14, <1>15,
               <1>16, <1>17, <1>18, DonePreserves

LEMMA TakenPreserves ==
  ASSUME SubIInv, NEW c \in Clients, NEW e \in mail, Receive(c, e), ~ Ignores(e)  PROVE SubIInv'
  <1>. DEFINE r == [op |-> e.kind, sub |-> e.sub, n |-> e.n, copy |-> e.copy,
                    status |-> "INCOMPLETE", found |-> Has(e.sub)]
  <1>1. /\ stage[c] = "idle" /\ mail' = mail \ {e} /\ stage' = [stage EXCEPT ![c] = "handling"]
        /\ req' = [req EXCEPT ![c] = r]
        /\ UNCHANGED <<stripe, ours, emitted, collected, rows, recorded, cancels, settled, why,
                       missed>>
    BY DEF Receive
  <1>2. e \in SubEvents
    BY DEF SubIInv, SubTypes, SubTypeOK
  <1>3. r \in Requests
    BY <1>2 DEF Requests, SubEvents, SubscriptionStatus, Has
  <1>4. /\ r.op = e.kind /\ r.sub = e.sub /\ r.n = e.n /\ r.copy = e.copy /\ r.found = Has(e.sub)
        /\ e.n \in Nat /\ e.sub \in Subs /\ e.kind \in Kinds
    BY <1>2 DEF SubEvents
  <1>. HIDE DEF r
  <1>5. /\ stage'[c] = "handling" /\ req'[c] = r
        /\ \A d \in Clients \ {c} : stage'[d] = stage[d] /\ req'[d] = req[d]
    BY <1>1 DEF SubIInv, SubTypes, SubTypeOK
  <1>6. InHand(c)' = e
    BY <1>2, <1>4, <1>5 DEF InHand, SubEvents
  <1>7. Out' = Out /\ Numbered'
    BY <1>1, <1>5, <1>6, EventTaken DEF SubIInv
  <1>8. SubTypeOK'
    BY <1>1, <1>3 DEF SubIInv, SubTypes, SubTypeOK
  <1>9. RequestFits(c)'
    <2>1. e.kind = "snapshot" => ours[e.sub]
      BY DEF Ignores
    <2>2. e.kind # "snapshot" => Has(e.sub)
      BY DEF Ignores
    <2>. QED  BY <1>1, <1>3, <1>4, <1>5, <2>1, <2>2, NullAssumption DEF RequestFits, Has
  <1>10. SubTypes'
    <2>1. \A t \in Subs : Has(t) => Has(t)'
      BY <1>1 DEF Has
    <2>. QED  BY <1>1, <1>5, <1>8, <1>9, <2>1, OthersFit DEF SubIInv, SubTypes
  <1>11. \A d \in Clients : stage'[d] = "marking" => stage[d] = "marking" /\ req'[d] = req[d]
    BY <1>5
  <1>. QED  BY <1>1, <1>7, <1>10, <1>11, NothingNew

(* One more row at most. *)
LEMMA OneMoreRow ==
  ASSUME RowsAreFinite, NEW s \in Subs, \A t \in Subs \ {s} : rows'[t] = rows[t]
  PROVE  RowsAreFinite'
  <1>1. {t \in Subs : Has(t)}' \subseteq {t \in Subs : Has(t)} \cup {s}
    BY DEF Has
  <1>2. IsFiniteSet({t \in Subs : Has(t)} \cup {s})
    BY FS_AddElement DEF RowsAreFinite
  <1>. QED  BY <1>1, <1>2, FS_Subset DEF RowsAreFinite

(* What a handler has in its hands, and what it leaves when it is done.     *)
LEMMA HandlerDone ==
  ASSUME SubIInv, NEW c \in Clients, stage[c] = "handling", Idle(c), mail' = mail,
         UNCHANGED <<emitted, ours>>, \A t \in Subs : Has(t) => Has(t)', NEW x, x = InHand(c)
  PROVE  /\ x \in Out /\ x.sub = req[c].sub /\ x.n = req[c].n /\ x.kind = req[c].op
         /\ x.copy = req[c].copy /\ x.sub \in Subs /\ x.n \in Nat /\ x.kind \in Kinds
         /\ x.copy \in Copies
         /\ x.kind = "snapshot" => ours[x.sub] /\ (req[c].found => Has(x.sub))
         /\ x.kind # "snapshot" => Has(x.sub) /\ ours[x.sub]
         /\ Out' = Out \ {x} /\ Numbered'
         /\ stage' \in [Clients -> {"idle", "handling", "cancelling", "marking"}]
         /\ req' \in [Clients -> Requests \cup {NoRequest}]
         /\ \A d \in Clients : RequestFits(d)'
         /\ \A d \in Clients : stage'[d] = "marking" => stage[d] = "marking" /\ req'[d] = req[d]
  <1>1. SubTypes /\ Numbered
    BY DEF SubIInv
  <1>2. /\ stage'[c] = "idle" /\ req'[c] = NoRequest
        /\ stage' \in [Clients -> {"idle", "handling", "cancelling", "marking"}]
        /\ req' \in [Clients -> Requests \cup {NoRequest}]
        /\ \A d \in Clients \ {c} : stage'[d] = stage[d] /\ req'[d] = req[d]
    BY <1>1, IdleTypes
  <1>3. /\ x \in SubEvents /\ x \in Out /\ x.sub = req[c].sub /\ x.n = req[c].n
        /\ x.kind = req[c].op /\ x.copy = req[c].copy
    BY <1>1, HeldIsEvent
  <1>4. x.sub \in Subs /\ x.n \in Nat /\ x.kind \in Kinds /\ x.copy \in Copies
    BY <1>3 DEF SubEvents
  <1>5. /\ x.kind = "snapshot" => ours[x.sub] /\ (req[c].found => Has(x.sub))
        /\ x.kind # "snapshot" => Has(x.sub)
    BY <1>1, <1>3 DEF SubTypes, RequestFits
  <1>6. Has(x.sub) => ours[x.sub]
    BY <1>4 DEF SubIInv, RowOrReason
  <1>7. Out' = Out \ {x} /\ Numbered'
    BY <1>1, <1>2, EventDone
  <1>8. \A d \in Clients : RequestFits(d)'
    <2>1. RequestFits(c)'
      BY <1>2 DEF RequestFits
    <2>2. \A d \in Clients \ {c} : RequestFits(d)'
      BY <1>1, <1>2, OthersFit
    <2>. QED  BY <2>1, <2>2
  <1>. QED  BY <1>2, <1>3, <1>4, <1>5, <1>6, <1>7, <1>8

LEMMA MapSubStatusIsStatus == \A status : MapSubStatus(status) \in SubscriptionStatus
  BY DEF MapSubStatus, SubscriptionStatus

LEMMA OnSubscriptionEventPreserves ==
  ASSUME SubIInv, NEW c \in Clients, OnSubscriptionEvent(c)  PROVE SubIInv'
  <1>1. PICK x : x = InHand(c)
    OBVIOUS
  <1>2. PICK s : s = req[c].sub
    OBVIOUS
  <1>3. /\ stage[c] = "handling" /\ req[c].op = "snapshot" /\ Idle(c)
        /\ UNCHANGED <<stripe, ours, emitted, mail, collected, recorded, cancels, missed>>
        /\ settled' = [settled EXCEPT ![s] = IF req[c].n > @ THEN req[c].n ELSE @]
    BY <1>2 DEF OnSubscriptionEvent, outside, Settle
  <1>4. \/ /\ ~ req[c].found /\ Has(s) /\ rows' = rows
           /\ why' = [why EXCEPT ![s] = @ \cup {"lost"}]
        \/ \E made :
             /\ made = IF Has(s) THEN rows[s].made ELSE Cardinality({t \in Subs : Has(t)})
             /\ rows' = [rows EXCEPT ![s] = Snapshot(c, made)]
             /\ why' = [why EXCEPT ![s] = IF req[c].n > settled[s] THEN {} ELSE @ \cup {"late"}]
    <2>1. CASE req[c].found \/ ~ Has(s)
      <3>1. s \in Subs
        BY <1>2, <1>3, NullAssumption DEF SubIInv, SubTypes, SubTypeOK, RequestFits, Requests
      <3>2. rows' = [rows EXCEPT ![s] = Snapshot(c,
                        IF Has(s) THEN rows[s].made ELSE Cardinality({t \in Subs : Has(t)}))]
        BY <1>2, <2>1, <3>1 DEF OnSubscriptionEvent, SubIInv, SubTypes, SubTypeOK
      <3>3. why' = [why EXCEPT ![s] = IF req[c].n > settled[s] THEN {} ELSE @ \cup {"late"}]
        BY <1>2, <2>1 DEF OnSubscriptionEvent
      <3>. QED  BY <3>2, <3>3
    <2>2. CASE ~ (req[c].found \/ ~ Has(s))
      BY <1>2, <2>2 DEF OnSubscriptionEvent
    <2>. QED  BY <2>1, <2>2
  <1>5. s \in Subs
    BY <1>2, <1>3, NullAssumption DEF SubIInv, SubTypes, SubTypeOK, RequestFits, Requests
  <1>6. /\ rows \in [Subs -> Rows \cup {NoRow}] /\ why \in [Subs -> SUBSET Causes]
        /\ settled \in [Subs -> Nat]
    BY DEF SubIInv, SubTypes, SubTypeOK
  <1>7. /\ rows' \in [Subs -> Rows \cup {NoRow}] /\ why' \in [Subs -> SUBSET Causes]
        /\ \A t \in Subs \ {s} : rows'[t] = rows[t] /\ why'[t] = why[t]
        /\ Has(s)'
        /\ \/ "lost" \in why'[s]
           \/ /\ why'[s] = IF req[c].n > settled[s] THEN {} ELSE why[s] \cup {"late"}
              /\ rows'[s].status = MapSubStatus(req[c].copy.status)
              /\ rows'[s].cancelAt = req[c].copy.cancelAt
    <2>1. CASE ~ req[c].found /\ Has(s) /\ rows' = rows /\ why' = [why EXCEPT ![s] = @ \cup {"lost"}]
      BY <1>5, <1>6, <2>1 DEF Has, Causes
    <2>2. ASSUME NEW made,
                 made = IF Has(s) THEN rows[s].made ELSE Cardinality({t \in Subs : Has(t)}),
                 rows' = [rows EXCEPT ![s] = Snapshot(c, made)],
                 why' = [why EXCEPT ![s] = IF req[c].n > settled[s] THEN {} ELSE @ \cup {"late"}]
          PROVE  /\ rows' \in [Subs -> Rows \cup {NoRow}] /\ why' \in [Subs -> SUBSET Causes]
                 /\ \A t \in Subs \ {s} : rows'[t] = rows[t] /\ why'[t] = why[t]
                 /\ Has(s)'
                 /\ why'[s] = IF req[c].n > settled[s] THEN {} ELSE why[s] \cup {"late"}
                 /\ rows'[s].status = MapSubStatus(req[c].copy.status)
                 /\ rows'[s].cancelAt = req[c].copy.cancelAt
      <3>1. made \in Nat
        <4>1. Cardinality({t \in Subs : Has(t)}) \in Nat
          BY FS_CardinalityType DEF SubIInv, RowsAreFinite
        <4>2. Has(s) => rows[s].made \in Nat
          BY <1>5, <1>6 DEF Has, Rows
        <4>. QED  BY <2>2, <4>1, <4>2
      <3>2. PICK r : r = Snapshot(c, made)
        OBVIOUS
      <3>3. req[c] \in Requests
        BY <1>3, NullAssumption DEF SubIInv, SubTypes, SubTypeOK, RequestFits
      <3>4. /\ r \in Rows /\ r.status = MapSubStatus(req[c].copy.status)
            /\ r.cancelAt = req[c].copy.cancelAt
        BY <3>1, <3>2, <3>3, MapSubStatusIsStatus DEF Snapshot, Rows, Requests, Copies
      <3>5. /\ rows' \in [Subs -> Rows \cup {NoRow}] /\ rows'[s] = r
            /\ \A t \in Subs \ {s} : rows'[t] = rows[t]
        BY <1>5, <1>6, <2>2, <3>2, <3>4
      <3>6. /\ why' \in [Subs -> SUBSET Causes]
            /\ why'[s] = IF req[c].n > settled[s] THEN {} ELSE why[s] \cup {"late"}
            /\ \A t \in Subs \ {s} : why'[t] = why[t]
        BY <1>5, <1>6, <2>2 DEF Causes
      <3>. QED  BY <3>4, <3>5, <3>6, NullAssumption DEF Has
    <2>. QED  BY <1>4, <2>1, <2>2
  <1>8. /\ x \in Out /\ x.sub = s /\ x.n = req[c].n /\ x.kind = "snapshot" /\ x.copy = req[c].copy
        /\ x.n \in Nat /\ x.copy \in Copies /\ ours[s]
        /\ Out' = Out \ {x} /\ Numbered'
        /\ stage' \in [Clients -> {"idle", "handling", "cancelling", "marking"}]
        /\ req' \in [Clients -> Requests \cup {NoRequest}]
        /\ \A d \in Clients : RequestFits(d)'
        /\ \A d \in Clients : stage'[d] = "marking" => stage[d] = "marking" /\ req'[d] = req[d]
    <2>1. \A t \in Subs : Has(t) => Has(t)'
      BY <1>7 DEF Has
    <2>. QED  BY <1>1, <1>2, <1>3, <2>1, HandlerDone
  <1>9. settled' \in [Subs -> Nat] /\ Settles(x)
    BY <1>3, <1>5, <1>6, <1>8 DEF Settles
  <1>10. SubTypes'
    <2>1. SubTypeOK'
      BY <1>3, <1>7, <1>8, <1>9 DEF SubIInv, SubTypes, SubTypeOK
    <2>. QED  BY <1>8, <2>1 DEF SubTypes
  <1>11. RowsAreFinite'
    BY <1>5, <1>7, OneMoreRow DEF SubIInv
  <1>12. OnItsWay(s, 0)' \/ Shows(s)' \/ Excused(s)'
    <2>1. CASE "lost" \in why'[s]
      BY <2>1 DEF Excused
    <2>2. CASE /\ why'[s] = IF x.n > settled[s] THEN {} ELSE why[s] \cup {"late"}
               /\ rows'[s].status = MapSubStatus(x.copy.status)
               /\ rows'[s].cancelAt = x.copy.cancelAt
      <3>1. CASE x.n > settled[s]
        <4>1. x.copy = stripe[s] \/ OnItsWay(s, x.n)
          BY <1>8, <3>1 DEF SubIInv, InOrder
        <4>2. CASE x.copy = stripe[s]
          BY <1>3, <1>7, <2>2, <4>2 DEF Shows
        <4>3. CASE OnItsWay(s, x.n)
          <5>1. OnItsWay(s, x.n)'
            BY <1>3, <1>8, <4>3, OutAreEvents, OthersOnTheirWay DEF SubIInv
          <5>2. \A e \in Out' : e.n \in Nat
            BY <1>10, OutAreEventsNext DEF SubEvents
          <5>. QED  BY <1>8, <5>1, <5>2 DEF OnItsWay
        <4>. QED  BY <4>1, <4>2, <4>3
      <3>2. CASE ~ (x.n > settled[s])
        BY <2>2, <3>2 DEF Excused
      <3>. QED  BY <3>1, <3>2
    <2>. QED  BY <1>7, <1>8, <2>1, <2>2
  <1>13. \A t \in Subs : recorded'[t] + missed'[t] =
                           recorded[t] + missed[t] + (IF x.kind = "paid" /\ t = s THEN 1 ELSE 0)
    BY <1>3, <1>8 DEF SubIInv, SubTypes, SubTypeOK
  <1>. QED  BY <1>3, <1>5, <1>7, <1>8, <1>9, <1>10, <1>11, <1>12, <1>13, DonePreserves

LEMMA OnInvoicePaidPreserves ==
  ASSUME SubIInv, NEW c \in Clients, OnInvoicePaid(c)  PROVE SubIInv'
  <1>1. PICK x : x = InHand(c)
    OBVIOUS
  <1>2. /\ stage[c] = "handling" /\ req[c].op = "paid" /\ Idle(c)
        /\ UNCHANGED <<stripe, ours, emitted, mail, collected, rows, cancels, settled, why, missed>>
        /\ recorded' = [recorded EXCEPT ![req[c].sub] = @ + 1]
    BY DEF OnInvoicePaid, outside, subHistory
  <1>3. \A t \in Subs : Has(t)' <=> Has(t)
    BY <1>2 DEF Has
  <1>4. /\ x \in Out /\ x.sub = req[c].sub /\ x.kind = "paid" /\ x.sub \in Subs /\ x.n \in Nat
        /\ Has(x.sub) /\ ours[x.sub]
        /\ Out' = Out \ {x} /\ Numbered'
        /\ stage' \in [Clients -> {"idle", "handling", "cancelling", "marking"}]
        /\ req' \in [Clients -> Requests \cup {NoRequest}]
        /\ \A d \in Clients : RequestFits(d)'
        /\ \A d \in Clients : stage'[d] = "marking" => stage[d] = "marking" /\ req'[d] = req[d]
    BY <1>1, <1>2, <1>3, HandlerDone
  <1>5. PICK s \in Subs : s = x.sub
    BY <1>4
  <1>6. /\ recorded \in [Subs -> Nat] /\ missed \in [Subs -> Nat] /\ settled \in [Subs -> Nat]
    BY DEF SubIInv, SubTypes, SubTypeOK
  <1>7. recorded' = [recorded EXCEPT ![s] = recorded[s] + 1] /\ recorded' \in [Subs -> Nat]
    BY <1>2, <1>4, <1>5, <1>6
  <1>8. SubTypes'
    <2>1. SubTypeOK'
      BY <1>2, <1>4, <1>7 DEF SubIInv, SubTypes, SubTypeOK
    <2>. QED  BY <1>4, <2>1 DEF SubTypes
  <1>9. RowsAreFinite'
    BY <1>2, <1>3 DEF SubIInv, RowsAreFinite
  <1>10. Settles(x)
    BY <1>2, <1>4, <1>6 DEF Settles
  <1>11. ours[s] /\ emitted[s] > 0 => OnItsWay(s, 0)' \/ Shows(s)' \/ Excused(s)'
    <2>1. SUFFICES ASSUME ours[s], emitted[s] > 0
                   PROVE  OnItsWay(s, 0)' \/ Shows(s)' \/ Excused(s)'
      OBVIOUS
    <2>2. OnItsWay(s, 0) \/ Shows(s) \/ Excused(s)
      BY <2>1 DEF SubIInv, RowOrReason
    <2>3. OnItsWay(s, 0) => OnItsWay(s, 0)'
      BY <1>2, <1>4, OutAreEvents, OthersOnTheirWay DEF SubIInv
    <2>4. Shows(s) => Shows(s)'
      BY <1>2 DEF Shows, Has
    <2>5. Excused(s) => Excused(s)'
      BY <1>2 DEF Excused
    <2>. QED  BY <2>2, <2>3, <2>4, <2>5
  <1>12. \A t \in Subs : recorded'[t] + missed'[t] =
                           recorded[t] + missed[t] + (IF x.kind = "paid" /\ t = s THEN 1 ELSE 0)
    BY <1>2, <1>4, <1>5, <1>6, <1>7
  <1>13. /\ \A t \in Subs \ {s} : rows'[t] = rows[t] /\ why'[t] = why[t]
         /\ "lost" \in why[s] => "lost" \in why'[s]
         /\ ours[s]
    BY <1>2, <1>4, <1>5
  <1>. QED  BY <1>2, <1>3, <1>4, <1>5, <1>8, <1>9, <1>10, <1>11, <1>12, <1>13, DonePreserves

LEMMA OnInvoiceFailedPreserves ==
  ASSUME SubIInv, NEW c \in Clients, OnInvoiceFailed(c)  PROVE SubIInv'
  <1>1. PICK x : x = InHand(c)
    OBVIOUS
  <1>2. PICK s : s = req[c].sub
    OBVIOUS
  <1>3. PICK cause \in {"invoice", "late"} :
          cause = IF req[c].n > settled[s] THEN "invoice" ELSE "late"
    OBVIOUS
  <1>4. /\ stage[c] = "handling" /\ req[c].op = "failed" /\ Idle(c)
        /\ UNCHANGED <<stripe, ours, emitted, mail, collected, recorded, cancels, missed>>
        /\ rows' = [rows EXCEPT ![s].status = "PAST_DUE"]
        /\ why' = [why EXCEPT ![s] = @ \cup {cause}]
        /\ settled' = [settled EXCEPT ![s] = IF req[c].n > @ THEN req[c].n ELSE @]
    BY <1>2, <1>3 DEF OnInvoiceFailed, outside, Settle
  <1>5. s \in Subs /\ Has(s) /\ rows[s] \in Rows
    BY <1>2, <1>4, NullAssumption
    DEF SubIInv, SubTypes, SubTypeOK, RequestFits, Requests, Has
  <1>6. /\ rows \in [Subs -> Rows \cup {NoRow}] /\ why \in [Subs -> SUBSET Causes]
        /\ settled \in [Subs -> Nat] /\ recorded \in [Subs -> Nat] /\ missed \in [Subs -> Nat]
    BY DEF SubIInv, SubTypes, SubTypeOK
  <1>7. /\ rows' \in [Subs -> Rows \cup {NoRow}] /\ why' \in [Subs -> SUBSET Causes]
        /\ \A t \in Subs \ {s} : rows'[t] = rows[t] /\ why'[t] = why[t]
        /\ why'[s] = why[s] \cup {cause}
        /\ rows'[s].status = "PAST_DUE" /\ rows'[s].cancelAt = rows[s].cancelAt
        /\ Has(s)' /\ \A t \in Subs : Has(t) => Has(t)'
    <2>1. PICK r : r = [rows[s] EXCEPT !.status = "PAST_DUE"]
      OBVIOUS
    <2>2. r \in Rows /\ r.status = "PAST_DUE" /\ r.cancelAt = rows[s].cancelAt
      BY <1>5, <2>1 DEF Rows, SubscriptionStatus
    <2>3. /\ rows' \in [Subs -> Rows \cup {NoRow}] /\ rows'[s] = r
          /\ \A t \in Subs \ {s} : rows'[t] = rows[t]
      BY <1>4, <1>5, <1>6, <2>1, <2>2
    <2>4. /\ why' \in [Subs -> SUBSET Causes] /\ why'[s] = why[s] \cup {cause}
          /\ \A t \in Subs \ {s} : why'[t] = why[t]
      BY <1>4, <1>5, <1>6 DEF Causes
    <2>5. Has(s)' /\ \A t \in Subs : Has(t) => Has(t)'
      BY <2>2, <2>3, NullAssumption DEF Has
    <2>. QED  BY <2>2, <2>3, <2>4, <2>5
  <1>8. /\ x \in Out /\ x.sub = s /\ x.n = req[c].n /\ x.kind = "failed"
        /\ x.n \in Nat /\ ours[s]
        /\ Out' = Out \ {x} /\ Numbered'
        /\ stage' \in [Clients -> {"idle", "handling", "cancelling", "marking"}]
        /\ req' \in [Clients -> Requests \cup {NoRequest}]
        /\ \A d \in Clients : RequestFits(d)'
        /\ \A d \in Clients : stage'[d] = "marking" => stage[d] = "marking" /\ req'[d] = req[d]
    BY <1>1, <1>2, <1>4, <1>7, HandlerDone
  <1>9. settled' \in [Subs -> Nat] /\ Settles(x)
    BY <1>4, <1>5, <1>6, <1>8 DEF Settles
  <1>10. SubTypes'
    <2>1. SubTypeOK'
      BY <1>4, <1>7, <1>8, <1>9 DEF SubIInv, SubTypes, SubTypeOK
    <2>. QED  BY <1>8, <2>1 DEF SubTypes
  <1>11. RowsAreFinite'
    BY <1>5, <1>7, OneMoreRow DEF SubIInv
  <1>12. emitted[s] > 0 => OnItsWay(s, 0)' \/ Shows(s)' \/ Excused(s)'
    <2>1. SUFFICES ASSUME emitted[s] > 0
                   PROVE  OnItsWay(s, 0)' \/ Shows(s)' \/ Excused(s)'
      OBVIOUS
    <2>2. OnItsWay(s, 0) \/ Shows(s) \/ Excused(s)
      BY <1>5, <1>8, <2>1 DEF SubIInv, RowOrReason
    <2>3. OnItsWay(s, 0) => OnItsWay(s, 0)'
      BY <1>4, <1>8, OutAreEvents, OthersOnTheirWay DEF SubIInv
    <2>4. Shows(s) /\ cause = "invoice" => Shows(s)'
      BY <1>4, <1>7 DEF Shows
    <2>5. Excused(s) \/ cause = "late" => Excused(s)'
      BY <1>7 DEF Excused
    <2>. QED  BY <2>2, <2>3, <2>4, <2>5
  <1>13. \A t \in Subs : recorded'[t] + missed'[t] =
                           recorded[t] + missed[t] + (IF x.kind = "paid" /\ t = s THEN 1 ELSE 0)
    BY <1>4, <1>6, <1>8
  <1>. QED  BY <1>4, <1>5, <1>7, <1>8, <1>9, <1>10, <1>11, <1>12, <1>13, DonePreserves

(* A handler that ends early has lost its event.                           *)
LEMMA HandlerFails ==
  ASSUME SubIInv, NEW c \in Clients, stage[c] = "handling", SubFail(c)  PROVE SubIInv'
  <1>1. PICK x : x = InHand(c)
    OBVIOUS
  <1>2. PICK s : s = req[c].sub
    OBVIOUS
  <1>3. /\ Idle(c) /\ UNCHANGED <<stripe, ours, emitted, mail, collected, rows, recorded, cancels>>
        /\ why' = IF req[c].op \in {"snapshot", "failed"}
                  THEN [why EXCEPT ![s] = @ \cup {"lost"}] ELSE why
        /\ missed' = IF req[c].op = "paid" THEN [missed EXCEPT ![s] = @ + 1] ELSE missed
        /\ settled' = IF req[c].op \in {"snapshot", "failed"}
                      THEN [settled EXCEPT ![s] = IF req[c].n > @ THEN req[c].n ELSE @]
                      ELSE settled
    BY <1>2 DEF SubFail, outside, Settle
  <1>4. \A t \in Subs : Has(t)' <=> Has(t)
    BY <1>3 DEF Has
  <1>5. /\ x \in Out /\ x.sub = s /\ x.n = req[c].n /\ x.kind = req[c].op /\ s \in Subs
        /\ x.n \in Nat /\ x.kind \in Kinds /\ ours[s]
        /\ x.kind # "snapshot" => Has(s)
        /\ Out' = Out \ {x} /\ Numbered'
        /\ stage' \in [Clients -> {"idle", "handling", "cancelling", "marking"}]
        /\ req' \in [Clients -> Requests \cup {NoRequest}]
        /\ \A d \in Clients : RequestFits(d)'
        /\ \A d \in Clients : stage'[d] = "marking" => stage[d] = "marking" /\ req'[d] = req[d]
    BY <1>1, <1>2, <1>3, <1>4, HandlerDone
  <1>6. /\ why \in [Subs -> SUBSET Causes] /\ settled \in [Subs -> Nat]
        /\ recorded \in [Subs -> Nat] /\ missed \in [Subs -> Nat]
    BY DEF SubIInv, SubTypes, SubTypeOK
  <1>7. /\ why' \in [Subs -> SUBSET Causes] /\ \A t \in Subs \ {s} : why'[t] = why[t]
        /\ \A cause \in why[s] : cause \in why'[s]
        /\ x.kind # "paid" => "lost" \in why'[s]
    BY <1>3, <1>5, <1>6 DEF Causes, Kinds
  <1>8. settled' \in [Subs -> Nat] /\ Settles(x)
    BY <1>3, <1>5, <1>6 DEF Settles
  <1>9. /\ missed' \in [Subs -> Nat]
        /\ \A t \in Subs : recorded'[t] + missed'[t] =
                             recorded[t] + missed[t] + (IF x.kind = "paid" /\ t = s THEN 1 ELSE 0)
    BY <1>3, <1>5, <1>6
  <1>10. SubTypes'
    <2>1. SubTypeOK'
      BY <1>3, <1>5, <1>7, <1>8, <1>9 DEF SubIInv, SubTypes, SubTypeOK
    <2>. QED  BY <1>5, <2>1 DEF SubTypes
  <1>11. RowsAreFinite'
    BY <1>3, <1>4 DEF SubIInv, RowsAreFinite
  <1>12. emitted[s] > 0 => OnItsWay(s, 0)' \/ Shows(s)' \/ Excused(s)'
    <2>1. SUFFICES ASSUME emitted[s] > 0
                   PROVE  OnItsWay(s, 0)' \/ Shows(s)' \/ Excused(s)'
      OBVIOUS
    <2>2. OnItsWay(s, 0) \/ Shows(s) \/ Excused(s)
      BY <1>5, <2>1 DEF SubIInv, RowOrReason
    <2>3. x.kind = "paid" /\ OnItsWay(s, 0) => OnItsWay(s, 0)'
      BY <1>3, <1>5, OutAreEvents, OthersOnTheirWay DEF SubIInv
    <2>4. x.kind = "paid" /\ Shows(s) => Shows(s)'
      BY <1>3, <1>7 DEF Shows, Has
    <2>5. Excused(s) \/ x.kind # "paid" => Excused(s)'
      BY <1>7 DEF Excused
    <2>. QED  BY <2>2, <2>3, <2>4, <2>5
  <1>13. /\ \A t \in Subs \ {s} : rows'[t] = rows[t] /\ why'[t] = why[t]
         /\ "lost" \in why[s] => "lost" \in why'[s]
         /\ x.kind = "snapshot" => "lost" \in why'[s]
    BY <1>3, <1>7
  <1>. QED  BY <1>3, <1>4, <1>5, <1>8, <1>9, <1>10, <1>11, <1>12, <1>13, DonePreserves

-----------------------------------------------------------------------------
(* The steps of the cancellations. *)

(* A cancellation moves on and writes nothing.                             *)
LEMMA RequestMoves ==
  ASSUME SubIInv, NEW c \in Clients, stage[c] # "handling", stage'[c] # "handling", NEW s \in Subs,
         UNCHANGED <<stripe, ours, emitted, mail, collected, rows, recorded, settled, why, missed>>,
         cancels' \in 0 .. MaxCancels,
         stage' \in [Clients -> {"idle", "handling", "cancelling", "marking"}],
         req' \in [Clients -> Requests \cup {NoRequest}], RequestFits(c)',
         \A d \in Clients \ {c} : stage'[d] = stage[d] /\ req'[d] = req[d],
         stage'[c] = "marking" => req'[c].n = -1
  PROVE  SubIInv'
  <1>1. SubTypeOK'
    BY DEF SubIInv, SubTypes, SubTypeOK
  <1>2. SubTypes'
    <2>1. \A t \in Subs : Has(t) => Has(t)'
      BY DEF Has
    <2>. QED  BY <1>1, <2>1, OthersFit DEF SubIInv, SubTypes
  <1>3. PICK N : N = {}
    OBVIOUS
  <1>4. /\ mail' = mail \cup N /\ \A t \in Subs \ {s} : emitted'[t] = emitted[t]
        /\ emitted'[s] >= emitted[s]
        /\ \A e \in N : /\ e \in SubEvents /\ e.sub = s
                        /\ e.n \in emitted[s] + 1 .. emitted'[s]
        /\ \A e, f \in N : e.n = f.n => e = f
    BY <1>3 DEF SubIInv, SubTypes, SubTypeOK
  <1>5. \A d \in Clients : /\ stage'[d] = "handling" <=> stage[d] = "handling"
                           /\ stage[d] = "handling" => req'[d] = req[d]
    OBVIOUS
  <1>6. SubTypes /\ Numbered
    BY DEF SubIInv
  <1>7. Out' = Out \cup N /\ Numbered'
    BY <1>2, <1>4, <1>5, <1>6, SameHands
  <1>. QED  BY <1>2, <1>3, <1>7, NothingNew

LEMMA BeginCancelPreserves ==
  ASSUME SubIInv, NEW c \in Clients, NEW op \in Cancels, NEW s \in Subs, BeginCancel(c, op, s)
  PROVE  SubIInv'
  <1>1. PICK r : r = [op |-> op, sub |-> s, n |-> 0, copy |-> stripe[s],
                      status |-> rows[s].status, found |-> TRUE]
    OBVIOUS
  <1>2. /\ stage[c] = "idle" /\ cancels < MaxCancels /\ cancels' = cancels + 1 /\ Has(s)
        /\ stage' = [stage EXCEPT ![c] = "cancelling"] /\ req' = [req EXCEPT ![c] = r]
        /\ UNCHANGED <<stripe, ours, emitted, mail, collected, rows, recorded, settled, why, missed>>
    BY <1>1 DEF BeginCancel, outside, subHistory
  <1>3. r \in Requests /\ r.op \in Cancels /\ r.sub = s
    <2>1. stripe[s] \in Copies /\ rows[s] \in Rows
      BY <1>2 DEF SubIInv, SubTypes, SubTypeOK, Has
    <2>. QED  BY <1>1, <2>1 DEF Requests, Rows
  <1>4. /\ stage'[c] = "cancelling" /\ req'[c] = r
        /\ stage' \in [Clients -> {"idle", "handling", "cancelling", "marking"}]
        /\ req' \in [Clients -> Requests \cup {NoRequest}]
        /\ \A d \in Clients \ {c} : stage'[d] = stage[d] /\ req'[d] = req[d]
    BY <1>2, <1>3 DEF SubIInv, SubTypes, SubTypeOK
  <1>5. RequestFits(c)'
    BY <1>2, <1>3, <1>4, NullAssumption DEF RequestFits, Has
  <1>6. cancels' \in 0 .. MaxCancels
    BY <1>2, SubscriptionsAssumption DEF SubIInv, SubTypes, SubTypeOK
  <1>. QED  BY <1>2, <1>4, <1>5, <1>6, RequestMoves

(* A request for a cancellation, as it stands.                             *)
LEMMA CancelHeld ==
  ASSUME SubIInv, NEW c \in Clients, stage[c] \in {"cancelling", "marking"}
  PROVE  /\ req[c] \in Requests /\ req[c].op \in Cancels /\ req[c].sub \in Subs
         /\ req[c].n \in Nat \cup {-1} /\ req[c].status \in SubscriptionStatus
         /\ Has(req[c].sub) /\ ours[req[c].sub] /\ rows[req[c].sub] \in Rows
         /\ emitted[req[c].sub] \in Nat
  <1>1. req[c] \in Requests /\ req[c].op \in Cancels /\ Has(req[c].sub)
    BY DEF SubIInv, SubTypes, SubTypeOK, RequestFits
  <1>2. /\ req[c].sub \in Subs /\ req[c].n \in Nat \cup {-1}
        /\ req[c].status \in SubscriptionStatus
    BY <1>1 DEF Requests
  <1>. QED  BY <1>1, <1>2 DEF SubIInv, SubTypes, SubTypeOK, RowOrReason, Has

LEMMA CancelGivenUp ==
  ASSUME SubIInv, NEW c \in Clients, stage[c] \in {"cancelling", "marking"}, Idle(c),
         UNCHANGED <<stripe, ours, emitted, mail, collected, rows, recorded, cancels, settled, why,
                     missed>>
  PROVE  SubIInv'
  <1>1. /\ stage'[c] = "idle" /\ req'[c] = NoRequest
        /\ stage' \in [Clients -> {"idle", "handling", "cancelling", "marking"}]
        /\ req' \in [Clients -> Requests \cup {NoRequest}]
        /\ \A d \in Clients \ {c} : stage'[d] = stage[d] /\ req'[d] = req[d]
    BY IdleTypes DEF SubIInv
  <1>2. RequestFits(c)'
    BY <1>1 DEF RequestFits
  <1>3. cancels' \in 0 .. MaxCancels /\ req[c].sub \in Subs
    BY CancelHeld DEF SubIInv, SubTypes, SubTypeOK
  <1>. QED  BY <1>1, <1>2, <1>3, RequestMoves

LEMMA SubFailPreserves ==
  ASSUME SubIInv, NEW c \in Clients, SubFail(c)  PROVE SubIInv'
  <1>1. CASE stage[c] = "handling"
    BY <1>1, HandlerFails
  <1>2. CASE stage[c] \in {"cancelling", "marking"}
    <2>1. req[c].op \in Cancels
      BY <1>2, CancelHeld
    <2>2. /\ Idle(c)
          /\ UNCHANGED <<stripe, ours, emitted, mail, collected, rows, recorded, cancels, settled,
                         why, missed>>
      BY <2>1 DEF SubFail, outside, Cancels
    <2>. QED  BY <1>2, <2>2, CancelGivenUp
  <1>3. stage[c] \in {"handling", "cancelling", "marking"}
    BY DEF SubFail, SubIInv, SubTypes, SubTypeOK
  <1>. QED  BY <1>1, <1>2, <1>3

LEMMA StripeFailsPreserves ==
  ASSUME SubIInv, NEW c \in Clients, StripeFails(c)  PROVE SubIInv'
  <1>1. /\ stage[c] = "cancelling"
        /\ UNCHANGED <<stripe, ours, emitted, mail, collected, rows, recorded, cancels, settled,
                       why, missed>>
    BY DEF StripeFails, outside, subHistory
  <1>2. CASE Idle(c)
    BY <1>1, <1>2, CancelGivenUp
  <1>3. CASE stage' = [stage EXCEPT ![c] = "marking"] /\ req' = [req EXCEPT ![c].n = -1]
    <2>1. /\ req[c] \in Requests /\ req[c].op \in Cancels /\ req[c].sub \in Subs
          /\ Has(req[c].sub)
      BY <1>1, CancelHeld
    <2>2. PICK r : r = [req[c] EXCEPT !.n = -1]
      OBVIOUS
    <2>3. r \in Requests /\ r.op = req[c].op /\ r.sub = req[c].sub /\ r.n = -1
      BY <2>1, <2>2 DEF Requests
    <2>4. /\ stage'[c] = "marking" /\ req'[c] = r
          /\ stage' \in [Clients -> {"idle", "handling", "cancelling", "marking"}]
          /\ req' \in [Clients -> Requests \cup {NoRequest}]
          /\ \A d \in Clients \ {c} : stage'[d] = stage[d] /\ req'[d] = req[d]
      BY <1>3, <2>2, <2>3 DEF SubIInv, SubTypes, SubTypeOK
    <2>5. RequestFits(c)'
      BY <1>1, <2>1, <2>3, <2>4, NullAssumption DEF RequestFits, Has
    <2>6. cancels' \in 0 .. MaxCancels
      BY <1>1 DEF SubIInv, SubTypes, SubTypeOK
    <2>. QED  BY <1>1, <2>1, <2>3, <2>4, <2>5, <2>6, RequestMoves
  <1>. QED  BY <1>2, <1>3 DEF StripeFails

(* Stripe carries the cancellation out.                                    *)
LEMMA CallStripePreserves ==
  ASSUME SubIInv, NEW c \in Clients, NEW answered \in BOOLEAN, CallStripe(c, answered)
  PROVE  SubIInv'
  <1>1. PICK s : s = req[c].sub
    OBVIOUS
  <1>2. /\ stage[c] = "cancelling" /\ stripe[s].status \in Live
        /\ UNCHANGED <<ours, collected, rows, recorded, cancels, settled, why, missed>>
    BY <1>1 DEF CallStripe, subHistory
  <1>3. /\ req[c] \in Requests /\ req[c].op \in Cancels /\ s \in Subs /\ Has(s)
        /\ emitted[s] \in Nat /\ SubTypes
    BY <1>1, <1>2, CancelHeld DEF SubIInv
  <1>4. PICK x \in Copies : /\ stripe' = [stripe EXCEPT ![s] = x] /\ x.status # "none"
                            /\ Cancelled(req[c].op, x)
    <2>1. stripe[s] \in Copies /\ stripe[s].cancelAt \in BOOLEAN
      BY <1>3 DEF SubTypes, SubTypeOK, Copies
    <2>2. CASE req[c].op = "immediate"
      <3>1. PICK x : x = [status |-> "canceled", cancelAt |-> stripe[s].cancelAt]
        OBVIOUS
      <3>2. x \in Copies /\ x.status # "none" /\ Cancelled(req[c].op, x)
        BY <2>1, <2>2, <3>1 DEF Copies, Over, Cancelled
      <3>3. stripe' = [stripe EXCEPT ![s] = x]
        BY <1>1, <2>2, <3>1 DEF CallStripe, Become
      <3>. QED  BY <3>2, <3>3
    <2>3. CASE req[c].op # "immediate"
      <3>1. PICK x : x = [status |-> stripe[s].status, cancelAt |-> TRUE]
        OBVIOUS
      <3>2. x \in Copies /\ x.status # "none" /\ Cancelled(req[c].op, x)
        BY <1>2, <2>1, <2>3, <3>1 DEF Copies, Live, Cancelled
      <3>3. stripe' = [stripe EXCEPT ![s] = x]
        BY <1>1, <2>3, <3>1 DEF CallStripe, Become
      <3>. QED  BY <3>2, <3>3
    <2>. QED  BY <2>2, <2>3
  <1>5. /\ stripe' \in [Subs -> Copies] /\ stripe'[s] = x
        /\ \A t \in Subs \ {s} : stripe'[t] = stripe[t]
    BY <1>3, <1>4 DEF SubTypes, SubTypeOK
  <1>6. \E N : /\ mail' = mail \cup N /\ emitted' \in [Subs -> 0 .. MaxEvents]
               /\ emitted'[s] >= emitted[s]
               /\ \A t \in Subs \ {s} : emitted'[t] = emitted[t]
               /\ \A e \in N : /\ e \in SubEvents /\ e.sub = s /\ e.copy = stripe'[s]
                               /\ e.kind = "snapshot" /\ e.n \in emitted[s] + 1 .. emitted'[s]
               /\ \A e, f \in N : e.n = f.n => e = f
               /\ stripe'[s] = stripe[s] \/ N # {}
    <2>1. CASE stripe' = stripe
      <3>1. UNCHANGED <<emitted, mail>>
        BY <2>1 DEF CallStripe
      <3>2. PICK N : N = {}
        OBVIOUS
      <3>3. emitted' \in [Subs -> 0 .. MaxEvents] /\ emitted'[s] >= emitted[s]
        BY <1>3, <3>1 DEF SubTypes, SubTypeOK
      <3>4. \A t \in Subs \ {s} : emitted'[t] = emitted[t]
        BY <3>1
      <3>. QED  BY <2>1, <3>1, <3>2, <3>3, <3>4
    <2>2. CASE stripe' # stripe
      <3>1. Emit(s, {"snapshot"})
        BY <1>1, <2>2 DEF CallStripe
      <3>2. PICK kinds : kinds = {"snapshot"}
        OBVIOUS
      <3>3. /\ emitted' \in [Subs -> 0 .. MaxEvents] /\ emitted'[s] > emitted[s]
            /\ \A t \in Subs \ {s} : emitted'[t] = emitted[t]
            /\ \E N : /\ mail' = mail \cup N
                      /\ \A e \in N : /\ e \in SubEvents /\ e.sub = s /\ e.copy = stripe'[s]
                                      /\ e.kind \in kinds
                                      /\ e.n \in emitted[s] + 1 .. emitted'[s]
                                      /\ kinds = {"snapshot"} => e.n = emitted[s] + 1
                      /\ \A e, f \in N : e.n = f.n \/ e.kind = f.kind => e = f
                      /\ \A k \in kinds : \E e \in N : e.kind = k
        <4>1. Emit(s, kinds) /\ kinds \in {{"snapshot"}, {"failed"}, {"snapshot", "paid"},
                                           {"snapshot", "failed"}}
          BY <3>1, <3>2
        <4>. QED  BY <1>3, <1>5, <4>1, EmitsEvents
      <3>4. emitted'[s] >= emitted[s]
        BY <1>3, <3>3
      <3>. QED  BY <3>2, <3>3, <3>4
    <2>. QED  BY <2>1, <2>2
  <1>7. PICK N : /\ mail' = mail \cup N /\ emitted' \in [Subs -> 0 .. MaxEvents]
                 /\ emitted'[s] >= emitted[s]
                 /\ \A t \in Subs \ {s} : emitted'[t] = emitted[t]
                 /\ \A e \in N : /\ e \in SubEvents /\ e.sub = s /\ e.copy = stripe'[s]
                                 /\ e.kind = "snapshot" /\ e.n \in emitted[s] + 1 .. emitted'[s]
                 /\ \A e, f \in N : e.n = f.n => e = f
                 /\ stripe'[s] = stripe[s] \/ N # {}
    BY <1>6
  <1>8. PICK n : n = emitted'[s]
    OBVIOUS
  <1>9. n \in Nat /\ n >= emitted[s]
    BY <1>3, <1>7, <1>8
  <1>10. /\ stage' \in [Clients -> {"idle", "handling", "cancelling", "marking"}]
         /\ req' \in [Clients -> Requests \cup {NoRequest}]
         /\ \A d \in Clients \ {c} : stage'[d] = stage[d] /\ req'[d] = req[d]
         /\ \/ stage'[c] = "idle" /\ req'[c] = NoRequest
            \/ /\ stage'[c] = "marking" /\ req'[c] \in Requests
               /\ req'[c].op = req[c].op /\ req'[c].sub = s /\ req'[c].n = n
    <2>1. CASE Idle(c)
      BY <1>3, <2>1, IdleTypes
    <2>2. CASE stage' = [stage EXCEPT ![c] = "marking"] /\ req' = [req EXCEPT ![c].n = n]
      <3>1. PICK r : r = [req[c] EXCEPT !.n = n]
        OBVIOUS
      <3>2. r \in Requests /\ r.op = req[c].op /\ r.sub = s /\ r.n = n
        BY <1>1, <1>3, <1>9, <3>1 DEF Requests
      <3>. QED  BY <1>3, <2>2, <3>1, <3>2 DEF SubTypes, SubTypeOK
    <2>. QED  BY <1>1, <1>8, <2>1, <2>2 DEF CallStripe
  <1>11. SubTypes'
    <2>1. mail' \subseteq SubEvents
      BY <1>3, <1>7 DEF SubTypes, SubTypeOK
    <2>2. SubTypeOK'
      BY <1>2, <1>3, <1>5, <1>7, <1>10, <2>1 DEF SubTypes, SubTypeOK
    <2>3. RequestFits(c)'
      BY <1>2, <1>3, <1>10, NullAssumption DEF RequestFits, Has
    <2>4. \A t \in Subs : Has(t) => Has(t)'
      BY <1>2 DEF Has
    <2>. QED  BY <1>2, <1>3, <1>10, <2>2, <2>3, <2>4, OthersFit DEF SubTypes
  <1>12. Out' = Out \cup N /\ Numbered'
    <2>1. \A d \in Clients : /\ stage'[d] = "handling" <=> stage[d] = "handling"
                             /\ stage[d] = "handling" => req'[d] = req[d]
      BY <1>2, <1>10
    <2>2. Numbered
      BY DEF SubIInv
    <2>. QED  BY <1>3, <1>7, <1>11, <2>1, <2>2, SameHands
  <1>13. Announces(s, N)
    <2>1. emitted[s] > 0 /\ emitted'[s] > 0
      BY <1>2, <1>3, <1>8, <1>9 DEF SubIInv, RowOrReason, Live
    <2>2. \A e \in N : e.sub = s /\ e.copy = stripe'[s] /\ e.n > emitted[s]
      BY <1>3, <1>7, <1>8, <1>9
    <2>. QED  BY <1>3, <1>4, <1>5, <1>7, <1>9, <1>8, <2>1, <2>2 DEF Announces
  <1>14. \A e \in N : e.kind # "paid"
    BY <1>7
  <1>15. \A d \in Clients : stage'[d] = "marking" =>
           \/ stage[d] = "marking" /\ req'[d] = req[d]
           \/ req'[d].n = -1
           \/ /\ req'[d].sub = s /\ req'[d].n = emitted'[s]
              /\ Cancelled(req'[d].op, stripe'[s])
    BY <1>4, <1>5, <1>8, <1>10
  <1>. QED  BY <1>2, <1>3, <1>11, <1>12, <1>13, <1>14, <1>15, AnnouncementPreserves

(* The row is marked as Stripe's is, or there is a reason why it is not.    *)
LEMMA MarkPreserves ==
  ASSUME SubIInv, NEW c \in Clients, Mark(c)  PROVE SubIInv'
  <1>1. PICK r : r = req[c]
    OBVIOUS
  <1>2. PICK s : s = r.sub
    OBVIOUS
  <1>3. stage[c] = "marking"
    BY DEF Mark
  <1>4. /\ r \in Requests /\ r.op \in Cancels /\ s \in Subs /\ r.n \in Nat \cup {-1}
        /\ r.status \in SubscriptionStatus /\ Has(s) /\ ours[s] /\ rows[s] \in Rows
    BY <1>1, <1>2, <1>3, CancelHeld
  <1>5. PICK status : status = CASE r.op = "immediate" -> "CANCELED"
                                 [] r.op = "period end" -> r.status
                                 [] r.op = "mine" -> rows[s].status
    OBVIOUS
  <1>6. PICK causes : causes = (IF r.n = -1 THEN {"swallowed"} ELSE {})
          \cup (IF r.n # -1 /\ (settled[s] > r.n
                                \/ (r.op = "period end" /\ rows[s].status # r.status))
                THEN {"stale"} ELSE {})
    OBVIOUS
  <1>7. /\ rows' = [rows EXCEPT ![s].status = status, ![s].cancelAt = TRUE]
        /\ why' = [why EXCEPT ![s] = @ \cup (IF r.n = -1 THEN {"swallowed"} ELSE {})
             \cup (IF r.n # -1 /\ (settled[s] > r.n
                                   \/ (r.op = "period end" /\ rows[s].status # r.status))
                   THEN {"stale"} ELSE {})]
        /\ Idle(c)
        /\ UNCHANGED <<stripe, ours, emitted, mail, collected, recorded, cancels, settled, missed>>
    BY <1>1, <1>2, <1>5 DEF Mark, outside
  <1>8. status \in SubscriptionStatus /\ causes \subseteq Causes
    BY <1>4, <1>5, <1>6 DEF Cancels, SubscriptionStatus, Rows, Causes
  <1>9. /\ rows' \in [Subs -> Rows \cup {NoRow}] /\ Has(s)'
        /\ rows'[s].status = status /\ rows'[s].cancelAt = TRUE
        /\ \A t \in Subs \ {s} : rows'[t] = rows[t]
    <2>1. PICK row : row = [rows[s] EXCEPT !.status = status, !.cancelAt = TRUE]
      OBVIOUS
    <2>2. row \in Rows /\ row.status = status /\ row.cancelAt = TRUE
      BY <1>4, <1>8, <2>1 DEF Rows
    <2>3. rows \in [Subs -> Rows \cup {NoRow}]
      BY DEF SubIInv, SubTypes, SubTypeOK
    <2>4. rows' = [rows EXCEPT ![s] = row]
      BY <1>4, <1>7, <2>1, <2>3
    <2>5. /\ rows' \in [Subs -> Rows \cup {NoRow}] /\ rows'[s] = row
          /\ \A t \in Subs \ {s} : rows'[t] = rows[t]
      BY <1>4, <2>2, <2>3, <2>4
    <2>. QED  BY <2>2, <2>5, NullAssumption DEF Has
  <1>10. /\ why' \in [Subs -> SUBSET Causes] /\ why'[s] = why[s] \cup causes
         /\ \A t \in Subs \ {s} : why'[t] = why[t]
    <2>1. why \in [Subs -> SUBSET Causes]
      BY DEF SubIInv, SubTypes, SubTypeOK
    <2>2. why' = [why EXCEPT ![s] = why[s] \cup causes]
      BY <1>4, <1>6, <1>7, <2>1
    <2>. QED  BY <1>4, <1>8, <2>1, <2>2
  <1>11. /\ stage'[c] = "idle" /\ req'[c] = NoRequest
         /\ stage' \in [Clients -> {"idle", "handling", "cancelling", "marking"}]
         /\ req' \in [Clients -> Requests \cup {NoRequest}]
         /\ \A d \in Clients \ {c} : stage'[d] = stage[d] /\ req'[d] = req[d]
    BY <1>7, IdleTypes DEF SubIInv
  <1>12. \A t \in Subs : Has(t)' <=> Has(t)
    BY <1>4, <1>9 DEF Has
  <1>13. SubTypes'
    <2>1. SubTypeOK'
      BY <1>7, <1>9, <1>10, <1>11 DEF SubIInv, SubTypes, SubTypeOK
    <2>2. RequestFits(c)'
      BY <1>11 DEF RequestFits
    <2>. QED  BY <1>7, <1>11, <1>12, <2>1, <2>2, OthersFit DEF SubIInv, SubTypes
  <1>14. Out' = Out /\ Numbered'
    <2>1. \A d \in Clients : /\ stage'[d] = "handling" <=> stage[d] = "handling"
                             /\ stage[d] = "handling" => req'[d] = req[d]
                             /\ InHand(d)' = InHand(d) \/ stage[d] # "handling"
      BY <1>3, <1>11 DEF InHand
    <2>2. Held' = Held
      BY <2>1 DEF Held
    <2>3. Out' = Out
      BY <1>7, <2>2 DEF Out
    <2>. QED  BY <1>7, <2>1, <2>3 DEF SubIInv, Numbered
  <1>15. RowsAreFinite'
    BY <1>4, <1>9, OneMoreRow DEF SubIInv
  <1>16. InOrder'
    BY <1>7, <1>14 DEF SubIInv, InOrder, OnItsWay
  <1>17. Marks'
    <2>1. ASSUME NEW d \in Clients, stage'[d] = "marking", req'[d].n # -1
          PROVE  stage[d] = "marking" /\ req'[d] = req[d]
      BY <1>11, <2>1
    <2>2. Out' = Out /\ UNCHANGED <<stripe, emitted, settled>> /\ Marks
      BY <1>7, <1>14 DEF SubIInv
    <2>. QED  BY <2>1, <2>2 DEF Marks, OnItsWay
  <1>18. FirstComesFirst'
    <2>1. \A t \in Subs : "lost" \in why[t] => "lost" \in why'[t]
      BY <1>10
    <2>. QED  BY <1>7, <1>12, <1>14, <2>1 DEF SubIInv, FirstComesFirst, FirstOnItsWay
  <1>19. InvoicesCounted'
    <2>1. \A t \in Subs : Unrecorded(t)' = Unrecorded(t)
      BY <1>14 DEF Unrecorded
    <2>. QED  BY <1>7, <2>1 DEF SubIInv, InvoicesCounted
  <1>20. emitted[s] > 0 => OnItsWay(s, 0)' \/ Shows(s)' \/ Excused(s)'
    <2>0. SUFFICES ASSUME emitted[s] > 0
                   PROVE  OnItsWay(s, 0)' \/ Shows(s)' \/ Excused(s)'
      OBVIOUS
    <2>1. OnItsWay(s, 0) => OnItsWay(s, 0)'
      BY <1>7, <1>14 DEF OnItsWay
    <2>2. Excused(s) \/ ~ (causes \subseteq {"invoice"}) => Excused(s)'
      BY <1>10 DEF Excused
    <2>3. CASE causes # {}
      BY <1>6, <2>2, <2>3
    <2>4. CASE causes = {}
      <3>1. /\ r.n # -1 /\ ~ (settled[s] > r.n)
            /\ r.op = "period end" => rows[s].status = r.status
        BY <1>6, <2>4
      <3>2. OnItsWay(s, r.n) \/ Cancelled(r.op, stripe[s])
        BY <1>1, <1>2, <1>3, <3>1 DEF SubIInv, Marks
      <3>3. OnItsWay(s, r.n) => OnItsWay(s, 0)
        <4>1. \A e \in Out : e.n \in Nat
          BY OutAreEvents DEF SubIInv, SubEvents
        <4>2. r.n \in Nat
          BY <1>4, <3>1
        <4>3. \A m \in Nat : m > r.n => m > 0
          BY <4>2
        <4>. QED  BY <4>1, <4>3 DEF OnItsWay
      <3>4. OnItsWay(s, 0) \/ Shows(s) \/ Excused(s)
        BY <1>4, <2>0 DEF SubIInv, RowOrReason
      <3>5. CASE Shows(s) /\ Cancelled(r.op, stripe[s])
        <4>1. CASE r.op = "immediate"
          <5>1. stripe[s].status = "canceled" /\ status = "CANCELED"
            BY <1>5, <3>5, <4>1 DEF Cancelled
          <5>. QED  BY <1>7, <1>9, <5>1 DEF Shows, MapSubStatus, Live
        <4>2. CASE r.op # "immediate"
          <5>1. status = rows[s].status
            BY <1>4, <1>5, <3>1, <4>2 DEF Cancels
          <5>2. stripe[s].status \in Live => stripe[s].cancelAt \in BOOLEAN /\ stripe[s].cancelAt
            BY <1>4, <3>5, <4>2 DEF Cancelled, SubIInv, SubTypes, SubTypeOK, Copies
          <5>. QED  BY <1>7, <1>9, <1>10, <3>5, <5>1, <5>2 DEF Shows
        <4>. QED  BY <4>1, <4>2
      <3>. QED  BY <2>1, <2>2, <3>2, <3>3, <3>4, <3>5
    <2>. QED  BY <2>3, <2>4
  <1>21. RowOrReason'
    <2>1. ASSUME NEW t \in Subs, t # s, ours[t], emitted[t] > 0
          PROVE  OnItsWay(t, 0)' \/ Shows(t)' \/ Excused(t)'
      <3>1. OnItsWay(t, 0) \/ Shows(t) \/ Excused(t)
        BY <2>1 DEF SubIInv, RowOrReason
      <3>. QED  BY <1>7, <1>9, <1>10, <1>14, <2>1, <3>1 DEF OnItsWay, Shows, Excused, Has
    <2>. QED  BY <1>4, <1>7, <1>12, <1>20, <2>1 DEF SubIInv, RowOrReason
  <1>. QED  BY <1>13, <1>14, <1>15, <1>16, <1>17, <1>18, <1>19, <1>21 DEF SubIInv

LEMMA SubNextPreserves == SubIInv /\ [SubNext]_subVars => SubIInv'
  <1>. SUFFICES ASSUME SubIInv, [SubNext]_subVars  PROVE SubIInv'
    OBVIOUS
  <1>1. CASE Stripe
    BY <1>1, StripePreserves
  <1>2. ASSUME NEW c \in Clients, Server(c)
        PROVE  SubIInv'
    <2>1. ASSUME NEW e \in mail, Receive(c, e)  PROVE SubIInv'
      BY <2>1, TakenPreserves, IgnoredPreserves
    <2>2. CASE OnSubscriptionEvent(c)
      BY <2>2, OnSubscriptionEventPreserves
    <2>3. CASE OnInvoicePaid(c)
      BY <2>3, OnInvoicePaidPreserves
    <2>4. CASE OnInvoiceFailed(c)
      BY <2>4, OnInvoiceFailedPreserves
    <2>5. ASSUME NEW op \in Cancels, NEW s \in Subs, BeginCancel(c, op, s)  PROVE SubIInv'
      BY <2>5, BeginCancelPreserves
    <2>6. ASSUME NEW answered \in BOOLEAN, CallStripe(c, answered)  PROVE SubIInv'
      BY <2>6, CallStripePreserves
    <2>7. CASE StripeFails(c)
      BY <2>7, StripeFailsPreserves
    <2>8. CASE Mark(c)
      BY <2>8, MarkPreserves
    <2>9. CASE SubFail(c)
      BY <2>9, SubFailPreserves
    <2>. QED  BY <1>2, <2>1, <2>2, <2>3, <2>4, <2>5, <2>6, <2>7, <2>8, <2>9 DEF Server
  <1>3. CASE UNCHANGED subVars
    <2>1. UNCHANGED <<stripe, ours, emitted, mail, collected, rows, recorded, stage, req, cancels,
                      settled, why, missed>>
      BY <1>3 DEF subVars, outside, subHistory
    <2>2. \A d \in Clients : InHand(d)' = InHand(d)
      BY <2>1 DEF InHand
    <2>3. Out' = Out
      BY <2>1, <2>2 DEF Out, Held
    <2>4. Numbered'
      BY <2>1, <2>2, <2>3 DEF SubIInv, Numbered
    <2>5. SubTypes'
      BY <2>1 DEF SubIInv, SubTypes, SubTypeOK, RequestFits, Has
    <2>. QED  BY <2>1, <2>3, <2>4, <2>5, NothingNew
  <1>. QED  BY <1>1, <1>2, <1>3 DEF SubNext

(* SubIInv is an invariant: what the events that have not taken effect still *)
(* owe the rows and the payments, and what a request in progress may write. *)
THEOREM SubInvariance == SubSpec => []SubIInv
  BY SubInitIInv, SubNextPreserves, PTL DEF SubSpec

(* The tables and the requests hold what they are meant to: a cancellation  *)
(* never writes a status the row has no name for.                          *)
THEOREM SubTyped == SubSpec => []SubTypeOK
  <1>1. SubIInv => SubTypeOK
    BY DEF SubIInv, SubTypes
  <1>. QED  BY <1>1, SubInvariance, PTL

(* At rest, nothing about a subscription is on its way. *)
LEMMA NothingOut ==
  ASSUME SubTypes, NEW s \in Subs, AtRest(s)  PROVE \A e \in Out : e.sub # s
  <1>1. ASSUME NEW e \in Held  PROVE e.sub # s
    <2>1. PICK c \in Clients : stage[c] = "handling" /\ e = InHand(c)
      BY DEF Held
    <2>2. req[c] # NoRequest
      BY <2>1 DEF SubTypes, RequestFits
    <2>. QED  BY <2>1, <2>2, HeldIsEvent DEF AtRest
  <1>. QED  BY <1>1 DEF AtRest, Out

(* Once every event about a subscription has been handled, its row shows    *)
(* what Stripe has, unless one of the named causes disturbed it since its    *)
(* newest snapshot.                                                        *)
THEOREM RowsFollow == SubSpec => []RowFollowsStripe
  <1>1. SubIInv => RowFollowsStripe
    <2>. SUFFICES ASSUME SubIInv, NEW s \in Subs, AtRest(s), emitted[s] > 0,
                         why[s] \subseteq {"invoice"}
                  PROVE  IF ~ ours[s] THEN ~ Has(s)
                         ELSE /\ Has(s)
                              /\ \/ rows[s].status = MapSubStatus(stripe[s].status)
                                 \/ "invoice" \in why[s] /\ rows[s].status = "PAST_DUE"
                              /\ stripe[s].status \in Live => rows[s].cancelAt = stripe[s].cancelAt
      BY DEF RowFollowsStripe
    <2>1. ~ OnItsWay(s, 0)
      BY NothingOut DEF SubIInv, OnItsWay
    <2>. QED  BY <2>1 DEF SubIInv, RowOrReason, Shows, Excused
  <1>. QED  BY <1>1, SubInvariance, PTL

(* onInvoicePaid never writes one Payment row too many, and at rest there is *)
(* one for every invoice Stripe was paid, those on record as missed apart.   *)
THEOREM Recorded == SubSpec => []InvoicesAreRecorded
  <1>1. SubIInv => InvoicesAreRecorded
    <2>. SUFFICES ASSUME SubIInv, NEW s \in Subs
                  PROVE  /\ recorded[s] + missed[s] <= collected[s]
                         /\ AtRest(s) => recorded[s] + missed[s] = collected[s]
      BY DEF InvoicesAreRecorded
    <2>1. /\ recorded[s] \in Nat /\ missed[s] \in Nat /\ collected[s] \in Nat
          /\ recorded[s] + missed[s] + Cardinality(Unrecorded(s)) = collected[s]
      BY DEF SubIInv, SubTypes, SubTypeOK, InvoicesCounted
    <2>2. Cardinality(Unrecorded(s)) \in Nat
      BY UnrecordedIsFinite
    <2>3. AtRest(s) => Cardinality(Unrecorded(s)) = 0
      <3>1. AtRest(s) => Unrecorded(s) = {}
        BY NothingOut DEF SubIInv, Unrecorded
      <3>. QED  BY <3>1, FS_EmptySet
    <2>. QED  BY <2>1, <2>2, <2>3
  <1>. QED  BY <1>1, SubInvariance, PTL
================================================================================
