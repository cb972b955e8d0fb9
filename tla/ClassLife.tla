----------------------------- MODULE ClassLife -----------------------------
(***************************************************************************)
(* What the requests on scheduled classes promise of each class, however   *)
(* many they are: it lives once, and has one meeting at Zoom.  The meeting *)
(* is opened before anybody can see the class, and is there as long as the *)
(* class offers it; a class that has given its meeting up never offers one *)
(* again.  The meeting is closed once, after that.  Where a request breaks *)
(* off, the class keeps its life, but the meeting of a broken class may be *)
(* left over, or be closed under it.                                       *)
(***************************************************************************)
CONSTANT Classes

VARIABLES
  life,    \* "unborn", "making", "offered", "withdrawn" or "over"
  open,    \* classes whose meeting is at Zoom
  broken   \* classes with a request that broke off

vars == <<life, open, broken>>

Init ==
  /\ life = [x \in Classes |-> "unborn"]
  /\ open = {} /\ broken = {}

(* The life of a class goes forward only. *)
Moves(x, from, to) == life[x] \in from /\ life' = [life EXCEPT ![x] = to]

Begin(x)    == Moves(x, {"unborn"}, "making") /\ UNCHANGED <<open, broken>>
Offer(x)    == x \in open /\ Moves(x, {"making"}, "offered") /\ UNCHANGED <<open, broken>>
Withdraw(x) == Moves(x, {"offered"}, "withdrawn") /\ UNCHANGED <<open, broken>>
End(x)      == Moves(x, {"offered", "withdrawn"}, "over") /\ UNCHANGED <<open, broken>>

Open(x) ==
  /\ life[x] = "making" /\ x \notin open
  /\ open' = open \cup {x}
  /\ UNCHANGED <<life, broken>>

Close(x) ==
  /\ x \in open
  /\ life[x] \in {"withdrawn", "over"} \/ (x \in broken /\ life[x] = "offered")
  /\ open' = open \ {x}
  /\ UNCHANGED <<life, broken>>

Break(x) ==
  /\ life[x] # "unborn"
  /\ broken' = broken \cup {x}
  /\ UNCHANGED <<life, open>>

(* The request that makes a class breaks off: nobody goes on making it.     *)
BreakMaking(x) ==
  /\ Moves(x, {"making"}, "over")
  /\ broken' = broken \cup {x}
  /\ open' = open \/ (x \notin open /\ open' = open \cup {x})

Next ==
  \E x \in Classes :
    \/ Begin(x) \/ Open(x) \/ Offer(x) \/ Withdraw(x) \/ End(x) \/ Close(x)
    \/ Break(x) \/ BreakMaking(x)

Spec == Init /\ [][Next]_vars
=============================================================================
