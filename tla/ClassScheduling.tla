--------------------------- MODULE ClassScheduling ---------------------------
(***************************************************************************)
(* Scheduled classes: create, update, cancel, endClass, recreateClass and  *)
(* remove of ClassesService, the Zoom meeting each class has, and the      *)
(* credits it is charged.                                                  *)
(*                                                                         *)
(* A request reads the class once and then writes to three stores one      *)
(* after the other, in an order that depends on the request: the Class     *)
(* table, Zoom, and the teacher's credits.  No transaction or lock spans   *)
(* two of these writes, so requests for one class interleave between any   *)
(* two of them, and each may be the last one a request makes.              *)
(*                                                                         *)
(* A debit is one atomic posting here (CreditLedger has its interior).     *)
(* Permissions, the participants and the checks on teacher and academy     *)
(* change none of the three stores and are left out: a request below is    *)
(* one that passed them.  Zoom is enabled; a meeting has the name of the   *)
(* class it was made for.                                                  *)
(***************************************************************************)
EXTENDS Integers, FiniteSets

CONSTANTS
  Classes,       \* classes that requests may come to create
  Teachers,
  Clients,       \* requests the servers run concurrently
  Starts,        \* times a class may be scheduled at
  Costs,         \* values of creditsConsumed an update may ask for
  ClassCost,     \* scheduledClassCreditCost
  Credits,       \* balances a teacher may start with
  Statuses,      \* values of ClassStatus in use
  MaxRequests,   \* bound: requests begun in a behavior
  NoRow, NoMeeting, NoRequest

ASSUME SchedulingAssumption ==
  /\ ClassCost \in Nat /\ Costs \subseteq Nat /\ Credits \subseteq Nat
  /\ {"UPCOMING", "ENDED", "CANCELLED"} \subseteq Statuses
  /\ Statuses \subseteq {"UPCOMING", "ONGOING", "ENDED", "CANCELLED"}
  /\ MaxRequests \in Nat
  /\ NoMeeting \notin Starts

Rows == [status : Statuses, teacher : Teachers, start : Starts,
         cost : Costs \cup {ClassCost},
         linked : BOOLEAN]   \* zoomMeetingId is not null

ASSUME NoRowAssumption == NoRow \notin Rows

VARIABLES
  row,         \* the Class table
  zoom,        \* Zoom's meetings: the time each is set to
  named,       \* classes some request has begun to create
  balance,     \* each teacher's credits
  charged,     \* sum of the DEBIT ledger rows of each class
  pc, req,     \* each client's position and request
  begun,       \* requests begun so far (bounds the model)
  due,         \* history: charged to no one yet by requests that wrote the class
  refused,     \* history: classes with an update whose debit was refused
  faulted,     \* history: classes with a request that an error or a crash cut short
  overlapped,  \* history: classes with two updates in progress at one time
  lowered      \* history: classes whose cost an update has lowered

history == <<due, refused, faulted, overlapped, lowered>>
vars == <<row, zoom, named, balance, charged, pc, req, begun, history>>

(* What a request knows: the class as it read it, and as it will write it. *)
Requests ==
  [op : {"create", "update", "close", "remove"}, class : Classes,
   old : Rows \cup {NoRow}, new : Rows \cup {NoRow}]

ASSUME NoRequestAssumption == NoRequest \notin Requests

Closed == {"ENDED", "CANCELLED"}

(* Mutation: the whole new cost debited instead of the delta. *)
Charges_whole(r) ==
  CASE r.op = "create" -> r.new.cost
    [] r.op = "update" /\ r.new.cost > r.old.cost -> r.new.cost
    [] OTHER -> 0
(* The amount of consumeCreditsForClass: the class's cost, or what an       *)
(* update adds to the cost it read.                                        *)
Charges(r) ==
  CASE r.op = "create" -> r.new.cost
    [] r.op = "update" /\ r.new.cost > r.old.cost -> r.new.cost - r.old.cost
    [] OTHER -> 0

-----------------------------------------------------------------------------
Init ==
  /\ row = [x \in Classes |-> NoRow]
  /\ zoom = [x \in Classes |-> NoMeeting]
  /\ named = {}
  /\ balance \in [Teachers -> Credits]
  /\ charged = [x \in Classes |-> 0]
  /\ pc = [k \in Clients |-> "idle"]
  /\ req = [k \in Clients |-> NoRequest]
  /\ begun = 0
  /\ due = [x \in Classes |-> 0]
  /\ refused = {} /\ faulted = {} /\ overlapped = {} /\ lowered = {}

Accept(k, r, step) ==
  /\ pc[k] = "idle"
  /\ begun < MaxRequests
  /\ begun' = begun + 1
  /\ pc' = [pc EXCEPT ![k] = step]
  /\ req' = [req EXCEPT ![k] = r]
  /\ UNCHANGED <<row, zoom, balance, charged, due, refused, faulted, lowered>>

Goto(k, step) ==
  /\ pc' = [pc EXCEPT ![k] = step]
  /\ req' = IF step = "idle" THEN [req EXCEPT ![k] = NoRequest] ELSE req
  /\ UNCHANGED <<named, begun, overlapped>>

-----------------------------------------------------------------------------
(* The first step of each operation: what it reads and refuses.            *)

(* ensureTeacherHasSchedulingCredits looks at the balance, once.           *)
Create(k, x, t, s) ==
  /\ x \notin named
  /\ ClassCost = 0 \/ balance[t] >= ClassCost
  /\ named' = named \cup {x}
  /\ Accept(k, [op |-> "create", class |-> x, old |-> NoRow,
                new |-> [status |-> "UPCOMING", teacher |-> t, start |-> s,
                         cost |-> ClassCost, linked |-> TRUE]], "zooming")
  /\ UNCHANGED overlapped

RecreateClass(k, x, y, s) == row[y] # NoRow /\ Create(k, x, row[y].teacher, s)

Updating(k, x) ==
  /\ pc[k] \in {"patching", "writing"}
  /\ req[k].op = "update" /\ req[k].class = x

(* Mutation: an update may cancel the class. *)
Update_cancels(k, x, new) ==
  /\ row[x] # NoRow
  /\ new.linked = row[x].linked
  /\ new.cost \in Costs \cup {row[x].cost}
  /\ Accept(k, [op |-> "update", class |-> x, old |-> row[x], new |-> new],
            IF row[x].linked THEN "patching" ELSE "writing")
  /\ UNCHANGED <<named, overlapped>>
(* The fields an update leaves out keep the values it read; cancelling has  *)
(* its own endpoint.                                                       *)
Update(k, x, new) ==
  /\ row[x] # NoRow
  /\ new.linked = row[x].linked
  /\ new.cost \in Costs \cup {row[x].cost}
  /\ new.status = "CANCELLED" => row[x].status = "CANCELLED"
  /\ Accept(k, [op |-> "update", class |-> x, old |-> row[x], new |-> new],
            IF row[x].linked THEN "patching" ELSE "writing")
  /\ overlapped' = IF \E l \in Clients : Updating(l, x) THEN overlapped \cup {x}
                                                       ELSE overlapped
  /\ UNCHANGED named

Close(k, x, status) ==
  /\ row[x] # NoRow
  /\ row[x].status \notin Closed
  /\ Accept(k, [op |-> "close", class |-> x, old |-> row[x],
                new |-> [row[x] EXCEPT !.status = status, !.linked = FALSE]], "writing")
  /\ UNCHANGED <<named, overlapped>>

Cancel(k, x)   == Close(k, x, "CANCELLED")
EndClass(k, x) == Close(k, x, "ENDED")

(* isClassClearable.                                                       *)
Remove(k, x) ==
  /\ row[x] # NoRow
  /\ row[x].status \in Closed
  /\ Accept(k, [op |-> "remove", class |-> x, old |-> row[x], new |-> NoRow], "writing")
  /\ UNCHANGED <<named, overlapped>>

-----------------------------------------------------------------------------
(* The later steps, one store each.                                        *)

At(k, step) == pc[k] = step
OrIdle(step, condition) == IF condition THEN step ELSE "idle"

CreateMeeting(k) ==
  /\ At(k, "zooming")
  /\ zoom' = [zoom EXCEPT ![req[k].class] = req[k].new.start]
  /\ Goto(k, "inserting")
  /\ UNCHANGED <<row, balance, charged, history>>

InsertRow(k) ==
  /\ At(k, "inserting")
  /\ row' = [row EXCEPT ![req[k].class] = req[k].new]
  /\ due' = [due EXCEPT ![req[k].class] = @ + Charges(req[k])]
  /\ Goto(k, OrIdle("charging", Charges(req[k]) > 0))
  /\ UNCHANGED <<zoom, balance, charged, refused, faulted, lowered>>

PatchMeeting(k) ==
  /\ At(k, "patching")
  /\ zoom[req[k].class] # NoMeeting
  /\ zoom' = [zoom EXCEPT ![req[k].class] = req[k].new.start]
  /\ Goto(k, "writing")
  /\ UNCHANGED <<row, balance, charged, history>>

(* Zoom answers 404, or the row to write is gone (P2025): the error is      *)
(* thrown on.                                                              *)
NotFound(k) ==
  /\ \/ At(k, "patching") /\ zoom[req[k].class] = NoMeeting
     \/ At(k, "writing") /\ row[req[k].class] = NoRow
  /\ Goto(k, "idle")
  /\ UNCHANGED <<row, zoom, balance, charged, history>>

(* Mutation: zoomMeetingId written back from the class as it was read. *)
Written_relinked(r) == r.new
(* An update does not write zoomMeetingId; cancel and endClass write it and *)
(* the status only.                                                        *)
Written(r) ==
  CASE r.op = "update" -> [r.new EXCEPT !.linked = row[r.class].linked]
    [] r.op = "close"  -> [row[r.class] EXCEPT !.status = r.new.status, !.linked = FALSE]
    [] r.op = "remove" -> NoRow

(* Mutation: the meeting of a removed class left at Zoom. *)
DeletesMeeting_closed(r) == r.op = "close" /\ r.old.linked
(* Which requests go on to safeDeleteZoomMeeting.                          *)
DeletesMeeting(r) ==
  /\ r.old.linked
  /\ r.op = "update" => r.new.status = "CANCELLED"

AfterDelete(r) == OrIdle("charging", r.op = "update" /\ Charges(r) > 0)

(* Mutation: the row written before the meeting is patched. *)
WriteRow_first(k) ==
  /\ pc[k] \in {"patching", "writing"}
  /\ row[req[k].class] # NoRow
  /\ row' = [row EXCEPT ![req[k].class] = Written(req[k])]
  /\ due' = [due EXCEPT ![req[k].class] = @ + Charges(req[k])]
  /\ lowered' = IF req[k].op = "update" /\ req[k].new.cost < row[req[k].class].cost
                  THEN lowered \cup {req[k].class} ELSE lowered
  /\ Goto(k, IF DeletesMeeting(req[k]) THEN "deleting" ELSE AfterDelete(req[k]))
  /\ UNCHANGED <<zoom, balance, charged, refused, faulted>>
WriteRow(k) ==
  /\ At(k, "writing")
  /\ row[req[k].class] # NoRow
  /\ row' = [row EXCEPT ![req[k].class] = Written(req[k])]
  /\ due' = [due EXCEPT ![req[k].class] = @ + Charges(req[k])]
  /\ lowered' = IF req[k].op = "update" /\ req[k].new.cost < row[req[k].class].cost
                  THEN lowered \cup {req[k].class} ELSE lowered
  /\ Goto(k, IF DeletesMeeting(req[k]) THEN "deleting" ELSE AfterDelete(req[k]))
  /\ UNCHANGED <<zoom, balance, charged, refused, faulted>>

DeleteMeeting(k) ==
  /\ At(k, "deleting")
  /\ zoom' = [zoom EXCEPT ![req[k].class] = NoMeeting]
  /\ Goto(k, AfterDelete(req[k]))
  /\ UNCHANGED <<row, balance, charged, history>>

(* The request stops owing what it was to charge.                          *)
Settle(k) == due' = [due EXCEPT ![req[k].class] = @ - Charges(req[k])]

(* Mutation: the balance debited without being checked. *)
Charge_overdraws(k) ==
  /\ At(k, "charging")
  /\ balance' = [balance EXCEPT ![req[k].new.teacher] = @ - Charges(req[k])]
  /\ charged' = [charged EXCEPT ![req[k].class] = @ + Charges(req[k])]
  /\ Settle(k)
  /\ Goto(k, "idle")
  /\ UNCHANGED <<row, zoom, refused, faulted, lowered>>
(* The debit of consumeCreditsForClass.                                    *)
Charge(k) ==
  /\ At(k, "charging")
  /\ balance[req[k].new.teacher] >= Charges(req[k])
  /\ balance' = [balance EXCEPT ![req[k].new.teacher] = @ - Charges(req[k])]
  /\ charged' = [charged EXCEPT ![req[k].class] = @ + Charges(req[k])]
  /\ Settle(k)
  /\ Goto(k, "idle")
  /\ UNCHANGED <<row, zoom, refused, faulted, lowered>>

(* Mutation: a refused create leaves its class in place. *)
Refuse_keeps(k) ==
  /\ At(k, "charging")
  /\ balance[req[k].new.teacher] < Charges(req[k])
  /\ Settle(k)
  /\ refused' = IF req[k].op = "update" THEN refused \cup {req[k].class} ELSE refused
  /\ Goto(k, "idle")
  /\ UNCHANGED <<row, zoom, balance, charged, faulted, lowered>>
(* "Insufficient credits": a create undoes what it did, an update throws.  *)
Refuse(k) ==
  /\ At(k, "charging")
  /\ balance[req[k].new.teacher] < Charges(req[k])
  /\ Settle(k)
  /\ refused' = IF req[k].op = "update" THEN refused \cup {req[k].class} ELSE refused
  /\ Goto(k, OrIdle("cleaning", req[k].op = "create"))
  /\ UNCHANGED <<row, zoom, balance, charged, faulted, lowered>>

(* cleanupCreatedClass: the row, if it is still there, then the meeting.   *)
Cleanup(k) ==
  /\ At(k, "cleaning")
  /\ row' = [row EXCEPT ![req[k].class] = NoRow]
  /\ Goto(k, "deleting")
  /\ UNCHANGED <<zoom, balance, charged, history>>

-----------------------------------------------------------------------------
(* Errors of the network and the database, and crashes.                    *)

Fault(k) == faulted' = faulted \cup {req[k].class}
Owing(k) == At(k, "charging") \/ (At(k, "deleting") /\ req[k].op = "update")

(* The process dies, or the call in hand fails and its error is thrown on.  *)
Abort(k) ==
  /\ pc[k] # "idle"
  /\ Fault(k)
  /\ IF Owing(k) THEN Settle(k) ELSE UNCHANGED due
  /\ Goto(k, "idle")
  /\ UNCHANGED <<row, zoom, balance, charged, refused, lowered>>

(* Zoom did what it was asked, and its answer is lost.                     *)
AnswerLost(k) ==
  /\ At(k, "zooming") \/ (At(k, "patching") /\ zoom[req[k].class] # NoMeeting)
  /\ zoom' = [zoom EXCEPT ![req[k].class] = req[k].new.start]
  /\ Fault(k)
  /\ Goto(k, "idle")
  /\ UNCHANGED <<row, balance, charged, due, refused, lowered>>

(* An error that is logged only: of the clean-up, or of the deletion of the *)
(* meeting.                                                                *)
Swallow(k) ==
  /\ pc[k] \in {"cleaning", "deleting"}
  /\ Fault(k)
  /\ Goto(k, IF At(k, "cleaning") THEN "deleting" ELSE AfterDelete(req[k]))
  /\ UNCHANGED <<row, zoom, balance, charged, due, refused, lowered>>

(* The debit of a create fails for another reason than the balance.        *)
ChargeError(k) ==
  /\ At(k, "charging") /\ req[k].op = "create"
  /\ Fault(k)
  /\ Settle(k)
  /\ Goto(k, "cleaning")
  /\ UNCHANGED <<row, zoom, balance, charged, refused, lowered>>

-----------------------------------------------------------------------------
Begin(k) ==
  \E x \in Classes :
    \/ \E s \in Starts : \/ \E t \in Teachers : Create(k, x, t, s)
                         \/ \E y \in Classes : RecreateClass(k, x, y, s)
    \/ \E new \in Rows : Update(k, x, new)
    \/ Cancel(k, x) \/ EndClass(k, x) \/ Remove(k, x)

Proceed(k) ==
  \/ CreateMeeting(k) \/ InsertRow(k)
  \/ PatchMeeting(k) \/ NotFound(k) \/ WriteRow(k)
  \/ DeleteMeeting(k) \/ Charge(k) \/ Refuse(k) \/ Cleanup(k)

Fail(k) == Abort(k) \/ AnswerLost(k) \/ Swallow(k) \/ ChargeError(k)

Next == \E k \in Clients : Begin(k) \/ Proceed(k) \/ Fail(k)

(* The event loop carries a request on; nobody has to send one, and nothing *)
(* has to fail.                                                            *)
Fairness == \A k \in Clients : WF_vars(Proceed(k))

Spec == Init /\ [][Next]_vars /\ Fairness

-----------------------------------------------------------------------------
(* What the tables and the requests in progress hold. *)
TypeOK ==
  /\ row \in [Classes -> Rows \cup {NoRow}]
  /\ zoom \in [Classes -> Starts \cup {NoMeeting}]
  /\ named \subseteq Classes
  /\ balance \in [Teachers -> Nat]
  /\ charged \in [Classes -> Nat]
  /\ pc \in [Clients -> {"idle", "zooming", "inserting", "patching", "writing",
                         "deleting", "charging", "cleaning"}]
  /\ req \in [Clients -> Requests \cup {NoRequest}]
  /\ begun \in 0 .. MaxRequests
  /\ due \in [Classes -> Nat]
  /\ refused \subseteq Classes /\ faulted \subseteq Classes
  /\ overlapped \subseteq Classes /\ lowered \subseteq Classes

Linked(x) == row[x] # NoRow /\ row[x].linked

(* A meeting at Zoom belongs to a class that names it, or a request in      *)
(* progress is about to store or delete it.  However the operations on a    *)
(* class interleave (two cancels, a removal during an update, a refused     *)
(* create whose class is cancelled meanwhile), only an error or a crash     *)
(* leaves a meeting nobody knows of.                                       *)
Released(x) == \A k \in Clients : req[k] # NoRequest /\ req[k].class = x
                                  => pc[k] \notin {"inserting", "deleting"}
MeetingsAccountedFor ==
  \A x \in Classes \ faulted : zoom[x] # NoMeeting /\ Released(x) => Linked(x)

(* A class that still offers its meeting has one at Zoom, unless an error   *)
(* was swallowed: every path clears the row before it deletes the meeting.  *)
NoDanglingMeeting == \A x \in Classes \ faulted : Linked(x) => zoom[x] # NoMeeting

(* A cancelled class names no meeting, whatever stale copy of it an update  *)
(* writes back; the branch of update that deletes the meeting of a class it *)
(* finds cancelled has nothing to delete.                                   *)
CancelledHasNoMeeting ==
  /\ \A x \in Classes : Linked(x) => row[x].status # "CANCELLED"
  /\ \A k \in Clients : At(k, "deleting") => req[k].op # "update"

(* So the meetings at Zoom are those the classes name: none without a       *)
(* class, none missing, none of a cancelled class.                          *)
MeetingsMatchRows == MeetingsAccountedFor /\ NoDanglingMeeting /\ CancelledHasNoMeeting

(* The cost a class shows is charged or about to be, however updates race,  *)
(* unless a debit was refused or a request cut short.                       *)
CostIsCharged ==
  \A x \in Classes \ (faulted \cup refused) :
    row[x] # NoRow =>
      row[x].cost <= charged[x] + due[x]
        \/ \E k \in Clients : req[k] # NoRequest /\ req[k].class = x /\ At(k, "cleaning")

(* With updates one at a time that only ever raise the cost, a class is     *)
(* charged its cost and no more.                                           *)
SerialUpdatesChargeTheCost ==
  \A x \in Classes \ (faulted \cup refused \cup overlapped \cup lowered) :
    row[x] # NoRow =>
      row[x].cost = charged[x] + due[x]
        \/ \E k \in Clients : req[k] # NoRequest /\ req[k].class = x /\ At(k, "cleaning")

(* With updates one at a time, Zoom and the class agree on the time between *)
(* any two of them, cancellations and removals meanwhile included.          *)
SerialUpdatesReachZoom ==
  \A x \in Classes \ (faulted \cup overlapped) :
    Linked(x) /\ (\A k \in Clients : ~ Updating(k, x)) => zoom[x] = row[x].start

(* So a class whose updates never overlap is charged and moved as it says.  *)
SerialUpdatesAgree == SerialUpdatesChargeTheCost /\ SerialUpdatesReachZoom

(* Seen from the Class table and Zoom, the requests on a class are one life  *)
(* that goes forward only, with one meeting, there while the class offers it *)
(* and closed after that (ClassLife).                                       *)
Making(x) ==
  \E k \in Clients : /\ pc[k] \in {"zooming", "inserting"}
                     /\ req[k].op = "create" /\ req[k].class = x
Life(x) ==
  CASE Linked(x) -> "offered"
    [] row[x] # NoRow /\ ~ Linked(x) -> "withdrawn"
    [] row[x] = NoRow /\ Making(x) -> "making"
    [] row[x] = NoRow /\ ~ Making(x) /\ x \in named -> "over"
    [] OTHER -> "unborn"
OneLife == INSTANCE ClassLife WITH
  life <- [x \in Classes |-> Life(x)],
  open <- {x \in Classes : zoom[x] # NoMeeting}, broken <- faulted
LivesOnce == OneLife!Spec

(* A meeting whose class is cancelled, ended, removed or refused does get   *)
(* deleted, unless Zoom or the server fails.                                *)
MeetingsAreReleased ==
  \A x \in Classes :
    zoom[x] # NoMeeting /\ ~ Linked(x) ~> zoom[x] = NoMeeting \/ Linked(x) \/ x \in faulted
=============================================================================
