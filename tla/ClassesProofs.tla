----------------------------- MODULE ClassesProofs -----------------------------
(* The safety of ClassScheduling for every set of classes, teachers, clients *)
(* and costs.  A step writes to one class only, so each invariant is stated  *)
(* of one class, and a step of a request keeps it of the request's own.     *)
(* Then the lives of ClassLife, which the requests on a class implement.    *)
(* The second part is the safety of ClassRecords, for every set of classes,  *)
(* people and clients.                                                      *)
EXTENDS ClassScheduling, ClassRecords, FiniteSetTheorems, TLAPS

Mine(k, x) == req[k] # NoRequest /\ req[k].class = x

(* Where a request is says what it is doing.  An update that would delete    *)
(* the meeting of a cancelled class has never read a class with a meeting.   *)
Fits(k) ==
  /\ pc[k] = "idle" <=> req[k] = NoRequest
  /\ pc[k] # "idle" => req[k].class \in named
  /\ pc[k] # "idle" /\ req[k].op = "create" =>
       /\ pc[k] \in {"zooming", "inserting", "charging", "cleaning", "deleting"}
       /\ req[k].new \in Rows /\ req[k].old = NoRow
       /\ req[k].new.linked /\ req[k].new.status = "UPCOMING"
  /\ pc[k] # "idle" /\ req[k].op = "update" =>
       /\ pc[k] \in {"patching", "writing", "charging"}
       /\ req[k].new \in Rows /\ req[k].old \in Rows
       /\ req[k].old.linked => req[k].new.status # "CANCELLED"
       /\ pc[k] = "patching" => req[k].old.linked
  /\ pc[k] # "idle" /\ req[k].op = "close" =>
       /\ pc[k] \in {"writing", "deleting"}
       /\ req[k].new \in Rows /\ req[k].old \in Rows
  /\ pc[k] # "idle" /\ req[k].op = "remove" =>
       /\ pc[k] \in {"writing", "deleting"}
       /\ req[k].old \in Rows
RequestsFit == \A k \in Clients : Fits(k)

Types == TypeOK /\ RequestsFit

(* What the requests in progress still owe for a class, one element for each *)
(* credit; due counts them.                                                *)
Owes(k, x) == Mine(k, x) /\ Owing(k)
Share(k) == {k} \X (1 .. Charges(req[k]))
Owed(x) == UNION {Share(k) : k \in {l \in Clients : Owes(l, x)}}
DueIsOwed == \A x \in Classes : IsFiniteSet(Owed(x)) /\ due[x] = Cardinality(Owed(x))

(* A class nobody has begun to create is nowhere, and until its row is       *)
(* inserted only the request that creates it knows it.                      *)
Unborn(x) ==
  /\ x \notin named => row[x] = NoRow /\ charged[x] = 0 /\ due[x] = 0
  /\ \A k \in Clients : Mine(k, x) /\ pc[k] \in {"zooming", "inserting"} =>
       /\ row[x] = NoRow /\ charged[x] = 0 /\ due[x] = 0
       /\ pc[k] = "inserting" => zoom[x] = req[k].new.start
       /\ \A l \in Clients \ {k} : ~ Mine(l, x)
BirthInOrder == \A x \in Classes : Unborn(x)

(* A class that has lost its meeting never names one again, so who has read  *)
(* it without finds it without; and a meeting is deleted after the row has   *)
(* been cleared of it.                                                     *)
Cut(x) ==
  /\ Linked(x) => row[x].status # "CANCELLED"
  /\ \A k \in Clients : Mine(k, x) /\ req[k].op # "create" /\ Linked(x) => req[k].old.linked
  /\ \A k \in Clients : Mine(k, x) /\ pc[k] = "deleting" => x \in faulted \/ ~ Linked(x)
  /\ x \notin faulted /\ Linked(x) => zoom[x] # NoMeeting
  /\ x \notin faulted /\ zoom[x] # NoMeeting /\ Released(x) => Linked(x)
MeetingsInOrder == \A x \in Classes : Cut(x)

(* The cost a class shows, and the cost an update has read, are covered.     *)
Undoing(x) == \E k \in Clients : Mine(k, x) /\ pc[k] = "cleaning"
Covers(x) ==
  x \notin faulted \cup refused =>
    \/ row[x] = NoRow \/ Undoing(x)
    \/ /\ row[x].cost <= charged[x] + due[x]
       /\ \A k \in Clients : Mine(k, x) /\ Updating(k, x) =>
            req[k].old.cost <= charged[x] + due[x]
CostsInOrder == \A x \in Classes : Covers(x)

(* While the updates of a class do not overlap, the one in progress has read *)
(* the cost the class shows, and Zoom has its time once it is patched.      *)
OneUpdate(x) == \A k, l \in Clients : Updating(k, x) /\ Updating(l, x) => k = l
ReadsTheCost(x) ==
  \A k \in Clients : Updating(k, x) /\ row[x] # NoRow => req[k].old.cost = row[x].cost
ExactCost(x) ==
  x \notin faulted \cup refused \cup lowered =>
    row[x] = NoRow \/ Undoing(x) \/ row[x].cost = charged[x] + due[x]
ReachesZoom(x) ==
  x \notin faulted /\ Linked(x) =>
    /\ \A k \in Clients : Updating(k, x) /\ pc[k] = "writing" => zoom[x] = req[k].new.start
    /\ (\A k \in Clients : Updating(k, x) => pc[k] = "patching") => zoom[x] = row[x].start
Serial(x) ==
  x \notin overlapped => OneUpdate(x) /\ ReadsTheCost(x) /\ ExactCost(x) /\ ReachesZoom(x)
UpdatesInTurn == \A x \in Classes : Serial(x)

IInv == Types /\ DueIsOwed /\ BirthInOrder /\ MeetingsInOrder /\ CostsInOrder /\ UpdatesInTurn

-----------------------------------------------------------------------------
(* A step of request k about class x leaves the other classes and the other  *)
(* requests as they are.                                                   *)
Same(y) ==
  /\ row'[y] = row[y] /\ zoom'[y] = zoom[y]
  /\ charged'[y] = charged[y] /\ due'[y] = due[y]
  /\ y \in named' <=> y \in named
  /\ y \in refused' <=> y \in refused
  /\ y \in faulted' <=> y \in faulted
  /\ y \in overlapped' <=> y \in overlapped
  /\ y \in lowered' <=> y \in lowered
Stays(l) == pc'[l] = pc[l] /\ req'[l] = req[l]
Touches(k, x) ==
  /\ \A y \in Classes \ {x} : Same(y) /\ ~ Mine(k, y) /\ ~ Mine(k, y)'
  /\ \A l \in Clients \ {k} : Stays(l)

LEMMA UpdatingIsMine ==
  ASSUME RequestsFit, NEW k \in Clients, NEW x, Updating(k, x)  PROVE Mine(k, x)
  BY DEF RequestsFit, Fits, Updating, Mine

LEMMA Elsewhere ==
  ASSUME IInv, RequestsFit', NEW k \in Clients, NEW x \in Classes, Touches(k, x),
         Unborn(x)', Cut(x)', Covers(x)', Serial(x)'
  PROVE  BirthInOrder' /\ MeetingsInOrder' /\ CostsInOrder' /\ UpdatesInTurn'
  <1>1. ASSUME NEW y \in Classes \ {x}
        PROVE  Unborn(y)' /\ Cut(y)' /\ Covers(y)' /\ Serial(y)'
    <2>1. Same(y) /\ Unborn(y) /\ Cut(y) /\ Covers(y) /\ Serial(y)
      BY DEF Touches, IInv, BirthInOrder, MeetingsInOrder, CostsInOrder, UpdatesInTurn
    <2>2. \A l \in Clients : Mine(l, y)' <=> Mine(l, y)
      BY DEF Touches, Stays, Mine
    <2>3. \A l \in Clients : Mine(l, y) => Stays(l)
      BY DEF Touches
    <2>4. \A l \in Clients : Updating(l, y)' <=> Updating(l, y)
      BY <2>2, <2>3, UpdatingIsMine DEF Updating, Mine, Stays, IInv, Types, RequestsFit, Fits
    <2>5. Linked(y)' <=> Linked(y)
      BY <2>1 DEF Same, Linked
    <2>6. Undoing(y)' <=> Undoing(y)
      BY <2>2, <2>3 DEF Undoing, Stays
    <2>7. Released(y)' <=> Released(y)
      BY <2>2, <2>3 DEF Released, Stays, Mine
    <2>8. Unborn(y)'
      BY <2>1, <2>2, <2>3 DEF Unborn, Same, Stays
    <2>9. Cut(y)'
      BY <2>1, <2>2, <2>3, <2>5, <2>7 DEF Cut, Same, Stays
    <2>10. Covers(y)'
      <3>1. \A l \in Clients : Updating(l, y) => Stays(l) /\ Mine(l, y)
        BY <2>3, UpdatingIsMine DEF IInv, Types
      <3>. QED  BY <2>1, <2>2, <2>4, <2>6, <3>1 DEF Covers, Same, Stays
    <2>11. Serial(y)'
      <3>1. \A l \in Clients : Updating(l, y) => Stays(l)
        BY <2>3, UpdatingIsMine DEF IInv, Types
      <3>. QED  BY <2>1, <2>4, <2>5, <2>6, <3>1
              DEF Serial, OneUpdate, ReadsTheCost, ExactCost, ReachesZoom, Same, Stays
    <2>. QED  BY <2>8, <2>9, <2>10, <2>11
  <1>. QED  BY <1>1 DEF BirthInOrder, MeetingsInOrder, CostsInOrder, UpdatesInTurn

-----------------------------------------------------------------------------
(* What a request charges is a number: a close or a removal, nothing.       *)
LEMMA RequestFields ==
  ASSUME Types, NEW k \in Clients, pc[k] # "idle"
  PROVE  /\ req[k] \in Requests /\ req[k] # NoRequest
         /\ req[k].class \in Classes /\ req[k].class \in named
         /\ Mine(k, req[k].class) /\ \A y : Mine(k, y) => y = req[k].class
         /\ req[k].op \in {"create", "update", "close", "remove"}
         /\ Charges(req[k]) \in Nat
         /\ req[k].op = "create" => Charges(req[k]) = req[k].new.cost
         /\ req[k].op \in {"close", "remove"} => Charges(req[k]) = 0
         /\ req[k].op = "update" =>
              /\ req[k].new.cost \in Nat /\ req[k].old.cost \in Nat
              /\ Charges(req[k]) = IF req[k].new.cost > req[k].old.cost
                                     THEN req[k].new.cost - req[k].old.cost ELSE 0
  <1>1. Fits(k) /\ req[k] \in Requests \cup {NoRequest}
    BY DEF Types, TypeOK, RequestsFit
  <1>2. req[k] \in Requests /\ req[k] # NoRequest /\ req[k].class \in named
    BY <1>1 DEF Fits
  <1>3. req[k].class \in Classes /\ req[k].op \in {"create", "update", "close", "remove"}
    BY <1>2 DEF Requests
  <1>4. \A r \in Rows : r.cost \in Nat
    BY SchedulingAssumption DEF Rows
  <1>5. CASE req[k].op = "create"
    BY <1>1, <1>2, <1>3, <1>4, <1>5 DEF Fits, Charges, Mine
  <1>6. CASE req[k].op = "update"
    <2>1. req[k].new.cost \in Nat /\ req[k].old.cost \in Nat
      BY <1>1, <1>4, <1>6 DEF Fits
    <2>2. Charges(req[k]) = IF req[k].new.cost > req[k].old.cost
                              THEN req[k].new.cost - req[k].old.cost ELSE 0
      BY <1>6 DEF Charges
    <2>. QED  BY <1>2, <1>3, <1>6, <2>1, <2>2 DEF Mine
  <1>7. CASE req[k].op \in {"close", "remove"}
    BY <1>2, <1>3, <1>7 DEF Charges, Mine
  <1>. QED  BY <1>3, <1>5, <1>6, <1>7

(* The three ways in which a step changes what is owed for a class: not at   *)
(* all, by a request that comes to owe its charge, by one that settles it.  *)
LEMMA ShareSize ==
  ASSUME NEW k, Charges(req[k]) \in Nat
  PROVE  IsFiniteSet(Share(k)) /\ Cardinality(Share(k)) = Charges(req[k])
  <1>1. /\ IsFiniteSet(1 .. Charges(req[k]))
        /\ Cardinality(1 .. Charges(req[k])) = Charges(req[k])
    <2>1. ASSUME NEW n \in Nat  PROVE IsFiniteSet(1 .. n) /\ Cardinality(1 .. n) = n
      <3>1. /\ IsFiniteSet(1 .. n)
            /\ Cardinality(1 .. n) = IF 1 > n THEN 0 ELSE n - 1 + 1
        BY FS_Interval
      <3>. QED  BY <3>1
    <2>. QED  BY <2>1
  <1>2. IsFiniteSet({k}) /\ Cardinality({k}) = 1
    BY FS_Singleton
  <1>. QED  BY <1>1, <1>2, FS_Product DEF Share

LEMMA OwesElsewhere ==
  ASSUME NEW k \in Clients, NEW x \in Classes, Touches(k, x), DueIsOwed,
         IsFiniteSet(Owed(x)') /\ due'[x] = Cardinality(Owed(x)')
  PROVE  DueIsOwed'
  <1>1. ASSUME NEW y \in Classes \ {x}  PROVE Owed(y)' = Owed(y) /\ due'[y] = due[y]
    <2>1. \A l \in Clients : Owes(l, y)' <=> Owes(l, y)
      BY DEF Touches, Owes, Mine, Owing, At, Stays
    <2>2. \A l \in Clients : Owes(l, y) => Share(l)' = Share(l)
      BY DEF Touches, Owes, Share, Stays
    <2>. QED  BY <2>1, <2>2 DEF Owed, Touches, Same
  <1>. QED  BY <1>1 DEF DueIsOwed

LEMMA OwesTheSame ==
  ASSUME NEW k \in Clients, NEW x \in Classes, Touches(k, x), DueIsOwed,
         due'[x] = due[x], ~ Owes(k, x), ~ Owes(k, x)'
  PROVE  DueIsOwed'
  <1>1. \A l \in Clients : Owes(l, x)' <=> Owes(l, x)
    BY DEF Touches, Owes, Mine, Owing, At, Stays
  <1>2. \A l \in Clients : Owes(l, x) => Share(l)' = Share(l)
    BY DEF Touches, Share, Stays
  <1>3. Owed(x)' = Owed(x)
    BY <1>1, <1>2 DEF Owed
  <1>. QED  BY <1>3, OwesElsewhere DEF DueIsOwed

LEMMA OwesMore ==
  ASSUME NEW k \in Clients, NEW x \in Classes, Touches(k, x), DueIsOwed,
         Charges(req[k]) \in Nat, req'[k] = req[k],
         due'[x] = due[x] + Charges(req[k]), ~ Owes(k, x), Owes(k, x)'
  PROVE  DueIsOwed'
  <1>1. \A l \in Clients : Owes(l, x)' <=> Owes(l, x) \/ l = k
    BY DEF Touches, Owes, Mine, Owing, At, Stays
  <1>2. \A l \in Clients : Owes(l, x)' => Share(l)' = Share(l)
    BY DEF Touches, Share, Stays
  <1>3. Owed(x)' = Owed(x) \cup Share(k) /\ Owed(x) \cap Share(k) = {}
    BY <1>1, <1>2 DEF Owed, Share
  <1>4. IsFiniteSet(Owed(x)) /\ due[x] = Cardinality(Owed(x))
    BY DEF DueIsOwed
  <1>5. IsFiniteSet(Share(k)) /\ Cardinality(Share(k)) = Charges(req[k])
    BY ShareSize
  <1>6. /\ IsFiniteSet(Owed(x)')
        /\ Cardinality(Owed(x)') = Cardinality(Owed(x)) + Cardinality(Share(k))
                                     - Cardinality(Owed(x) \cap Share(k))
    BY <1>3, <1>4, <1>5, FS_Union
  <1>7. Cardinality(Owed(x)') = due'[x]
    <2>1. Cardinality(Owed(x) \cap Share(k)) = 0 /\ Cardinality(Owed(x)) \in Nat
      BY <1>3, <1>4, FS_EmptySet, FS_CardinalityType
    <2>. QED  BY <1>4, <1>5, <1>6, <2>1
  <1>. QED  BY <1>6, <1>7, OwesElsewhere

LEMMA OwesLess ==
  ASSUME NEW k \in Clients, NEW x \in Classes, Touches(k, x), DueIsOwed,
         Charges(req[k]) \in Nat,
         due'[x] = due[x] - Charges(req[k]), Owes(k, x), ~ Owes(k, x)'
  PROVE  DueIsOwed' /\ Charges(req[k]) <= due[x]
  <1>1. \A l \in Clients : Owes(l, x)' <=> Owes(l, x) /\ l # k
    BY DEF Touches, Owes, Mine, Owing, At, Stays
  <1>2. \A l \in Clients : Owes(l, x)' => Share(l)' = Share(l)
    BY <1>1 DEF Touches, Share, Stays
  <1>3. Owed(x)' = Owed(x) \ Share(k) /\ Owed(x) \cap Share(k) = Share(k)
    BY <1>1, <1>2 DEF Owed, Share
  <1>4. IsFiniteSet(Owed(x)) /\ due[x] = Cardinality(Owed(x))
    BY DEF DueIsOwed
  <1>5. IsFiniteSet(Share(k)) /\ Cardinality(Share(k)) = Charges(req[k])
    BY ShareSize
  <1>6. /\ IsFiniteSet(Owed(x)')
        /\ Cardinality(Owed(x)') = Cardinality(Owed(x)) - Cardinality(Owed(x) \cap Share(k))
    BY <1>3, <1>4, FS_Difference
  <1>7. Cardinality(Owed(x)') = due'[x]
    BY <1>3, <1>4, <1>5, <1>6
  <1>8. Cardinality(Share(k)) <= Cardinality(Owed(x))
    BY <1>3, <1>4, FS_Subset
  <1>. QED  BY <1>4, <1>5, <1>6, <1>7, <1>8, OwesElsewhere

-----------------------------------------------------------------------------
LEMMA Assumptions ==
  /\ NoRow \notin Rows /\ NoMeeting \notin Starts /\ NoRequest \notin Requests
  /\ \A r \in Rows : /\ r.status \in Statuses /\ r.teacher \in Teachers
                     /\ r.start \in Starts /\ r.cost \in Nat /\ r.linked \in BOOLEAN
  BY SchedulingAssumption, NoRowAssumption, NoRequestAssumption DEF Rows

(* What is left of a request's step when it is in progress. *)
Moves(k, x, step) ==
  /\ pc[k] # "idle" /\ Mine(k, x) /\ x \in Classes /\ x \in named /\ req[k] \in Requests
  /\ pc' = [pc EXCEPT ![k] = step] /\ pc'[k] = step
  /\ req' \in [Clients -> Requests \cup {NoRequest}]
  /\ req'[k] = IF step = "idle" THEN NoRequest ELSE req[k]
  /\ \A l \in Clients \ {k} : Stays(l)
  /\ named' = named /\ begun' = begun /\ overlapped' = overlapped

LEMMA GotoMoves ==
  ASSUME IInv, NEW k \in Clients, pc[k] # "idle", NEW step, Goto(k, step)
  PROVE  Moves(k, req[k].class, step)
  <1>1. /\ req[k] \in Requests /\ req[k].class \in Classes /\ req[k].class \in named
        /\ Mine(k, req[k].class)
    BY RequestFields DEF IInv
  <1>2. /\ pc \in [Clients -> {"idle", "zooming", "inserting", "patching", "writing",
                               "deleting", "charging", "cleaning"}]
        /\ req \in [Clients -> Requests \cup {NoRequest}]
    BY DEF IInv, Types, TypeOK
  <1>3. pc' = [pc EXCEPT ![k] = step]
        /\ req' = (IF step = "idle" THEN [req EXCEPT ![k] = NoRequest] ELSE req)
        /\ named' = named /\ begun' = begun /\ overlapped' = overlapped
    BY DEF Goto
  <1>4. CASE step = "idle"
    BY <1>1, <1>2, <1>3, <1>4 DEF Moves, Stays
  <1>5. CASE step # "idle"
    BY <1>1, <1>2, <1>3, <1>5 DEF Moves, Stays
  <1>. QED  BY <1>4, <1>5

LEMMA MovesTouch ==
  ASSUME IInv, NEW k \in Clients, NEW x, NEW step, Moves(k, x, step),
         \A y \in Classes \ {x} : /\ row'[y] = row[y] /\ zoom'[y] = zoom[y]
                                  /\ charged'[y] = charged[y] /\ due'[y] = due[y]
                                  /\ y \in refused' <=> y \in refused
                                  /\ y \in faulted' <=> y \in faulted
                                  /\ y \in lowered' <=> y \in lowered
  PROVE  Touches(k, x)
  <1>1. req'[k] = NoRequest \/ req'[k] = req[k]
    BY DEF Moves
  <1>. QED  BY <1>1 DEF Touches, Same, Moves, Mine

(* The types after a step, but for due, which counts what is owed.          *)
LEMMA DueIsNat ==
  ASSUME IInv, DueIsOwed', NEW v, NEW x, due' = [due EXCEPT ![x] = v]
  PROVE  due' \in [Classes -> Nat]
  <1>1. \A y \in Classes : due'[y] \in Nat
    BY FS_CardinalityType DEF DueIsOwed
  <1>2. due \in [Classes -> Nat]
    BY DEF IInv, Types, TypeOK
  <1>. QED  BY <1>1, <1>2

LEMMA OthersFit ==
  ASSUME IInv, NEW k \in Clients, NEW l \in Clients \ {k}, Stays(l), named \subseteq named'
  PROVE  Fits(l)'
  <1>1. Fits(l)
    BY DEF IInv, Types, RequestsFit
  <1>. QED  BY <1>1 DEF Fits, Stays

LEMMA MovesTypes ==
  ASSUME IInv, NEW k \in Clients, NEW x, Moves(k, x, pc'[k]), DueIsOwed',
         pc'[k] \in {"idle", "inserting", "writing", "deleting", "charging", "cleaning"},
         row' \in [Classes -> Rows \cup {NoRow}], zoom' \in [Classes -> Starts \cup {NoMeeting}],
         balance' \in [Teachers -> Nat], charged' \in [Classes -> Nat],
         NEW v, due' = [due EXCEPT ![x] = v],
         refused' \subseteq Classes, faulted' \subseteq Classes, lowered' \subseteq Classes,
         pc'[k] # "idle" => Fits(k)'
  PROVE  Types'
  <1>1. pc' \in [Clients -> {"idle", "zooming", "inserting", "patching", "writing",
                             "deleting", "charging", "cleaning"}]
    BY DEF IInv, Types, TypeOK, Moves
  <1>2. due' \in [Classes -> Nat]
    BY DueIsNat
  <1>3. TypeOK'
    BY <1>1, <1>2 DEF TypeOK, IInv, Types, Moves
  <1>4. Fits(k)'
    BY DEF Fits, Moves
  <1>5. RequestsFit'
    BY <1>4, OthersFit DEF RequestsFit, Moves
  <1>. QED  BY <1>3, <1>5 DEF Types

LEMMA OthersStay ==
  ASSUME NEW k \in Clients, NEW x, Touches(k, x)
  PROVE  \A l \in Clients \ {k} : /\ pc'[l] = pc[l] /\ req'[l] = req[l]
                                  /\ Mine(l, x)' <=> Mine(l, x)
                                  /\ Updating(l, x)' <=> Updating(l, x)
  BY DEF Touches, Stays, Mine, Updating

LEMMA HereHolds ==
  ASSUME IInv, NEW x \in Classes
  PROVE  /\ Unborn(x) /\ Cut(x) /\ Covers(x) /\ Serial(x)
         /\ row[x] \in Rows \cup {NoRow} /\ zoom[x] \in Starts \cup {NoMeeting}
         /\ charged[x] \in Nat /\ due[x] \in Nat
         /\ Linked(x) => row[x] \in Rows
  BY DEF IInv, BirthInOrder, MeetingsInOrder, CostsInOrder, UpdatesInTurn, Types, TypeOK, Linked

(* The steps that leave the rows alone, in what they have in common.        *)
LEMMA MovesUnborn ==
  ASSUME IInv, NEW k \in Clients, NEW x, NEW step, Moves(k, x, step), Touches(k, x),
         step \notin {"zooming", "inserting"}
  PROVE  Unborn(x)'
  <1>1. x \in named' /\ Mine(k, x) /\ Unborn(x) /\ pc'[k] = step
    BY HereHolds DEF Moves
  <1>2. ASSUME NEW l \in Clients, Mine(l, x)', pc'[l] \in {"zooming", "inserting"}  PROVE FALSE
    <2>1. l # k
      BY <1>1, <1>2
    <2>2. Mine(l, x) /\ pc[l] \in {"zooming", "inserting"}
      BY <1>2, <2>1, OthersStay
    <2>. QED  BY <1>1, <2>1, <2>2 DEF Unborn
  <1>. QED  BY <1>1, <1>2 DEF Unborn

LEMMA FaultCut ==
  ASSUME IInv, NEW k \in Clients, NEW x, NEW step, Moves(k, x, step), Touches(k, x),
         row' = row, x \in faulted'
  PROVE  Cut(x)'
  <1>1. Cut(x) /\ x \in Classes
    BY HereHolds DEF Moves
  <1>2. Linked(x)' <=> Linked(x)
    BY DEF Linked
  <1>3. \A l \in Clients : Mine(l, x)' => Mine(l, x) /\ req'[l] = req[l]
    BY OthersStay DEF Moves, Mine
  <1>. QED  BY <1>1, <1>2, <1>3 DEF Cut

LEMMA QuietCut ==
  ASSUME IInv, NEW k \in Clients, NEW x, NEW step, Moves(k, x, step), Touches(k, x),
         row' = row, zoom' = zoom, faulted' = faulted,
         pc[k] \notin {"inserting", "deleting"}, step \notin {"inserting", "deleting"}
  PROVE  Cut(x)'
  <1>1. Cut(x) /\ x \in Classes /\ pc'[k] = step
    BY HereHolds DEF Moves
  <1>2. Linked(x)' <=> Linked(x)
    BY DEF Linked
  <1>3. \A l \in Clients : Mine(l, x)' => Mine(l, x) /\ req'[l] = req[l]
    BY OthersStay DEF Moves, Mine
  <1>4. \A l \in Clients : \A s \in {"inserting", "deleting"} :
          Mine(l, x)' /\ pc'[l] = s <=> Mine(l, x) /\ pc[l] = s
    BY <1>1, OthersStay DEF Moves
  <1>5. Released(x)' <=> Released(x)
    BY <1>4 DEF Released, Mine
  <1>. QED  BY <1>1, <1>2, <1>3, <1>4, <1>5 DEF Cut

LEMMA EndsUpdate ==
  ASSUME IInv, NEW k \in Clients, NEW x, NEW step, Moves(k, x, step), Touches(k, x),
         step \notin {"patching", "writing"}
  PROVE  /\ x \in Classes /\ ~ Updating(k, x)'
         /\ \A l \in Clients : Updating(l, x)' => Updating(l, x) /\ Stays(l) /\ Mine(l, x)
         /\ x \notin overlapped' => x \notin overlapped /\ OneUpdate(x)'
         /\ x \notin overlapped /\ row' = row => ReadsTheCost(x)'
  <1>1. pc'[k] = step /\ x \in Classes /\ overlapped' = overlapped
    BY DEF Moves
  <1>2. ~ Updating(k, x)'
    BY <1>1 DEF Updating
  <1>3. \A l \in Clients : Updating(l, x)' => Updating(l, x) /\ Stays(l) /\ Mine(l, x)
    BY <1>2, OthersStay, UpdatingIsMine DEF Stays, IInv, Types
  <1>4. Serial(x)
    BY <1>1, HereHolds
  <1>5. x \notin overlapped => OneUpdate(x)'
    BY <1>3, <1>4 DEF Serial, OneUpdate
  <1>6. x \notin overlapped /\ row' = row => ReadsTheCost(x)'
    BY <1>3, <1>4 DEF Serial, ReadsTheCost, Stays
  <1>. QED  BY <1>1, <1>2, <1>3, <1>5, <1>6

(* A fault excuses the class from all but the order of its updates.         *)
LEMMA FaultPreserves ==
  ASSUME IInv, NEW k \in Clients, NEW x, Moves(k, x, pc'[k]), Touches(k, x), DueIsOwed', Types',
         pc'[k] \notin {"zooming", "inserting", "patching", "writing"},
         row' = row, x \in faulted'
  PROVE  IInv'
  <1>1. Unborn(x)' /\ Cut(x)'
    BY MovesUnborn, FaultCut
  <1>2. x \in Classes /\ x \notin overlapped' => OneUpdate(x)' /\ ReadsTheCost(x)'
    BY EndsUpdate
  <1>3. Covers(x)' /\ Serial(x)'
    BY <1>2 DEF Covers, Serial, ExactCost, ReachesZoom, Moves
  <1>. QED  BY <1>1, <1>3, Elsewhere DEF IInv, Types, Moves

-----------------------------------------------------------------------------
LEMMA CreateMeetingPreserves ==
  ASSUME IInv, NEW k \in Clients, CreateMeeting(k)  PROVE IInv'
  <1>1. PICK x \in Classes : x = req[k].class
    BY RequestFields DEF CreateMeeting, At, IInv
  <1>2. /\ pc[k] = "zooming" /\ Moves(k, x, "inserting")
        /\ zoom' = [zoom EXCEPT ![x] = req[k].new.start]
        /\ row' = row /\ balance' = balance /\ charged' = charged /\ due' = due
        /\ refused' = refused /\ faulted' = faulted /\ lowered' = lowered
    BY <1>1, GotoMoves DEF CreateMeeting, At, history
  <1>3. /\ req[k].op = "create" /\ req[k].new \in Rows /\ req[k].old = NoRow
        /\ req[k].new.linked /\ req[k].new.status = "UPCOMING" /\ req'[k] = req[k]
        /\ req[k].new.start \in Starts
    BY <1>2, RequestFields, Assumptions DEF IInv, Types, RequestsFit, Fits, Moves
  <1>4. Touches(k, x) /\ pc'[k] = "inserting"
    BY <1>2, MovesTouch DEF Moves, IInv, Types, TypeOK
  <1>5. DueIsOwed'
    BY <1>2, <1>3, <1>4, OwesTheSame DEF Owes, Owing, At, IInv
  <1>6. Types'
    <2>1. due' = [due EXCEPT ![x] = due[x]] /\ zoom' \in [Classes -> Starts \cup {NoMeeting}]
      BY <1>2, <1>3 DEF IInv, Types, TypeOK
    <2>2. Fits(k)'
      BY <1>2, <1>3, <1>4 DEF Fits, Moves, Mine
    <2>. QED  BY <1>2, <1>4, <1>5, <2>1, <2>2, MovesTypes DEF IInv, Types, TypeOK
  <1>7. /\ row'[x] = NoRow /\ charged'[x] = 0 /\ due'[x] = 0 /\ zoom'[x] = req[k].new.start
        /\ x \in named' /\ Mine(k, x) /\ Mine(k, x)'
        /\ \A l \in Clients \ {k} : ~ Mine(l, x)'
        /\ \A l \in Clients : ~ Updating(l, x)'
    <2>1. Mine(k, x) /\ Mine(k, x)' /\ x \in named'
      BY <1>2, <1>3, <1>4 DEF Moves, Mine
    <2>2. /\ row[x] = NoRow /\ charged[x] = 0 /\ due[x] = 0
          /\ \A l \in Clients \ {k} : ~ Mine(l, x)
      BY <1>2, <2>1, HereHolds DEF Unborn
    <2>3. \A l \in Clients \ {k} : ~ Mine(l, x)'
      BY <1>4, <2>2, OthersStay
    <2>4. \A l \in Clients : ~ Updating(l, x)'
      BY <1>3, <1>4, <1>6, <2>3, UpdatingIsMine DEF Updating, Mine, Types, RequestsFit, Fits
    <2>5. zoom'[x] = req[k].new.start
      BY <1>2 DEF IInv, Types, TypeOK
    <2>. QED  BY <1>2, <2>1, <2>2, <2>3, <2>4, <2>5
  <1>8. Unborn(x)'
    BY <1>3, <1>4, <1>7 DEF Unborn
  <1>9. Cut(x)'
    BY <1>3, <1>4, <1>7 DEF Cut, Linked, Released, Mine
  <1>10. Covers(x)' /\ Serial(x)'
    BY <1>7 DEF Covers, Serial, OneUpdate, ReadsTheCost, ExactCost, ReachesZoom, Linked
  <1>. QED  BY <1>4, <1>5, <1>6, <1>8, <1>9, <1>10, Elsewhere DEF IInv, Types

LEMMA AbortPreserves ==
  ASSUME IInv, NEW k \in Clients, Abort(k)  PROVE IInv'
  <1>1. PICK x \in Classes : x = req[k].class
    BY RequestFields DEF Abort, IInv
  <1>2. /\ pc[k] # "idle" /\ Moves(k, x, "idle") /\ pc'[k] = "idle"
        /\ row' = row /\ zoom' = zoom /\ balance' = balance /\ charged' = charged
        /\ refused' = refused /\ faulted' = faulted \cup {x} /\ lowered' = lowered
        /\ due' = IF Owing(k) THEN [due EXCEPT ![x] = @ - Charges(req[k])] ELSE due
    BY <1>1, GotoMoves DEF Abort, Fault, Settle, Moves
  <1>3. due \in [Classes -> Nat]
    BY DEF IInv, Types, TypeOK
  <1>4. Touches(k, x)
    BY <1>2, <1>3, MovesTouch
  <1>5. DueIsOwed'
    <2>1. ~ Owes(k, x)'
      BY <1>2 DEF Owes, Owing, At
    <2>2. CASE Owing(k)
      <3>1. due'[x] = due[x] - Charges(req[k])
        BY <1>2, <1>3, <2>2
      <3>2. Owes(k, x) /\ Charges(req[k]) \in Nat
        BY <1>2, <2>2, RequestFields DEF Owes, Moves, IInv
      <3>. QED  BY <1>4, <2>1, <3>1, <3>2, OwesLess DEF IInv
    <2>3. CASE ~ Owing(k)
      BY <1>2, <1>4, <2>1, <2>3, OwesTheSame DEF Owes, IInv
    <2>. QED  BY <2>2, <2>3
  <1>6. Types'
    <2>1. PICK v : due' = [due EXCEPT ![x] = v]
      <3>1. due = [due EXCEPT ![x] = due[x]]
        BY <1>3
      <3>. QED  BY <1>2, <3>1
    <2>2. /\ row' \in [Classes -> Rows \cup {NoRow}] /\ zoom' \in [Classes -> Starts \cup {NoMeeting}]
          /\ balance' \in [Teachers -> Nat] /\ charged' \in [Classes -> Nat]
          /\ refused' \subseteq Classes /\ faulted' \subseteq Classes /\ lowered' \subseteq Classes
      BY <1>2 DEF IInv, Types, TypeOK
    <2>. QED  BY <1>2, <1>5, <2>1, <2>2, MovesTypes
  <1>. QED  BY <1>2, <1>4, <1>5, <1>6, FaultPreserves

LEMMA AnswerLostPreserves ==
  ASSUME IInv, NEW k \in Clients, AnswerLost(k)  PROVE IInv'
  <1>1. PICK x \in Classes : x = req[k].class
    BY RequestFields DEF AnswerLost, At, IInv
  <1>2. /\ pc[k] \in {"zooming", "patching"} /\ Moves(k, x, "idle") /\ pc'[k] = "idle"
        /\ zoom' = [zoom EXCEPT ![x] = req[k].new.start]
        /\ row' = row /\ balance' = balance /\ charged' = charged /\ due' = due
        /\ refused' = refused /\ faulted' = faulted \cup {x} /\ lowered' = lowered
    BY <1>1, GotoMoves DEF AnswerLost, Fault, Moves, At
  <1>3. Touches(k, x)
    BY <1>2, MovesTouch DEF IInv, Types, TypeOK
  <1>4. DueIsOwed'
    BY <1>2, <1>3, OwesTheSame DEF Owes, Owing, At, IInv
  <1>5. req[k].new.start \in Starts
    BY <1>2, RequestFields, Assumptions DEF IInv, Types, RequestsFit, Fits
  <1>6. due' = [due EXCEPT ![x] = due[x]] /\ zoom' \in [Classes -> Starts \cup {NoMeeting}]
    BY <1>2, <1>5 DEF IInv, Types, TypeOK
  <1>7. /\ row' \in [Classes -> Rows \cup {NoRow}] /\ balance' \in [Teachers -> Nat]
        /\ charged' \in [Classes -> Nat]
        /\ refused' \subseteq Classes /\ faulted' \subseteq Classes /\ lowered' \subseteq Classes
    BY <1>2 DEF IInv, Types, TypeOK
  <1>8. Types'
    <2>1. PICK v : due' = [due EXCEPT ![x] = v]
      BY <1>6
    <2>2. Moves(k, x, pc'[k]) /\ pc'[k] = "idle"
      BY <1>2
    <2>. QED  BY <1>4, <1>6, <1>7, <2>1, <2>2, MovesTypes
  <1>. QED  BY <1>2, <1>3, <1>4, <1>8, FaultPreserves

LEMMA SwallowPreserves ==
  ASSUME IInv, NEW k \in Clients, Swallow(k)  PROVE IInv'
  <1>1. PICK x \in Classes : x = req[k].class
    BY RequestFields DEF Swallow, IInv
  <1>2. pc[k] \in {"cleaning", "deleting"} /\ req[k].op \in {"create", "close", "remove"}
    BY RequestFields DEF Swallow, IInv, Types, RequestsFit, Fits
  <1>3. PICK step \in {"idle", "deleting"} :
          (pc[k] = "deleting" => step = "idle") /\ (step = "deleting" => pc[k] = "cleaning")
          /\ Goto(k, step)
    BY <1>2 DEF Swallow, At, AfterDelete, OrIdle
  <1>4. /\ Moves(k, x, step) /\ pc'[k] = step
        /\ row' = row /\ zoom' = zoom /\ balance' = balance /\ charged' = charged /\ due' = due
        /\ refused' = refused /\ faulted' = faulted \cup {x} /\ lowered' = lowered
    BY <1>1, <1>2, <1>3, GotoMoves DEF Swallow, Fault, Moves
  <1>5. Touches(k, x)
    BY <1>4, MovesTouch
  <1>6. DueIsOwed'
    <2>1. req'[k] = NoRequest \/ req'[k].op # "update"
      BY <1>2, <1>4 DEF Moves
    <2>. QED  BY <1>2, <1>4, <1>5, <2>1, OwesTheSame DEF Owes, Mine, Owing, At, IInv
  <1>7. Types'
    <2>1. due' = [due EXCEPT ![x] = due[x]]
      BY <1>4 DEF IInv, Types, TypeOK
    <2>2. step = "deleting" => Fits(k)'
      BY <1>2, <1>3, <1>4 DEF Fits, Moves, Mine, IInv, Types, RequestsFit
    <2>. QED  BY <1>4, <1>6, <2>1, <2>2, MovesTypes DEF IInv, Types, TypeOK
  <1>. QED  BY <1>4, <1>5, <1>6, <1>7, FaultPreserves

(* A request that stops owing: Charge, Refuse and ChargeError.              *)
LEMMA SettleFacts ==
  ASSUME IInv, NEW k \in Clients, At(k, "charging"), Settle(k),
         NEW step \in {"idle", "cleaning"}, Goto(k, step), step = "cleaning" => req[k].op = "create",
         row' = row, zoom' = zoom, lowered' = lowered, NEW x, x = req[k].class,
         refused' = refused \/ refused' = refused \cup {x},
         faulted' = faulted \/ faulted' = faulted \cup {x},
         charged' = charged \/ charged' = [charged EXCEPT ![x] = @ + Charges(req[k])],
         balance' \in [Teachers -> Nat]
  PROVE  /\ Moves(k, x, step) /\ pc'[k] = step /\ Touches(k, x) /\ DueIsOwed' /\ Types'
         /\ due'[x] = due[x] - Charges(req[k])
         /\ Charges(req[k]) \in Nat
         /\ req[k].op \in {"create", "update"}
  <1>1. /\ pc[k] = "charging" /\ Moves(k, x, step) /\ pc'[k] = step
        /\ due' = [due EXCEPT ![x] = @ - Charges(req[k])] /\ Charges(req[k]) \in Nat
    BY GotoMoves, RequestFields DEF At, Settle, Moves, IInv
  <1>2. due \in [Classes -> Nat] /\ charged \in [Classes -> Nat] /\ x \in Classes
    BY <1>1 DEF IInv, Types, TypeOK, Moves
  <1>3. Touches(k, x)
    BY <1>1, <1>2, MovesTouch
  <1>4. due'[x] = due[x] - Charges(req[k])
    BY <1>1, <1>2
  <1>5. Owes(k, x) /\ ~ Owes(k, x)'
    BY <1>1 DEF Owes, Owing, At, Moves
  <1>6. DueIsOwed'
    BY <1>1, <1>2, <1>3, <1>4, <1>5, OwesLess DEF IInv
  <1>7. req[k].op \in {"create", "update"}
    BY <1>1, RequestFields DEF IInv, Types, RequestsFit, Fits
  <1>8. Types'
    <2>1. charged' \in [Classes -> Nat]
      BY <1>1, <1>2
    <2>2. step = "cleaning" => Fits(k)'
      BY <1>1, <1>2 DEF Fits, Moves, Mine, IInv, Types, RequestsFit
    <2>3. refused' \subseteq Classes /\ faulted' \subseteq Classes /\ lowered' \subseteq Classes
      BY <1>2 DEF IInv, Types, TypeOK
    <2>4. row' \in [Classes -> Rows \cup {NoRow}] /\ zoom' \in [Classes -> Starts \cup {NoMeeting}]
      BY DEF IInv, Types, TypeOK
    <2>. QED  BY <1>1, <1>6, <2>1, <2>2, <2>3, <2>4, MovesTypes
  <1>. QED  BY <1>1, <1>3, <1>4, <1>6, <1>7, <1>8

LEMMA ChargeErrorPreserves ==
  ASSUME IInv, NEW k \in Clients, ChargeError(k)  PROVE IInv'
  <1>1. PICK x : x = req[k].class
    OBVIOUS
  <1>2. /\ Moves(k, x, "cleaning") /\ pc'[k] = "cleaning" /\ Touches(k, x) /\ DueIsOwed' /\ Types'
    BY <1>1, SettleFacts DEF ChargeError, Fault, IInv, Types, TypeOK
  <1>3. row' = row /\ x \in faulted'
    BY <1>1 DEF ChargeError, Fault
  <1>. QED  BY <1>2, <1>3, FaultPreserves

LEMMA ChargePreserves ==
  ASSUME IInv, NEW k \in Clients, Charge(k)  PROVE IInv'
  <1>1. PICK x : x = req[k].class
    OBVIOUS
  <1>2. /\ req[k].new.teacher \in Teachers /\ Charges(req[k]) \in Nat
        /\ balance \in [Teachers -> Nat]
    BY RequestFields, Assumptions DEF Charge, At, IInv, Types, TypeOK, RequestsFit, Fits
  <1>3. balance' \in [Teachers -> Nat]
    BY <1>2 DEF Charge
  <1>4. /\ Moves(k, x, "idle") /\ pc'[k] = "idle" /\ Touches(k, x) /\ DueIsOwed' /\ Types'
        /\ due'[x] = due[x] - Charges(req[k])
    BY <1>1, <1>3, SettleFacts DEF Charge
  <1>5. x \in Classes /\ charged'[x] = charged[x] + Charges(req[k])
    BY <1>1, <1>4 DEF Charge, Moves, IInv, Types, TypeOK
  <1>6. /\ row' = row /\ zoom' = zoom /\ refused' = refused /\ faulted' = faulted
        /\ lowered' = lowered /\ pc[k] = "charging" /\ overlapped' = overlapped
    BY <1>4 DEF Charge, At, Moves
  <1>7. charged'[x] + due'[x] = charged[x] + due[x]
    BY <1>2, <1>4, <1>5, HereHolds
  <1>8. Unborn(x)' /\ Cut(x)'
    BY <1>4, <1>6, MovesUnborn, QuietCut
  <1>9. Undoing(x)' <=> Undoing(x)
    BY <1>4, <1>6, OthersStay DEF Undoing
  <1>10. Covers(x)'
    BY <1>4, <1>5, <1>6, <1>7, <1>9, HereHolds, EndsUpdate DEF Covers, Stays
  <1>11. Serial(x)'
    <2>1. \A l \in Clients : /\ Updating(l, x)' <=> Updating(l, x)
                             /\ Updating(l, x) => pc'[l] = pc[l] /\ req'[l] = req[l]
      BY <1>4, <1>6, OthersStay DEF Updating
    <2>2. x \notin overlapped => OneUpdate(x)' /\ ReadsTheCost(x)'
      BY <1>4, <1>6, EndsUpdate
    <2>3. x \notin overlapped => ExactCost(x)'
      BY <1>5, <1>6, <1>7, <1>9, HereHolds DEF Serial, ExactCost
    <2>4. x \notin overlapped => ReachesZoom(x)'
      BY <1>5, <1>6, <2>1, HereHolds DEF Serial, ReachesZoom, Linked
    <2>. QED  BY <1>6, <2>2, <2>3, <2>4 DEF Serial
  <1>. QED  BY <1>4, <1>5, <1>8, <1>10, <1>11, Elsewhere DEF IInv, Types

LEMMA RefusePreserves ==
  ASSUME IInv, NEW k \in Clients, Refuse(k)  PROVE IInv'
  <1>1. PICK x : x = req[k].class
    OBVIOUS
  <1>2. PICK step \in {"idle", "cleaning"} :
          (step = "cleaning" <=> req[k].op = "create") /\ Goto(k, step)
    BY DEF Refuse, OrIdle
  <1>3. /\ Moves(k, x, step) /\ pc'[k] = step /\ Touches(k, x) /\ DueIsOwed' /\ Types'
        /\ req[k].op \in {"create", "update"}
    BY <1>1, <1>2, SettleFacts DEF Refuse, IInv, Types, TypeOK
  <1>4. /\ x \in Classes /\ row' = row /\ zoom' = zoom /\ faulted' = faulted
        /\ pc[k] = "charging" /\ overlapped' = overlapped /\ lowered' = lowered
        /\ req[k].op = "update" => x \in refused'
        /\ x \in refused => x \in refused'
    BY <1>1, <1>3 DEF Refuse, At, Moves
  <1>5. Unborn(x)' /\ Cut(x)'
    BY <1>2, <1>3, <1>4, MovesUnborn, QuietCut
  <1>6. x \in refused' \/ Undoing(x)'
    BY <1>2, <1>3, <1>4 DEF Undoing, Moves, Mine
  <1>7. Covers(x)'
    BY <1>6 DEF Covers
  <1>8. Serial(x)'
    <2>1. \A l \in Clients : /\ Updating(l, x)' <=> Updating(l, x)
                             /\ Updating(l, x) => pc'[l] = pc[l] /\ req'[l] = req[l]
      BY <1>2, <1>3, <1>4, OthersStay DEF Updating
    <2>2. x \notin overlapped => OneUpdate(x)' /\ ReadsTheCost(x)'
      BY <1>3, <1>4, EndsUpdate
    <2>3. ExactCost(x)'
      BY <1>6 DEF ExactCost
    <2>4. x \notin overlapped => ReachesZoom(x)'
      BY <1>4, <2>1, HereHolds DEF Serial, ReachesZoom, Linked
    <2>. QED  BY <1>4, <2>2, <2>3, <2>4 DEF Serial
  <1>. QED  BY <1>3, <1>4, <1>5, <1>7, <1>8, Elsewhere DEF IInv, Types

LEMMA NotFoundPreserves ==
  ASSUME IInv, NEW k \in Clients, NotFound(k)  PROVE IInv'
  <1>1. PICK x \in Classes : x = req[k].class
    BY RequestFields DEF NotFound, At, IInv
  <1>2. /\ pc[k] \in {"patching", "writing"} /\ Moves(k, x, "idle") /\ pc'[k] = "idle"
        /\ row' = row /\ zoom' = zoom /\ balance' = balance /\ charged' = charged /\ due' = due
        /\ refused' = refused /\ faulted' = faulted /\ lowered' = lowered
        /\ overlapped' = overlapped
        /\ zoom[x] = NoMeeting \/ row[x] = NoRow
    BY <1>1, GotoMoves DEF NotFound, At, history, Moves
  <1>3. Touches(k, x)
    BY <1>2, MovesTouch
  <1>4. DueIsOwed'
    BY <1>2, <1>3, OwesTheSame DEF Owes, Owing, At, IInv
  <1>5. Types'
    <2>1. due' = [due EXCEPT ![x] = due[x]]
      BY <1>2 DEF IInv, Types, TypeOK
    <2>2. /\ row' \in [Classes -> Rows \cup {NoRow}] /\ zoom' \in [Classes -> Starts \cup {NoMeeting}]
          /\ balance' \in [Teachers -> Nat] /\ charged' \in [Classes -> Nat]
          /\ refused' \subseteq Classes /\ faulted' \subseteq Classes /\ lowered' \subseteq Classes
      BY <1>2 DEF IInv, Types, TypeOK
    <2>. QED  BY <1>2, <1>4, <2>1, <2>2, MovesTypes
  <1>6. Unborn(x)' /\ Cut(x)'
    BY <1>2, <1>3, MovesUnborn, QuietCut
  <1>7. Undoing(x)' <=> Undoing(x)
    BY <1>2, <1>3, OthersStay DEF Undoing
  <1>8. Covers(x)'
    BY <1>2, <1>3, <1>7, HereHolds, EndsUpdate DEF Covers, Stays
  <1>9. Serial(x)'
    <2>1. x \notin overlapped => OneUpdate(x)' /\ ReadsTheCost(x)'
      BY <1>2, <1>3, EndsUpdate
    <2>2. x \notin overlapped => ExactCost(x)'
      BY <1>2, <1>7, HereHolds DEF Serial, ExactCost
    <2>3. x \in faulted \/ ~ Linked(x)'
      BY <1>2, HereHolds DEF Cut, Linked
    <2>. QED  BY <1>2, <2>1, <2>2, <2>3 DEF Serial, ReachesZoom
  <1>. QED  BY <1>3, <1>4, <1>5, <1>6, <1>8, <1>9, Elsewhere DEF IInv, Types

LEMMA DeleteMeetingPreserves ==
  ASSUME IInv, NEW k \in Clients, DeleteMeeting(k)  PROVE IInv'
  <1>1. PICK x \in Classes : x = req[k].class
    BY RequestFields DEF DeleteMeeting, At, IInv
  <1>2. pc[k] = "deleting" /\ req[k].op \in {"create", "close", "remove"}
    BY RequestFields DEF DeleteMeeting, At, IInv, Types, RequestsFit, Fits
  <1>3. /\ Moves(k, x, "idle") /\ pc'[k] = "idle"
        /\ zoom' = [zoom EXCEPT ![x] = NoMeeting]
        /\ row' = row /\ balance' = balance /\ charged' = charged /\ due' = due
        /\ refused' = refused /\ faulted' = faulted /\ lowered' = lowered
        /\ overlapped' = overlapped
    BY <1>1, <1>2, GotoMoves DEF DeleteMeeting, AfterDelete, OrIdle, history, Moves
  <1>4. Touches(k, x)
    BY <1>3, MovesTouch DEF IInv, Types, TypeOK
  <1>5. DueIsOwed'
    BY <1>2, <1>3, <1>4, OwesTheSame DEF Owes, Owing, At, IInv
  <1>6. Types'
    <2>1. due' = [due EXCEPT ![x] = due[x]] /\ zoom' \in [Classes -> Starts \cup {NoMeeting}]
      BY <1>3 DEF IInv, Types, TypeOK
    <2>2. /\ row' \in [Classes -> Rows \cup {NoRow}] /\ balance' \in [Teachers -> Nat]
          /\ charged' \in [Classes -> Nat]
          /\ refused' \subseteq Classes /\ faulted' \subseteq Classes /\ lowered' \subseteq Classes
      BY <1>3 DEF IInv, Types, TypeOK
    <2>. QED  BY <1>3, <1>5, <2>1, <2>2, MovesTypes
  <1>7. zoom'[x] = NoMeeting
    BY <1>3 DEF IInv, Types, TypeOK
  <1>8. x \in faulted \/ ~ Linked(x)
    BY <1>2, <1>3, HereHolds DEF Cut, Moves
  <1>9. Linked(x)' <=> Linked(x)
    BY <1>3 DEF Linked
  <1>10. Unborn(x)'
    BY <1>3, <1>4, MovesUnborn
  <1>11. Cut(x)'
    <2>1. \A l \in Clients : Mine(l, x)' => Mine(l, x) /\ req'[l] = req[l] /\ pc'[l] = pc[l]
      BY <1>3, <1>4, OthersStay DEF Moves, Mine
    <2>. QED  BY <1>3, <1>7, <1>8, <1>9, <2>1, HereHolds DEF Cut
  <1>12. Undoing(x)' <=> Undoing(x)
    BY <1>2, <1>3, <1>4, OthersStay DEF Undoing
  <1>13. Covers(x)'
    BY <1>3, <1>4, <1>12, HereHolds, EndsUpdate DEF Covers, Stays
  <1>14. Serial(x)'
    <2>1. x \notin overlapped => OneUpdate(x)' /\ ReadsTheCost(x)'
      BY <1>3, <1>4, EndsUpdate
    <2>2. x \notin overlapped => ExactCost(x)'
      BY <1>3, <1>12, HereHolds DEF Serial, ExactCost
    <2>. QED  BY <1>3, <1>8, <1>9, <2>1, <2>2 DEF Serial, ReachesZoom
  <1>. QED  BY <1>4, <1>5, <1>6, <1>10, <1>11, <1>13, <1>14, Elsewhere DEF IInv, Types

LEMMA PatchMeetingPreserves ==
  ASSUME IInv, NEW k \in Clients, PatchMeeting(k)  PROVE IInv'
  <1>1. PICK x \in Classes : x = req[k].class
    BY RequestFields DEF PatchMeeting, At, IInv
  <1>2. /\ pc[k] = "patching" /\ Moves(k, x, "writing") /\ pc'[k] = "writing"
        /\ zoom' = [zoom EXCEPT ![x] = req[k].new.start] /\ zoom[x] # NoMeeting
        /\ row' = row /\ balance' = balance /\ charged' = charged /\ due' = due
        /\ refused' = refused /\ faulted' = faulted /\ lowered' = lowered
        /\ overlapped' = overlapped /\ req'[k] = req[k]
    BY <1>1, GotoMoves DEF PatchMeeting, At, history, Moves
  <1>3. /\ req[k].op = "update" /\ req[k].new \in Rows /\ req[k].old \in Rows
        /\ req[k].new.start \in Starts
        /\ req[k].old.linked => req[k].new.status # "CANCELLED"
    BY <1>2, RequestFields, Assumptions DEF IInv, Types, RequestsFit, Fits
  <1>4. Touches(k, x)
    BY <1>2, MovesTouch DEF IInv, Types, TypeOK
  <1>5. DueIsOwed'
    BY <1>2, <1>4, OwesTheSame DEF Owes, Owing, At, IInv
  <1>6. Types'
    <2>1. due' = [due EXCEPT ![x] = due[x]] /\ zoom' \in [Classes -> Starts \cup {NoMeeting}]
      BY <1>2, <1>3 DEF IInv, Types, TypeOK
    <2>2. /\ row' \in [Classes -> Rows \cup {NoRow}] /\ balance' \in [Teachers -> Nat]
          /\ charged' \in [Classes -> Nat]
          /\ refused' \subseteq Classes /\ faulted' \subseteq Classes /\ lowered' \subseteq Classes
      BY <1>2 DEF IInv, Types, TypeOK
    <2>3. Fits(k)'
      BY <1>2, <1>3 DEF Fits, Moves, Mine
    <2>4. Moves(k, x, pc'[k]) /\ pc'[k] = "writing"
      BY <1>2
    <2>. QED  BY <1>5, <2>1, <2>2, <2>3, <2>4, MovesTypes
  <1>7. zoom'[x] = req[k].new.start /\ zoom'[x] # NoMeeting
    BY <1>2, <1>3, Assumptions DEF IInv, Types, TypeOK
  <1>8. Linked(x)' <=> Linked(x)
    BY <1>2 DEF Linked
  <1>9. \A l \in Clients : /\ Mine(l, x)' <=> Mine(l, x)
                           /\ Updating(l, x)' <=> Updating(l, x)
                           /\ req'[l] = req[l]
                           /\ l # k => pc'[l] = pc[l]
    BY <1>2, <1>3, <1>4, OthersStay DEF Updating, Moves, Mine
  <1>10. Unborn(x)'
    BY <1>2, <1>4, MovesUnborn
  <1>11. Cut(x)'
    <2>1. \A l \in Clients : \A s \in {"inserting", "deleting"} :
            Mine(l, x)' /\ pc'[l] = s <=> Mine(l, x) /\ pc[l] = s
      BY <1>2, <1>9
    <2>2. Released(x)' <=> Released(x)
      BY <2>1 DEF Released, Mine
    <2>. QED  BY <1>2, <1>7, <1>8, <1>9, <2>1, <2>2, HereHolds DEF Cut
  <1>12. Undoing(x)' <=> Undoing(x)
    BY <1>2, <1>9 DEF Undoing
  <1>13. Covers(x)'
    BY <1>2, <1>9, <1>12, HereHolds DEF Covers
  <1>14. Serial(x)'
    <2>1. Updating(k, x)' /\ Serial(x)
      BY <1>1, <1>2, <1>3, HereHolds DEF Updating
    <2>2. x \notin overlapped => OneUpdate(x)' /\ ReadsTheCost(x)' /\ ExactCost(x)'
      BY <1>2, <1>9, <1>12, <2>1 DEF Serial, OneUpdate, ReadsTheCost, ExactCost
    <2>3. x \notin overlapped => ReachesZoom(x)'
      BY <1>2, <1>7, <1>9, <2>1, <2>2 DEF OneUpdate, ReachesZoom
    <2>. QED  BY <1>2, <2>2, <2>3 DEF Serial
  <1>. QED  BY <1>4, <1>5, <1>6, <1>10, <1>11, <1>13, <1>14, Elsewhere DEF IInv, Types

LEMMA CleanupPreserves ==
  ASSUME IInv, NEW k \in Clients, Cleanup(k)  PROVE IInv'
  <1>1. PICK x \in Classes : x = req[k].class
    BY RequestFields DEF Cleanup, At, IInv
  <1>2. /\ pc[k] = "cleaning" /\ Moves(k, x, "deleting") /\ pc'[k] = "deleting"
        /\ row' = [row EXCEPT ![x] = NoRow]
        /\ zoom' = zoom /\ balance' = balance /\ charged' = charged /\ due' = due
        /\ refused' = refused /\ faulted' = faulted /\ lowered' = lowered
        /\ overlapped' = overlapped
    BY <1>1, GotoMoves DEF Cleanup, At, history, Moves
  <1>3. req[k].op = "create" /\ req'[k] = req[k]
    BY <1>2, RequestFields DEF IInv, Types, RequestsFit, Fits, Moves
  <1>4. Touches(k, x)
    BY <1>2, MovesTouch DEF IInv, Types, TypeOK
  <1>5. DueIsOwed'
    BY <1>2, <1>3, <1>4, OwesTheSame DEF Owes, Owing, At, IInv
  <1>6. Types'
    <2>1. due' = [due EXCEPT ![x] = due[x]] /\ row' \in [Classes -> Rows \cup {NoRow}]
      BY <1>2 DEF IInv, Types, TypeOK
    <2>2. /\ zoom' \in [Classes -> Starts \cup {NoMeeting}] /\ balance' \in [Teachers -> Nat]
          /\ charged' \in [Classes -> Nat]
          /\ refused' \subseteq Classes /\ faulted' \subseteq Classes /\ lowered' \subseteq Classes
      BY <1>2 DEF IInv, Types, TypeOK
    <2>3. Fits(k)'
      BY <1>2, <1>3 DEF Fits, Moves, Mine, IInv, Types, RequestsFit
    <2>. QED  BY <1>2, <1>5, <2>1, <2>2, <2>3, MovesTypes
  <1>7. row'[x] = NoRow
    BY <1>2 DEF IInv, Types, TypeOK
  <1>8. Unborn(x)'
    BY <1>2, <1>4, MovesUnborn
  <1>9. ~ Linked(x)' /\ ~ Released(x)'
    BY <1>2, <1>3, <1>7 DEF Linked, Released, Moves, Mine
  <1>10. Cut(x)' /\ Covers(x)'
    BY <1>7, <1>9 DEF Cut, Covers
  <1>11. Serial(x)'
    <2>1. x \notin overlapped' => OneUpdate(x)'
      BY <1>2, <1>4, EndsUpdate
    <2>. QED  BY <1>7, <1>9, <2>1 DEF Serial, ReadsTheCost, ExactCost, ReachesZoom
  <1>. QED  BY <1>4, <1>5, <1>6, <1>8, <1>10, <1>11, Elsewhere DEF IInv, Types

LEMMA InsertRowPreserves ==
  ASSUME IInv, NEW k \in Clients, InsertRow(k)  PROVE IInv'
  <1>1. PICK x \in Classes : x = req[k].class
    BY RequestFields DEF InsertRow, At, IInv
  <1>2. /\ pc[k] = "inserting" /\ req[k].op = "create" /\ Charges(req[k]) = req[k].new.cost
        /\ req[k].new \in Rows /\ req[k].old = NoRow /\ req[k].new.cost \in Nat
        /\ req[k].new.linked /\ req[k].new.status = "UPCOMING" /\ req[k].new.start \in Starts
    BY RequestFields, Assumptions DEF InsertRow, At, IInv, Types, RequestsFit, Fits
  <1>3. PICK step \in {"idle", "charging"} :
          (step = "charging" <=> Charges(req[k]) > 0) /\ Goto(k, step)
    BY DEF InsertRow, OrIdle
  <1>4. /\ Moves(k, x, step) /\ pc'[k] = step
        /\ row' = [row EXCEPT ![x] = req[k].new]
        /\ due' = [due EXCEPT ![x] = @ + Charges(req[k])]
        /\ zoom' = zoom /\ balance' = balance /\ charged' = charged
        /\ refused' = refused /\ faulted' = faulted /\ lowered' = lowered
    BY <1>1, <1>2, <1>3, GotoMoves DEF InsertRow, Moves
  <1>5. Touches(k, x)
    BY <1>4, MovesTouch DEF IInv, Types, TypeOK
  <1>6. row'[x] = req[k].new /\ due'[x] = due[x] + Charges(req[k])
    BY <1>4 DEF IInv, Types, TypeOK
  <1>7. DueIsOwed'
    <2>1. ~ Owes(k, x)
      BY <1>2 DEF Owes, Owing, At
    <2>2. CASE step = "charging"
      <3>1. req'[k] = req[k] /\ Owes(k, x)'
        BY <1>4, <2>2 DEF Owes, Owing, At, Moves, Mine
      <3>. QED  BY <1>2, <1>5, <1>6, <2>1, <3>1, OwesMore DEF IInv
    <2>3. CASE step = "idle"
      <3>1. Charges(req[k]) = 0 /\ ~ Owes(k, x)'
        BY <1>2, <1>3, <1>4, <2>3 DEF Owes, Owing, At
      <3>2. due'[x] = due[x]
        BY <1>6, <3>1, HereHolds
      <3>. QED  BY <1>5, <2>1, <3>1, <3>2, OwesTheSame DEF IInv
    <2>. QED  BY <2>2, <2>3
  <1>8. Types'
    <2>1. row' \in [Classes -> Rows \cup {NoRow}]
      BY <1>2, <1>4 DEF IInv, Types, TypeOK
    <2>2. /\ zoom' \in [Classes -> Starts \cup {NoMeeting}] /\ balance' \in [Teachers -> Nat]
          /\ charged' \in [Classes -> Nat]
          /\ refused' \subseteq Classes /\ faulted' \subseteq Classes /\ lowered' \subseteq Classes
      BY <1>4 DEF IInv, Types, TypeOK
    <2>3. step # "idle" => Fits(k)'
      BY <1>2, <1>4 DEF Fits, Moves, Mine
    <2>. QED  BY <1>4, <1>7, <2>1, <2>2, <2>3, MovesTypes
  <1>9. /\ row[x] = NoRow /\ charged[x] = 0 /\ due[x] = 0 /\ zoom[x] = req[k].new.start
        /\ \A l \in Clients \ {k} : ~ Mine(l, x)
    BY <1>2, <1>4, HereHolds DEF Unborn, Moves
  <1>10. /\ row'[x] # NoRow /\ row'[x].cost = charged'[x] + due'[x]
         /\ row'[x].cost \in Nat /\ row'[x].cost <= charged'[x] + due'[x]
         /\ zoom'[x] = row'[x].start /\ zoom'[x] # NoMeeting
    BY <1>2, <1>4, <1>6, <1>9, Assumptions
  <1>11. /\ \A l \in Clients \ {k} : ~ Mine(l, x)'
         /\ \A l \in Clients : ~ Updating(l, x)'
    <2>1. \A l \in Clients \ {k} : ~ Mine(l, x)'
      BY <1>5, <1>9, OthersStay
    <2>2. ~ Updating(k, x)'
      BY <1>4 DEF Updating
    <2>3. \A l \in Clients : Updating(l, x)' => Mine(l, x)'
      BY <1>8 DEF Updating, Mine, Types, RequestsFit, Fits
    <2>. QED  BY <2>1, <2>2, <2>3
  <1>12. Unborn(x)'
    BY <1>4, <1>5, MovesUnborn
  <1>13. Linked(x)' /\ row'[x].status # "CANCELLED"
    BY <1>2, <1>6, <1>10 DEF Linked
  <1>14. Cut(x)'
    <2>1. ASSUME NEW l \in Clients, Mine(l, x)'  PROVE req'[l].op = "create" /\ pc'[l] # "deleting"
      <3>1. l = k
        BY <1>11, <2>1
      <3>. QED  BY <1>2, <1>4, <2>1, <3>1 DEF Moves, Mine
    <2>. QED  BY <1>10, <1>13, <2>1 DEF Cut
  <1>15. Covers(x)' /\ Serial(x)'
    BY <1>10, <1>11 DEF Covers, Serial, OneUpdate, ReadsTheCost, ExactCost, ReachesZoom
  <1>. QED  BY <1>5, <1>7, <1>8, <1>12, <1>14, <1>15, Elsewhere DEF IInv, Types

(* WriteRow of a close or a removal clears the class of its meeting.        *)
LEMMA WritesClear ==
  ASSUME IInv, NEW k \in Clients, WriteRow(k), req[k].op \in {"close", "remove"}  PROVE IInv'
  <1>1. PICK x \in Classes : x = req[k].class
    BY RequestFields DEF WriteRow, At, IInv
  <1>2. PICK step \in {"idle", "deleting"} :
          (req[k].old.linked => step = "deleting") /\ Goto(k, step)
    BY DEF WriteRow, DeletesMeeting, AfterDelete, OrIdle
  <1>3. PICK w : w = Written(req[k])
    OBVIOUS
  <1>4. /\ pc[k] = "writing" /\ row[x] # NoRow /\ Moves(k, x, step) /\ pc'[k] = step
        /\ row' = [row EXCEPT ![x] = w]
        /\ due' = [due EXCEPT ![x] = @ + Charges(req[k])] /\ Charges(req[k]) = 0
        /\ zoom' = zoom /\ balance' = balance /\ charged' = charged
        /\ refused' = refused /\ faulted' = faulted /\ lowered' = lowered
        /\ overlapped' = overlapped
    BY <1>1, <1>2, <1>3, GotoMoves, RequestFields DEF WriteRow, At, Moves, IInv
  <1>5. due' = [due EXCEPT ![x] = due[x]] /\ due'[x] = due[x] /\ row'[x] = w /\ row[x] \in Rows
    <2>1. due \in [Classes -> Nat] /\ row'[x] = w /\ row[x] \in Rows
      BY <1>4 DEF IInv, Types, TypeOK
    <2>2. due[x] + Charges(req[k]) = due[x]
      BY <1>4, <2>1
    <2>. QED  BY <1>4, <2>1, <2>2
  <1>6. \/ w = NoRow
        \/ w \in Rows /\ ~ w.linked /\ w.cost = row[x].cost
    <2>1. CASE req[k].op = "remove"
      BY <1>3, <2>1 DEF Written
    <2>2. CASE req[k].op = "close"
      <3>1. req[k].new.status \in Statuses
        BY <1>4, <2>2, Assumptions DEF IInv, Types, RequestsFit, Fits
      <3>2. w = [row[x] EXCEPT !.status = req[k].new.status, !.linked = FALSE]
        BY <1>1, <1>3, <2>2 DEF Written
      <3>. QED  BY <1>5, <3>1, <3>2 DEF Rows
    <2>. QED  BY <2>1, <2>2
  <1>7. Touches(k, x)
    BY <1>4, <1>5, MovesTouch DEF IInv, Types, TypeOK
  <1>8. DueIsOwed'
    <2>1. req'[k] = NoRequest \/ req'[k].op # "update"
      BY <1>4 DEF Moves
    <2>. QED  BY <1>4, <1>5, <1>7, <2>1, OwesTheSame DEF Owes, Mine, Owing, At, IInv
  <1>9. Types'
    <2>1. row' \in [Classes -> Rows \cup {NoRow}]
      BY <1>4, <1>6 DEF IInv, Types, TypeOK
    <2>2. /\ zoom' \in [Classes -> Starts \cup {NoMeeting}] /\ balance' \in [Teachers -> Nat]
          /\ charged' \in [Classes -> Nat]
          /\ refused' \subseteq Classes /\ faulted' \subseteq Classes /\ lowered' \subseteq Classes
      BY <1>4 DEF IInv, Types, TypeOK
    <2>3. pc'[k] # "idle" => Fits(k)'
      BY <1>4 DEF Fits, Moves, Mine, IInv, Types, RequestsFit
    <2>4. Moves(k, x, pc'[k]) /\ pc'[k] \in {"idle", "deleting"}
      BY <1>4
    <2>5. due' = [due EXCEPT ![x] = due[x]]
      BY <1>5
    <2>. QED  BY <1>8, <2>1, <2>2, <2>3, <2>4, <2>5, MovesTypes
  <1>10. Unborn(x)'
    BY <1>4, <1>7, MovesUnborn
  <1>11. ~ Linked(x)'
    BY <1>5, <1>6 DEF Linked
  <1>12. Cut(x)'
    <2>1. ASSUME Released(x)', zoom'[x] # NoMeeting  PROVE x \in faulted
      <3>1. pc'[k] # "deleting"
        BY <1>4, <2>1 DEF Released, Moves, Mine
      <3>2. ~ Linked(x)
        BY <1>1, <1>2, <1>4, <3>1, HereHolds DEF Cut, Moves
      <3>3. Released(x)
        BY <1>4, <1>7, <2>1, <3>1, OthersStay DEF Released, Moves, Mine
      <3>. QED  BY <1>4, <2>1, <3>2, <3>3, HereHolds DEF Cut
    <2>. QED  BY <1>4, <1>11, <2>1 DEF Cut
  <1>13. Undoing(x)' <=> Undoing(x)
    BY <1>4, <1>7, OthersStay DEF Undoing
  <1>14. Covers(x)'
    BY <1>4, <1>5, <1>6, <1>7, <1>13, HereHolds, EndsUpdate DEF Covers, Stays
  <1>15. Serial(x)'
    <2>1. x \notin overlapped => OneUpdate(x)'
      BY <1>4, <1>7, EndsUpdate
    <2>2. \A l \in Clients : Updating(l, x)' => Updating(l, x) /\ Stays(l)
      BY <1>4, <1>7, EndsUpdate
    <2>3. x \notin overlapped => ReadsTheCost(x)'
      BY <1>4, <1>5, <1>6, <2>2, HereHolds DEF Serial, ReadsTheCost, Stays
    <2>4. x \notin overlapped => ExactCost(x)'
      BY <1>4, <1>5, <1>6, <1>13, HereHolds DEF Serial, ExactCost
    <2>. QED  BY <1>4, <1>11, <2>1, <2>3, <2>4 DEF Serial, ReachesZoom
  <1>. QED  BY <1>7, <1>8, <1>9, <1>10, <1>12, <1>14, <1>15, Elsewhere DEF IInv, Types

(* WriteRow of an update keeps the meeting and shows the cost it asked for.  *)
LEMMA WritesUpdate ==
  ASSUME IInv, NEW k \in Clients, WriteRow(k), req[k].op = "update"  PROVE IInv'
  <1>1. PICK x \in Classes : x = req[k].class
    BY RequestFields DEF WriteRow, At, IInv
  <1>2. /\ pc[k] = "writing" /\ row[x] # NoRow
        /\ req[k].new \in Rows /\ req[k].old \in Rows
        /\ req[k].old.linked => req[k].new.status # "CANCELLED"
        /\ req[k].new.cost \in Nat /\ req[k].old.cost \in Nat
        /\ Charges(req[k]) = IF req[k].new.cost > req[k].old.cost
                               THEN req[k].new.cost - req[k].old.cost ELSE 0
    BY <1>1, RequestFields DEF WriteRow, At, IInv, Types, RequestsFit, Fits
  <1>3. PICK step \in {"idle", "charging"} :
          (step = "charging" <=> Charges(req[k]) > 0) /\ Goto(k, step)
    BY <1>2 DEF WriteRow, DeletesMeeting, AfterDelete, OrIdle
  <1>4. PICK w : w = [req[k].new EXCEPT !.linked = row[x].linked]
    OBVIOUS
  <1>5. Written(req[k]) = w
    BY <1>1, <1>4 DEF Written
  <1>6. /\ Moves(k, x, step) /\ pc'[k] = step
        /\ row' = [row EXCEPT ![x] = w]
        /\ due' = [due EXCEPT ![x] = @ + Charges(req[k])] /\ Charges(req[k]) \in Nat
        /\ zoom' = zoom /\ balance' = balance /\ charged' = charged
        /\ refused' = refused /\ faulted' = faulted
        /\ lowered' = IF req[k].new.cost < row[x].cost THEN lowered \cup {x} ELSE lowered
        /\ overlapped' = overlapped
    BY <1>1, <1>2, <1>3, <1>5, GotoMoves, RequestFields DEF WriteRow, At, Moves, IInv
  <1>7. /\ due'[x] = due[x] + Charges(req[k]) /\ row'[x] = w /\ row[x] \in Rows
        /\ row[x].cost \in Nat /\ row[x].linked \in BOOLEAN
    BY <1>2, <1>6, Assumptions DEF IInv, Types, TypeOK
  <1>8. /\ w \in Rows /\ w.linked = row[x].linked /\ w.cost = req[k].new.cost
        /\ w.start = req[k].new.start /\ w.status = req[k].new.status
    BY <1>2, <1>4, <1>7 DEF Rows
  <1>9. Touches(k, x)
    BY <1>6, MovesTouch DEF IInv, Types, TypeOK
  <1>10. DueIsOwed'
    <2>1. ~ Owes(k, x)
      BY <1>2 DEF Owes, Owing, At
    <2>2. CASE step = "charging"
      <3>1. req'[k] = req[k] /\ Owes(k, x)'
        BY <1>6, <2>2 DEF Owes, Owing, At, Moves, Mine
      <3>. QED  BY <1>6, <1>7, <1>9, <2>1, <3>1, OwesMore DEF IInv
    <2>3. CASE step = "idle"
      <3>1. Charges(req[k]) = 0 /\ ~ Owes(k, x)'
        BY <1>3, <1>6, <2>3 DEF Owes, Owing, At
      <3>2. due'[x] = due[x]
        BY <1>7, <3>1, HereHolds
      <3>. QED  BY <1>9, <2>1, <3>1, <3>2, OwesTheSame DEF IInv
    <2>. QED  BY <2>2, <2>3
  <1>11. Types'
    <2>1. row' \in [Classes -> Rows \cup {NoRow}]
      BY <1>6, <1>8 DEF IInv, Types, TypeOK
    <2>2. /\ zoom' \in [Classes -> Starts \cup {NoMeeting}] /\ balance' \in [Teachers -> Nat]
          /\ charged' \in [Classes -> Nat]
          /\ refused' \subseteq Classes /\ faulted' \subseteq Classes /\ lowered' \subseteq Classes
      BY <1>6 DEF IInv, Types, TypeOK
    <2>3. step # "idle" => Fits(k)'
      BY <1>2, <1>6 DEF Fits, Moves, Mine
    <2>. QED  BY <1>6, <1>10, <2>1, <2>2, <2>3, MovesTypes
  <1>12. Unborn(x)'
    BY <1>6, <1>9, MovesUnborn
  <1>13. Linked(x)' <=> Linked(x)
    BY <1>2, <1>7, <1>8, Assumptions DEF Linked
  <1>14. Mine(k, x) /\ Updating(k, x)
    BY <1>1, <1>2, <1>6 DEF Moves, Updating
  <1>15. Cut(x)'
    <2>1. \A l \in Clients : Mine(l, x)' => Mine(l, x) /\ req'[l] = req[l]
      BY <1>6, <1>9, OthersStay DEF Moves, Mine
    <2>2. \A l \in Clients : \A s \in {"inserting", "deleting"} :
            Mine(l, x)' /\ pc'[l] = s <=> Mine(l, x) /\ pc[l] = s
      BY <1>2, <1>6, <1>9, OthersStay DEF Moves
    <2>3. Released(x)' <=> Released(x)
      BY <2>2 DEF Released, Mine
    <2>4. Linked(x) => row'[x].status # "CANCELLED"
      BY <1>2, <1>7, <1>8, <1>14, HereHolds DEF Cut
    <2>. QED  BY <1>6, <1>13, <2>1, <2>2, <2>3, <2>4, HereHolds DEF Cut
  <1>16. Undoing(x)' <=> Undoing(x)
    BY <1>2, <1>6, <1>9, OthersStay DEF Undoing
  <1>17. charged[x] \in Nat /\ due[x] \in Nat /\ charged'[x] = charged[x]
    BY <1>6, HereHolds
  <1>18. Covers(x)'
    <2>. SUFFICES ASSUME x \notin faulted \cup refused, ~ Undoing(x)
                  PROVE  /\ row'[x].cost <= charged'[x] + due'[x]
                         /\ \A l \in Clients : Mine(l, x)' /\ Updating(l, x)' =>
                              req'[l].old.cost <= charged'[x] + due'[x]
      BY <1>6, <1>16 DEF Covers
    <2>1. /\ row[x].cost <= charged[x] + due[x]
          /\ \A l \in Clients : Mine(l, x) /\ Updating(l, x) =>
               req[l].old.cost <= charged[x] + due[x]
      BY <1>2, HereHolds DEF Covers
    <2>2. row'[x].cost <= charged'[x] + due'[x]
      <3>1. req[k].old.cost <= charged[x] + due[x]
        BY <1>14, <2>1
      <3>. QED  BY <1>2, <1>6, <1>7, <1>8, <1>17, <3>1
    <2>3. ASSUME NEW l \in Clients, Updating(l, x)'
          PROVE  req'[l].old.cost <= charged'[x] + due'[x]
      <3>1. Updating(l, x) /\ Stays(l) /\ Mine(l, x)
        BY <1>6, <1>9, <2>3, EndsUpdate
      <3>2. req'[l].old.cost <= charged[x] + due[x] /\ req'[l].old.cost \in Nat
        BY <2>1, <3>1, RequestFields DEF Stays, Updating, IInv
      <3>. QED  BY <1>6, <1>7, <1>17, <3>2
    <2>. QED  BY <2>2, <2>3
  <1>19. Serial(x)'
    <2>. SUFFICES ASSUME x \notin overlapped
                  PROVE  OneUpdate(x)' /\ ReadsTheCost(x)' /\ ExactCost(x)' /\ ReachesZoom(x)'
      BY <1>6 DEF Serial
    <2>1. OneUpdate(x) /\ ReadsTheCost(x) /\ ExactCost(x) /\ ReachesZoom(x)
      BY HereHolds DEF Serial
    <2>2. \A l \in Clients : ~ Updating(l, x)'
      BY <1>6, <1>9, <1>14, <2>1, EndsUpdate DEF OneUpdate
    <2>3. ExactCost(x)'
      <3>. SUFFICES ASSUME x \notin faulted \cup refused, x \notin lowered', ~ Undoing(x)
                    PROVE  row'[x].cost = charged'[x] + due'[x]
        BY <1>6, <1>16 DEF ExactCost
      <3>1. x \notin lowered /\ ~ (req[k].new.cost < row[x].cost)
        BY <1>6
      <3>2. req[k].old.cost = row[x].cost /\ row[x].cost = charged[x] + due[x]
        BY <1>2, <1>14, <2>1, <3>1 DEF ReadsTheCost, ExactCost
      <3>. QED  BY <1>2, <1>6, <1>7, <1>8, <1>17, <3>1, <3>2
    <2>4. ReachesZoom(x)'
      BY <1>2, <1>6, <1>7, <1>8, <1>13, <1>14, <2>1, <2>2 DEF ReachesZoom
    <2>. QED  BY <2>2, <2>3, <2>4 DEF OneUpdate, ReadsTheCost
  <1>. QED  BY <1>9, <1>10, <1>11, <1>12, <1>15, <1>18, <1>19, Elsewhere DEF IInv, Types

-----------------------------------------------------------------------------
(* A request that begins writes to no store. *)
Opens(k, x, r, step) ==
  /\ pc[k] = "idle" /\ req[k] = NoRequest /\ r \in Requests /\ r.class = x /\ x \in Classes
  /\ pc' = [pc EXCEPT ![k] = step] /\ pc'[k] = step
  /\ req' = [req EXCEPT ![k] = r] /\ req'[k] = r /\ req'[k] # NoRequest
  /\ \A l \in Clients \ {k} : Stays(l)
  /\ row' = row /\ zoom' = zoom /\ balance' = balance /\ charged' = charged /\ due' = due
  /\ refused' = refused /\ faulted' = faulted /\ lowered' = lowered
  /\ begun' \in 0 .. MaxRequests
  /\ ~ Mine(k, x) /\ Mine(k, x)'

LEMMA AcceptOpens ==
  ASSUME IInv, NEW k \in Clients, NEW r \in Requests, NEW step, Accept(k, r, step)
  PROVE  Opens(k, r.class, r, step)
  <1>1. pc[k] = "idle" /\ req[k] = NoRequest
    BY DEF Accept, IInv, Types, RequestsFit, Fits
  <1>2. /\ pc'[k] = step /\ req'[k] = r /\ \A l \in Clients \ {k} : Stays(l)
        /\ r # NoRequest /\ r.class \in Classes
    BY Assumptions DEF Accept, Stays, IInv, Types, TypeOK, Requests
  <1>3. begun' \in 0 .. MaxRequests
    BY SchedulingAssumption DEF Accept, IInv, Types, TypeOK
  <1>. QED  BY <1>1, <1>2, <1>3 DEF Accept, Opens, Mine

LEMMA OpensTypes ==
  ASSUME IInv, NEW k \in Clients, NEW x, NEW r,
         NEW step \in {"zooming", "patching", "writing"}, Opens(k, x, r, step),
         named' \subseteq Classes, named \subseteq named', x \in named',
         overlapped' \subseteq Classes, \A y \in Classes \ {x} : /\ y \in named' <=> y \in named
                                                                 /\ y \in overlapped' <=> y \in overlapped,
         Fits(k)'
  PROVE  Touches(k, x) /\ DueIsOwed' /\ Types'
  <1>1. Touches(k, x)
    BY DEF Touches, Same, Opens, Mine
  <1>2. DueIsOwed'
    BY <1>1, OwesTheSame DEF Opens, Owes, Owing, At, IInv
  <1>3. TypeOK'
    <2>1. pc' \in [Clients -> {"idle", "zooming", "inserting", "patching", "writing",
                               "deleting", "charging", "cleaning"}]
      BY DEF Opens, IInv, Types, TypeOK
    <2>2. req' \in [Clients -> Requests \cup {NoRequest}]
      BY DEF Opens, IInv, Types, TypeOK
    <2>. QED  BY <2>1, <2>2 DEF Opens, IInv, Types, TypeOK
  <1>4. RequestsFit'
    BY OthersFit DEF RequestsFit, Opens
  <1>. QED  BY <1>1, <1>2, <1>3, <1>4 DEF Types

LEMMA CreatePreserves ==
  ASSUME IInv, NEW k \in Clients, NEW x \in Classes, NEW t \in Teachers, NEW s \in Starts,
         Create(k, x, t, s)
  PROVE  IInv'
  <1>1. PICK w : w = [status |-> "UPCOMING", teacher |-> t, start |-> s,
                      cost |-> ClassCost, linked |-> TRUE]
    OBVIOUS
  <1>2. PICK r : r = [op |-> "create", class |-> x, old |-> NoRow, new |-> w]
    OBVIOUS
  <1>3. w \in Rows /\ w.linked /\ w.status = "UPCOMING"
    BY <1>1, SchedulingAssumption DEF Rows
  <1>4. r \in Requests /\ r.class = x /\ r.op = "create" /\ r.new = w /\ r.old = NoRow
    BY <1>2, <1>3 DEF Requests
  <1>5. /\ Opens(k, x, r, "zooming") /\ x \notin named /\ named' = named \cup {x}
        /\ overlapped' = overlapped
    BY <1>1, <1>2, <1>4, AcceptOpens DEF Create
  <1>6. Fits(k)'
    BY <1>3, <1>4, <1>5 DEF Fits, Opens
  <1>7. Touches(k, x) /\ DueIsOwed' /\ Types'
    BY <1>5, <1>6, OpensTypes DEF IInv, Types, TypeOK
  <1>8. /\ row[x] = NoRow /\ charged[x] = 0 /\ due[x] = 0 /\ \A l \in Clients : ~ Mine(l, x)
    <2>1. row[x] = NoRow /\ charged[x] = 0 /\ due[x] = 0
      BY <1>5, HereHolds DEF Unborn
    <2>2. \A l \in Clients : pc[l] # "idle" => req[l].class \in named
      BY DEF IInv, Types, RequestsFit, Fits
    <2>3. \A l \in Clients : req[l] # NoRequest => pc[l] # "idle"
      BY DEF IInv, Types, RequestsFit, Fits
    <2>. QED  BY <1>5, <2>1, <2>2, <2>3 DEF Mine
  <1>9. /\ row'[x] = NoRow /\ charged'[x] = 0 /\ due'[x] = 0 /\ x \in named'
        /\ \A l \in Clients \ {k} : ~ Mine(l, x)'
        /\ \A l \in Clients : ~ Updating(l, x)'
        /\ pc'[k] = "zooming" /\ req'[k].op = "create"
    <2>1. \A l \in Clients \ {k} : ~ Mine(l, x)'
      BY <1>7, <1>8, OthersStay
    <2>2. pc'[k] = "zooming" /\ req'[k].op = "create"
      BY <1>4, <1>5 DEF Opens
    <2>3. \A l \in Clients : Updating(l, x)' => Mine(l, x)' /\ pc'[l] # "zooming"
      BY <1>7 DEF Updating, Mine, Types, RequestsFit, Fits
    <2>. QED  BY <1>5, <1>8, <2>1, <2>2, <2>3 DEF Opens
  <1>10. Unborn(x)'
    BY <1>9 DEF Unborn
  <1>11. Cut(x)'
    <2>1. ~ Linked(x)' /\ ~ Linked(x) /\ Released(x)
      BY <1>8, <1>9 DEF Linked, Released, Mine
    <2>2. \A l \in Clients : Mine(l, x)' => pc'[l] # "deleting" /\ req'[l].op = "create"
      BY <1>9
    <2>. QED  BY <1>5, <2>1, <2>2, HereHolds DEF Cut, Opens
  <1>12. Covers(x)' /\ Serial(x)'
    BY <1>9 DEF Covers, Serial, OneUpdate, ReadsTheCost, ExactCost, ReachesZoom, Linked
  <1>. QED  BY <1>7, <1>10, <1>11, <1>12, Elsewhere DEF IInv, Types

(* Update, Cancel, EndClass and Remove begin with the row they have read.    *)
LEMMA ReadsRow ==
  ASSUME IInv, NEW k \in Clients, NEW x, NEW r, NEW step \in {"patching", "writing"},
         Opens(k, x, r, step), row[x] # NoRow, r.op # "create", r.old = row[x], named' = named,
         overlapped' = overlapped \/ overlapped' = overlapped \cup {x}, Fits(k)'
  PROVE  /\ Touches(k, x) /\ DueIsOwed' /\ Types'
         /\ Unborn(x)' /\ Cut(x)' /\ (Undoing(x)' <=> Undoing(x))
  <1>1. x \in Classes /\ x \in named
    <2>1. x \in Classes
      BY DEF Opens
    <2>. QED  BY <2>1, HereHolds DEF Unborn
  <1>2. Touches(k, x) /\ DueIsOwed' /\ Types'
    BY <1>1, OpensTypes DEF IInv, Types, TypeOK
  <1>3. /\ row' = row /\ zoom' = zoom /\ charged' = charged /\ due' = due /\ faulted' = faulted
        /\ pc'[k] = step /\ req'[k] = r /\ ~ Mine(k, x)
    BY DEF Opens
  <1>4. Unborn(x)'
    BY <1>1, <1>2, <1>3, HereHolds, OthersStay DEF Unborn
  <1>5. Linked(x)' <=> Linked(x)
    BY <1>3 DEF Linked
  <1>6. \A l \in Clients : \A c \in {"inserting", "deleting", "cleaning"} :
          Mine(l, x)' /\ pc'[l] = c <=> Mine(l, x) /\ pc[l] = c
    BY <1>2, <1>3, OthersStay
  <1>7. Released(x)' <=> Released(x)
    BY <1>6 DEF Released, Mine
  <1>8. Undoing(x)' <=> Undoing(x)
    BY <1>6 DEF Undoing
  <1>9. Cut(x)'
    <2>1. ASSUME NEW l \in Clients, Mine(l, x)', req'[l].op # "create", Linked(x)
          PROVE  req'[l].old.linked
      <3>1. CASE l = k
        BY <1>3, <2>1, <3>1 DEF Linked
      <3>2. CASE l # k
        BY <1>1, <1>2, <2>1, <3>2, OthersStay, HereHolds DEF Cut
      <3>. QED  BY <3>1, <3>2
    <2>. QED  BY <1>1, <1>3, <1>5, <1>6, <1>7, <2>1, HereHolds DEF Cut
  <1>. QED  BY <1>2, <1>4, <1>8, <1>9

LEMMA UpdatePreserves ==
  ASSUME IInv, NEW k \in Clients, NEW x \in Classes, NEW new \in Rows, Update(k, x, new)
  PROVE  IInv'
  <1>1. row[x] \in Rows /\ row[x] # NoRow
    BY HereHolds DEF Update
  <1>2. PICK r : r = [op |-> "update", class |-> x, old |-> row[x], new |-> new]
    OBVIOUS
  <1>3. r \in Requests /\ r.class = x /\ r.op = "update" /\ r.old = row[x] /\ r.new = new
    BY <1>1, <1>2 DEF Requests
  <1>4. PICK step \in {"patching", "writing"} :
          Opens(k, x, r, step) /\ (step = "patching" <=> row[x].linked)
    BY <1>2, <1>3, AcceptOpens DEF Update
  <1>5. /\ named' = named
        /\ overlapped' = (IF \E l \in Clients : Updating(l, x) THEN overlapped \cup {x}
                                                               ELSE overlapped)
    BY DEF Update
  <1>6. row[x].linked => new.status # "CANCELLED"
    BY <1>1, HereHolds DEF Update, Cut, Linked
  <1>7. Fits(k)'
    <2>1. x \in named'
      BY <1>1, <1>5, HereHolds DEF Unborn
    <2>. QED  BY <1>1, <1>3, <1>4, <1>6, <2>1 DEF Fits, Opens
  <1>8. /\ Touches(k, x) /\ DueIsOwed' /\ Types'
        /\ Unborn(x)' /\ Cut(x)' /\ (Undoing(x)' <=> Undoing(x))
    BY <1>1, <1>3, <1>4, <1>5, <1>7, ReadsRow
  <1>9. /\ row' = row /\ zoom' = zoom /\ charged' = charged /\ due' = due /\ faulted' = faulted
        /\ refused' = refused /\ lowered' = lowered
        /\ pc'[k] = step /\ req'[k].old = row[x] /\ ~ Mine(k, x) /\ ~ Updating(k, x)
    BY <1>3, <1>4 DEF Opens, Updating
  <1>10. \A l \in Clients \ {k} : Updating(l, x)' => Updating(l, x)
    BY <1>8, OthersStay
  <1>11. Covers(x)'
    BY <1>8, <1>9, OthersStay, HereHolds DEF Covers
  <1>12. Serial(x)'
    <2>. SUFFICES ASSUME x \notin overlapped'
                  PROVE  OneUpdate(x)' /\ ReadsTheCost(x)' /\ ExactCost(x)' /\ ReachesZoom(x)'
      BY DEF Serial
    <2>1. x \notin overlapped /\ \A l \in Clients : ~ Updating(l, x)
      BY <1>5
    <2>2. ExactCost(x) /\ ReachesZoom(x)
      BY <2>1, HereHolds DEF Serial
    <2>3. \A l \in Clients : Updating(l, x)' => l = k
      BY <1>10, <2>1
    <2>4. OneUpdate(x)' /\ ReadsTheCost(x)' /\ ExactCost(x)'
      BY <1>8, <1>9, <2>2, <2>3 DEF OneUpdate, ReadsTheCost, ExactCost
    <2>5. ReachesZoom(x)'
      <3>1. Updating(k, x)'
        BY <1>3, <1>4 DEF Updating, Opens
      <3>2. Linked(x)' => step = "patching"
        BY <1>4, <1>9 DEF Linked
      <3>3. x \notin faulted /\ Linked(x)' => zoom[x] = row[x].start
        BY <1>9, <2>1, <2>2 DEF ReachesZoom, Linked
      <3>. QED  BY <1>9, <2>3, <3>1, <3>2, <3>3 DEF ReachesZoom
    <2>. QED  BY <2>4, <2>5
  <1>. QED  BY <1>8, <1>11, <1>12, Elsewhere DEF IInv, Types

(* A close or a removal that begins.                                        *)
LEMMA BeginsClear ==
  ASSUME IInv, NEW k \in Clients, NEW x, NEW r \in Requests, r.op \in {"close", "remove"},
         r.class = x, Accept(k, r, "writing"), row[x] \in Rows, r.old = row[x],
         r.op = "close" => r.new \in Rows,
         named' = named, overlapped' = overlapped
  PROVE  IInv'
  <1>1. Opens(k, x, r, "writing") /\ row[x] # NoRow
    BY AcceptOpens, Assumptions
  <1>2. x \in Classes /\ x \in named'
    <2>1. x \in Classes
      BY <1>1 DEF Opens
    <2>. QED  BY <1>1, <2>1, HereHolds DEF Unborn
  <1>3. Fits(k)'
    BY <1>1, <1>2 DEF Fits, Opens
  <1>4. /\ Touches(k, x) /\ DueIsOwed' /\ Types'
        /\ Unborn(x)' /\ Cut(x)' /\ (Undoing(x)' <=> Undoing(x))
    BY <1>1, <1>3, ReadsRow
  <1>5. /\ row' = row /\ zoom' = zoom /\ charged' = charged /\ due' = due /\ faulted' = faulted
        /\ refused' = refused /\ lowered' = lowered
        /\ pc[k] = "idle" /\ req'[k] = r
    BY <1>1 DEF Opens
  <1>6. \A l \in Clients : /\ Updating(l, x)' <=> Updating(l, x)
                           /\ Updating(l, x) => l # k /\ pc'[l] = pc[l] /\ req'[l] = req[l]
    BY <1>4, <1>5, OthersStay DEF Updating
  <1>7. Covers(x)'
    <2>1. \A l \in Clients : Updating(l, x) => Mine(l, x)
      BY UpdatingIsMine DEF IInv, Types
    <2>. QED  BY <1>2, <1>4, <1>5, <1>6, <2>1, HereHolds DEF Covers
  <1>8. Serial(x)'
    <2>1. x \notin overlapped => OneUpdate(x)' /\ ReadsTheCost(x)' /\ ExactCost(x)'
      BY <1>2, <1>4, <1>5, <1>6, HereHolds DEF Serial, OneUpdate, ReadsTheCost, ExactCost
    <2>2. x \notin overlapped => ReachesZoom(x)'
      BY <1>2, <1>5, <1>6, HereHolds DEF Serial, ReachesZoom, Linked
    <2>. QED  BY <2>1, <2>2 DEF Serial
  <1>. QED  BY <1>2, <1>4, <1>7, <1>8, Elsewhere DEF IInv, Types

LEMMA ClosePreserves ==
  ASSUME IInv, NEW k \in Clients, NEW x \in Classes, NEW status \in {"ENDED", "CANCELLED"},
         Close(k, x, status)
  PROVE  IInv'
  <1>1. row[x] \in Rows /\ status \in Statuses
    BY HereHolds, SchedulingAssumption DEF Close
  <1>2. PICK w : w = [row[x] EXCEPT !.status = status, !.linked = FALSE]
    OBVIOUS
  <1>3. w \in Rows
    BY <1>1, <1>2 DEF Rows
  <1>4. PICK r : r = [op |-> "close", class |-> x, old |-> row[x], new |-> w]
    OBVIOUS
  <1>5. r \in Requests /\ r.class = x /\ r.op = "close" /\ r.old = row[x] /\ r.new = w
    BY <1>1, <1>3, <1>4 DEF Requests
  <1>6. Accept(k, r, "writing") /\ named' = named /\ overlapped' = overlapped
    BY <1>2, <1>4 DEF Close
  <1>. QED  BY <1>1, <1>3, <1>5, <1>6, BeginsClear

LEMMA RemovePreserves ==
  ASSUME IInv, NEW k \in Clients, NEW x \in Classes, Remove(k, x)  PROVE IInv'
  <1>1. row[x] \in Rows
    BY HereHolds DEF Remove
  <1>2. PICK r : r = [op |-> "remove", class |-> x, old |-> row[x], new |-> NoRow]
    OBVIOUS
  <1>3. r \in Requests /\ r.class = x /\ r.op = "remove" /\ r.old = row[x]
    BY <1>1, <1>2 DEF Requests
  <1>4. Accept(k, r, "writing") /\ named' = named /\ overlapped' = overlapped
    BY <1>2 DEF Remove
  <1>. QED  BY <1>1, <1>3, <1>4, BeginsClear

LEMMA BeginPreserves ==
  ASSUME IInv, NEW k \in Clients, Begin(k)  PROVE IInv'
  <1>1. PICK x \in Classes :
          \/ \E s \in Starts : \/ \E t \in Teachers : Create(k, x, t, s)
                               \/ \E y \in Classes : RecreateClass(k, x, y, s)
          \/ \E new \in Rows : Update(k, x, new)
          \/ Cancel(k, x) \/ EndClass(k, x) \/ Remove(k, x)
    BY DEF Begin
  <1>2. ASSUME NEW s \in Starts, NEW y \in Classes, RecreateClass(k, x, y, s)  PROVE IInv'
    <2>1. row[y].teacher \in Teachers
      BY <1>2, HereHolds, Assumptions DEF RecreateClass
    <2>. QED  BY <1>2, <2>1, CreatePreserves DEF RecreateClass
  <1>3. Cancel(k, x) \/ EndClass(k, x) => IInv'
    BY ClosePreserves DEF Cancel, EndClass
  <1>. QED  BY <1>1, <1>2, <1>3, CreatePreserves, UpdatePreserves, RemovePreserves

-----------------------------------------------------------------------------
LEMMA InitIInv == Init => IInv
  <1>. SUFFICES ASSUME Init  PROVE IInv
    OBVIOUS
  <1>1. \A k \in Clients : pc[k] = "idle" /\ req[k] = NoRequest
    BY DEF Init
  <1>2. \A k \in Clients : \A x : ~ Mine(k, x) /\ ~ Updating(k, x)
    BY <1>1 DEF Mine, Updating
  <1>3. TypeOK
    <2>1. balance \in [Teachers -> Nat]
      BY SchedulingAssumption DEF Init
    <2>2. begun \in 0 .. MaxRequests
      BY SchedulingAssumption DEF Init
    <2>. QED  BY <2>1, <2>2 DEF Init, TypeOK
  <1>4. RequestsFit
    BY <1>1 DEF RequestsFit, Fits
  <1>5. DueIsOwed
    <2>1. ASSUME NEW x \in Classes  PROVE Owed(x) = {}
      BY <1>2 DEF Owed, Owes
    <2>. QED  BY <2>1, FS_EmptySet DEF DueIsOwed, Init
  <1>6. ASSUME NEW x \in Classes  PROVE Unborn(x) /\ Cut(x) /\ Covers(x) /\ Serial(x)
    <2>1. row[x] = NoRow /\ zoom[x] = NoMeeting /\ charged[x] = 0 /\ due[x] = 0
      BY DEF Init
    <2>. QED  BY <1>2, <2>1 DEF Unborn, Cut, Covers, Serial, OneUpdate, ReadsTheCost, ExactCost,
                                ReachesZoom, Linked
  <1>. QED  BY <1>3, <1>4, <1>5, <1>6 DEF IInv, Types, BirthInOrder, MeetingsInOrder,
                                          CostsInOrder, UpdatesInTurn

LEMMA StutterPreserves == IInv /\ UNCHANGED vars => IInv'
  <1>. SUFFICES ASSUME IInv, UNCHANGED vars  PROVE IInv'
    OBVIOUS
  <1>1. /\ row' = row /\ zoom' = zoom /\ named' = named /\ balance' = balance
        /\ charged' = charged /\ pc' = pc /\ req' = req /\ begun' = begun /\ due' = due
        /\ refused' = refused /\ faulted' = faulted /\ overlapped' = overlapped
        /\ lowered' = lowered
    BY DEF vars, history
  <1>2. Types'
    BY <1>1 DEF IInv, Types, TypeOK, RequestsFit, Fits
  <1>3. \A k \in Clients : Share(k)' = Share(k) /\ \A x : (Owes(k, x)' <=> Owes(k, x))
    BY <1>1 DEF Share, Owes, Owing, At, Mine
  <1>4. ASSUME NEW x \in Classes  PROVE Owed(x)' = Owed(x)
    BY <1>3 DEF Owed
  <1>5. DueIsOwed'
    BY <1>1, <1>4 DEF DueIsOwed, IInv
  <1>6. ASSUME NEW x \in Classes  PROVE Unborn(x)' /\ Cut(x)' /\ Covers(x)' /\ Serial(x)'
    <2>1. Unborn(x) /\ Cut(x) /\ Covers(x) /\ Serial(x)
      BY HereHolds
    <2>2. \A k \in Clients : /\ Mine(k, x)' <=> Mine(k, x)
                             /\ Updating(k, x)' <=> Updating(k, x)
      BY <1>1 DEF Mine, Updating
    <2>3. /\ Linked(x)' <=> Linked(x)
          /\ Undoing(x)' <=> Undoing(x)
          /\ Released(x)' <=> Released(x)
      BY <1>1, <2>2 DEF Linked, Undoing, Released
    <2>. QED  BY <1>1, <2>1, <2>2, <2>3 DEF Unborn, Cut, Covers, Serial, OneUpdate, ReadsTheCost,
                                            ExactCost, ReachesZoom
  <1>. QED  BY <1>2, <1>5, <1>6 DEF IInv, BirthInOrder, MeetingsInOrder, CostsInOrder, UpdatesInTurn

LEMMA NextPreserves == IInv /\ [Next]_vars => IInv'
  <1>. SUFFICES ASSUME IInv, [Next]_vars  PROVE IInv'
    OBVIOUS
  <1>1. ASSUME NEW k \in Clients, Proceed(k)  PROVE IInv'
    <2>1. WriteRow(k) => IInv'
      <3>1. WriteRow(k) => req[k].op \in {"update", "close", "remove"}
        BY RequestFields DEF WriteRow, At, IInv, Types, RequestsFit, Fits
      <3>. QED  BY <3>1, WritesClear, WritesUpdate
    <2>. QED  BY <1>1, <2>1, CreateMeetingPreserves, InsertRowPreserves, PatchMeetingPreserves,
                 NotFoundPreserves, DeleteMeetingPreserves, ChargePreserves, RefusePreserves,
                 CleanupPreserves DEF Proceed
  <1>2. ASSUME NEW k \in Clients, Fail(k)  PROVE IInv'
    BY <1>2, AbortPreserves, AnswerLostPreserves, SwallowPreserves, ChargeErrorPreserves DEF Fail
  <1>. QED  BY <1>1, <1>2, BeginPreserves, StutterPreserves DEF Next

-----------------------------------------------------------------------------
(* The inductive invariant, for any number of requests on any number of      *)
(* classes: what each request has read, and what it may still write.        *)
THEOREM Invariance == Spec => []IInv
  BY InitIInv, NextPreserves, PTL DEF Spec

(* TypeOK: the tables hold what they should; no debit that consumeCredits-   *)
(* ForClass makes brings a balance, or what is owed for a class, below zero. *)
THEOREM Typed == Spec => []TypeOK
  <1>1. IInv => TypeOK
    BY DEF IInv, Types
  <1>. QED  BY <1>1, Invariance, PTL

(* MeetingsMatchRows: however create, update, cancel, endClass and remove    *)
(* interleave on a class, only an error parts its row from its meeting.     *)
THEOREM MeetingsFollow == Spec => []MeetingsMatchRows
  <1>1. IInv => MeetingsMatchRows
    <2>. SUFFICES ASSUME IInv  PROVE MeetingsMatchRows
      OBVIOUS
    <2>1. MeetingsAccountedFor /\ NoDanglingMeeting
      BY HereHolds DEF MeetingsAccountedFor, NoDanglingMeeting, Cut
    <2>2. ASSUME NEW k \in Clients, At(k, "deleting")  PROVE req[k].op # "update"
      BY <2>2 DEF At, IInv, Types, RequestsFit, Fits
    <2>3. CancelledHasNoMeeting
      BY <2>2, HereHolds DEF CancelledHasNoMeeting, Cut
    <2>. QED  BY <2>1, <2>3 DEF MeetingsMatchRows
  <1>. QED  BY <1>1, Invariance, PTL

(* CostIsCharged: the cost a class shows is charged or about to be, whatever *)
(* number of updates race for it.                                          *)
THEOREM CostsCovered == Spec => []CostIsCharged
  <1>1. IInv => CostIsCharged
    BY HereHolds DEF CostIsCharged, Covers, Undoing, Mine, At
  <1>. QED  BY <1>1, Invariance, PTL

(* SerialUpdatesAgree: where updates of a class do not overlap, it is charged *)
(* exactly its cost and Zoom has its time, whatever else happens to it.     *)
THEOREM SerialAgrees == Spec => []SerialUpdatesAgree
  <1>1. IInv => SerialUpdatesAgree
    <2>. SUFFICES ASSUME IInv  PROVE SerialUpdatesAgree
      OBVIOUS
    <2>1. SerialUpdatesChargeTheCost
      BY HereHolds DEF SerialUpdatesChargeTheCost, Serial, ExactCost, Undoing, Mine, At
    <2>2. SerialUpdatesReachZoom
      BY HereHolds DEF SerialUpdatesReachZoom, Serial, ReachesZoom
    <2>. QED  BY <2>1, <2>2 DEF SerialUpdatesAgree
  <1>. QED  BY <1>1, Invariance, PTL

-----------------------------------------------------------------------------
(* ClassLife.  What the refinement needs beyond IInv: no meeting is at Zoom  *)
(* for a class before the request that creates it asks for one.             *)
Unopened(x) ==
  /\ x \notin named => zoom[x] = NoMeeting
  /\ \A k \in Clients : Mine(k, x) /\ pc[k] = "zooming" => zoom[x] = NoMeeting
MeetingsAreNew == \A x \in Classes : Unopened(x)

(* The lives of the other classes go on as they were. *)
Only(x) ==
  \A y \in Classes \ {x} : /\ Life(y)' = Life(y)
                           /\ zoom'[y] = NoMeeting <=> zoom[y] = NoMeeting
                           /\ y \in faulted' <=> y \in faulted

LEMMA LifeIs ==
  ASSUME NEW x
  PROVE  /\ Linked(x) => Life(x) = "offered"
         /\ row[x] # NoRow /\ ~ Linked(x) => Life(x) = "withdrawn"
         /\ row[x] = NoRow /\ Making(x) => Life(x) = "making"
         /\ row[x] = NoRow /\ ~ Making(x) /\ x \in named => Life(x) = "over"
         /\ row[x] = NoRow /\ ~ Making(x) /\ x \notin named => Life(x) = "unborn"
         /\ Linked(x)' => Life(x)' = "offered"
         /\ row'[x] # NoRow /\ ~ Linked(x)' => Life(x)' = "withdrawn"
         /\ row'[x] = NoRow /\ Making(x)' => Life(x)' = "making"
         /\ row'[x] = NoRow /\ ~ Making(x)' /\ x \in named' => Life(x)' = "over"
  BY DEF Life, Linked

LEMMA LifeStays ==
  ASSUME NEW x, row'[x] = row[x], Making(x)' <=> Making(x), x \in named' <=> x \in named
  PROVE  Life(x)' = Life(x)
  BY DEF Life, Linked

(* The steps of a life, of the meeting and of the record of what broke. *)
LEMMA LifeMaps ==
  ASSUME NEW x \in Classes, Only(x), NEW to, Life(x)' = to
  PROVE  [y \in Classes |-> Life(y)]' = [[y \in Classes |-> Life(y)] EXCEPT ![x] = to]
  BY DEF Only

LEMMA LifeKept ==
  ASSUME NEW x \in Classes, Only(x), Life(x)' = Life(x)
  PROVE  [y \in Classes |-> Life(y)]' = [y \in Classes |-> Life(y)]
  BY DEF Only

LEMMA MeetingMaps ==
  ASSUME NEW x \in Classes, Only(x)
  PROVE  LET open == {y \in Classes : zoom[y] # NoMeeting} IN
         /\ (zoom'[x] = NoMeeting <=> zoom[x] = NoMeeting) => open' = open
         /\ zoom'[x] # NoMeeting => open' = open \cup {x}
         /\ zoom'[x] = NoMeeting => open' = open \ {x}
  BY DEF Only

LEMMA FaultMaps ==
  ASSUME NEW x \in Classes, Only(x), faulted \subseteq Classes, faulted' \subseteq Classes
  PROVE  /\ (x \in faulted' <=> x \in faulted) => faulted' = faulted
         /\ x \in faulted' => faulted' = faulted \cup {x}
  BY DEF Only

Still(x) == (zoom'[x] = NoMeeting <=> zoom[x] = NoMeeting) /\ (x \in faulted' <=> x \in faulted)

LEMMA LivesOnward ==
  ASSUME NEW x \in Classes, Only(x), faulted \subseteq Classes, faulted' \subseteq Classes,
         Still(x),
         \/ Life(x)' = Life(x)
         \/ Life(x) = "unborn" /\ Life(x)' = "making"
         \/ Life(x) = "making" /\ Life(x)' = "offered" /\ zoom[x] # NoMeeting
         \/ Life(x) = "offered" /\ Life(x)' = "withdrawn"
         \/ Life(x) \in {"offered", "withdrawn"} /\ Life(x)' = "over"
  PROVE  [OneLife!Next]_(OneLife!vars)
  <1>1. /\ {y \in Classes : zoom[y] # NoMeeting}' = {y \in Classes : zoom[y] # NoMeeting}
        /\ faulted' = faulted
    BY MeetingMaps, FaultMaps DEF Still
  <1>2. CASE Life(x)' = Life(x)
    BY <1>1, <1>2, LifeKept DEF OneLife!vars
  <1>3. CASE Life(x) = "unborn" /\ Life(x)' = "making"
    BY <1>1, <1>3, LifeMaps DEF OneLife!Next, OneLife!Begin, OneLife!Moves
  <1>4. CASE Life(x) = "making" /\ Life(x)' = "offered" /\ zoom[x] # NoMeeting
    BY <1>1, <1>4, LifeMaps DEF OneLife!Next, OneLife!Offer, OneLife!Moves
  <1>5. CASE Life(x) = "offered" /\ Life(x)' = "withdrawn"
    BY <1>1, <1>5, LifeMaps DEF OneLife!Next, OneLife!Withdraw, OneLife!Moves
  <1>6. CASE Life(x) \in {"offered", "withdrawn"} /\ Life(x)' = "over"
    BY <1>1, <1>6, LifeMaps DEF OneLife!Next, OneLife!End, OneLife!Moves
  <1>. QED  BY <1>2, <1>3, <1>4, <1>5, <1>6

LEMMA MeetingTurns ==
  ASSUME NEW x \in Classes, Only(x), faulted \subseteq Classes, faulted' \subseteq Classes,
         Life(x)' = Life(x), x \in faulted' <=> x \in faulted,
         \/ zoom[x] = NoMeeting /\ zoom'[x] # NoMeeting /\ Life(x) = "making"
         \/ /\ zoom[x] # NoMeeting /\ zoom'[x] = NoMeeting
            /\ \/ Life(x) \in {"withdrawn", "over"}
               \/ x \in faulted /\ Life(x) = "offered"
  PROVE  OneLife!Next
  <1>1. /\ [y \in Classes |-> Life(y)]' = [y \in Classes |-> Life(y)]
        /\ faulted' = faulted
    BY LifeKept, FaultMaps
  <1>2. CASE zoom[x] = NoMeeting /\ zoom'[x] # NoMeeting /\ Life(x) = "making"
    BY <1>1, <1>2, MeetingMaps DEF OneLife!Next, OneLife!Open
  <1>3. CASE /\ zoom[x] # NoMeeting /\ zoom'[x] = NoMeeting
             /\ \/ Life(x) \in {"withdrawn", "over"}
                \/ x \in faulted /\ Life(x) = "offered"
    BY <1>1, <1>3, MeetingMaps DEF OneLife!Next, OneLife!Close
  <1>. QED  BY <1>2, <1>3

LEMMA LifeBreaks ==
  ASSUME NEW x \in Classes, Only(x), faulted \subseteq Classes, faulted' \subseteq Classes,
         x \in faulted',
         \/ /\ Life(x) # "unborn" /\ Life(x)' = Life(x)
            /\ zoom'[x] = NoMeeting <=> zoom[x] = NoMeeting
         \/ /\ Life(x) = "making" /\ Life(x)' = "over"
            /\ zoom[x] # NoMeeting => zoom'[x] # NoMeeting
  PROVE  OneLife!Next
  <1>1. faulted' = faulted \cup {x}
    BY FaultMaps
  <1>2. CASE /\ Life(x) # "unborn" /\ Life(x)' = Life(x)
             /\ zoom'[x] = NoMeeting <=> zoom[x] = NoMeeting
    BY <1>1, <1>2, LifeKept, MeetingMaps DEF OneLife!Next, OneLife!Break
  <1>3. CASE /\ Life(x) = "making" /\ Life(x)' = "over"
             /\ zoom[x] # NoMeeting => zoom'[x] # NoMeeting
    <2>1. [y \in Classes |-> Life(y)]' = [[y \in Classes |-> Life(y)] EXCEPT ![x] = "over"]
      BY <1>3, LifeMaps
    <2>2. OneLife!Moves(x, {"making"}, "over")
      BY <1>3, <2>1 DEF OneLife!Moves
    <2>3. CASE zoom'[x] = NoMeeting <=> zoom[x] = NoMeeting
      BY <1>1, <2>2, <2>3, MeetingMaps DEF OneLife!Next, OneLife!BreakMaking
    <2>4. CASE zoom[x] = NoMeeting /\ zoom'[x] # NoMeeting
      BY <1>1, <2>2, <2>4, MeetingMaps DEF OneLife!Next, OneLife!BreakMaking
    <2>. QED  BY <1>3, <2>3, <2>4
  <1>. QED  BY <1>2, <1>3

-----------------------------------------------------------------------------
(* Who makes a class is alone with it. *)
LEMMA Maker ==
  ASSUME IInv, NEW k \in Clients, pc[k] # "idle", NEW x \in Classes, x = req[k].class
  PROVE  /\ x \in named /\ Mine(k, x)
         /\ pc[k] \in {"zooming", "inserting"} =>
              /\ Life(x) = "making" /\ row[x] = NoRow
              /\ \A l \in Clients \ {k} : ~ Mine(l, x)
         /\ pc[k] \notin {"zooming", "inserting"} =>
              /\ ~ Making(x) /\ Life(x) \notin {"making", "unborn"}
              /\ \A l \in Clients : Mine(l, x) => pc[l] \notin {"zooming", "inserting"}
  <1>1. /\ x \in named /\ Mine(k, x) /\ Unborn(x) /\ Fits(k)
        /\ req[k].op \in {"create", "update", "close", "remove"}
    BY RequestFields, HereHolds DEF IInv, Types, RequestsFit
  <1>2. ASSUME pc[k] \in {"zooming", "inserting"}
        PROVE  Life(x) = "making" /\ row[x] = NoRow /\ \A l \in Clients \ {k} : ~ Mine(l, x)
    <2>1. row[x] = NoRow /\ \A l \in Clients \ {k} : ~ Mine(l, x)
      BY <1>1, <1>2 DEF Unborn
    <2>2. req[k].op = "create"
      BY <1>1, <1>2 DEF Fits
    <2>3. Making(x)
      BY <1>2, <2>2 DEF Making
    <2>. QED  BY <2>1, <2>3, LifeIs
  <1>3. ASSUME pc[k] \notin {"zooming", "inserting"}
        PROVE  /\ ~ Making(x) /\ Life(x) \notin {"making", "unborn"}
               /\ \A l \in Clients : Mine(l, x) => pc[l] \notin {"zooming", "inserting"}
    <2>1. \A l \in Clients : Mine(l, x) => pc[l] \notin {"zooming", "inserting"}
      BY <1>1, <1>3 DEF Unborn
    <2>2. \A l \in Clients : pc[l] \in {"zooming", "inserting"} => req[l] # NoRequest
      BY DEF IInv, Types, RequestsFit, Fits
    <2>3. ~ Making(x)
      BY <2>1, <2>2 DEF Making, Mine
    <2>. QED  BY <1>1, <2>1, <2>3, LifeIs
  <1>. QED  BY <1>1, <1>2, <1>3

(* A request's step away from making its class, seen from the lives. *)
LEMMA MovesLives ==
  ASSUME IInv, NEW k \in Clients, NEW x \in Classes, NEW step, Moves(k, x, step),
         step # "zooming",
         \A y \in Classes \ {x} : /\ row'[y] = row[y] /\ zoom'[y] = zoom[y]
                                  /\ y \in faulted' <=> y \in faulted
  PROVE  /\ Only(x)
         /\ step # "inserting" => ~ Making(x)'
         /\ pc[k] \notin {"zooming", "inserting"} /\ step # "inserting" /\ row'[x] = row[x]
              => Life(x)' = Life(x)
  <1>1. /\ x = req[k].class /\ pc[k] # "idle" /\ pc'[k] = step /\ named' = named
        /\ req'[k] = (IF step = "idle" THEN NoRequest ELSE req[k])
        /\ \A l \in Clients \ {k} : pc'[l] = pc[l] /\ req'[l] = req[l]
    BY DEF Moves, Mine, Stays
  <1>2. ASSUME NEW y \in Classes \ {x}  PROVE Making(y)' <=> Making(y)
    BY <1>1 DEF Making
  <1>3. Only(x)
    BY <1>1, <1>2, LifeStays DEF Only
  <1>4. ASSUME step # "inserting"  PROVE ~ Making(x)'
    <2>1. \A l \in Clients \ {k} : Mine(l, x) => pc[l] \notin {"zooming", "inserting"}
      BY <1>1, Maker
    <2>2. \A l \in Clients : pc[l] \in {"zooming", "inserting"} => req[l] # NoRequest
      BY DEF IInv, Types, RequestsFit, Fits
    <2>. QED  BY <1>1, <1>4, <2>1, <2>2 DEF Making, Mine
  <1>5. ASSUME pc[k] \notin {"zooming", "inserting"}, step # "inserting", row'[x] = row[x]
        PROVE  Life(x)' = Life(x)
    BY <1>1, <1>4, <1>5, Maker, LifeStays
  <1>. QED  BY <1>3, <1>4, <1>5

LEMMA MovesNew ==
  ASSUME IInv, MeetingsAreNew, NEW k \in Clients, NEW x \in Classes, NEW step,
         Moves(k, x, step), step # "zooming",
         \A y \in Classes \ {x} : zoom'[y] = zoom[y]
  PROVE  MeetingsAreNew'
  <1>1. /\ x = req[k].class /\ pc[k] # "idle" /\ pc'[k] = step /\ named' = named /\ x \in named
        /\ req'[k] \in {NoRequest, req[k]}
        /\ \A l \in Clients \ {k} : pc'[l] = pc[l] /\ req'[l] = req[l]
    BY DEF Moves, Mine, Stays
  <1>2. ASSUME NEW l \in Clients, Mine(l, x)', pc'[l] = "zooming"  PROVE FALSE
    <2>1. l # k /\ Mine(l, x) /\ pc[l] = "zooming"
      BY <1>1, <1>2 DEF Mine
    <2>. QED  BY <1>1, <2>1, Maker
  <1>3. ASSUME NEW y \in Classes \ {x}  PROVE Unopened(y)'
    <2>1. Unopened(y) /\ zoom'[y] = zoom[y]
      BY DEF MeetingsAreNew
    <2>2. ASSUME NEW l \in Clients, Mine(l, y)'  PROVE Mine(l, y) /\ pc'[l] = pc[l]
      BY <1>1, <2>2 DEF Mine
    <2>. QED  BY <1>1, <2>1, <2>2 DEF Unopened
  <1>4. Unopened(x)'
    BY <1>1, <1>2 DEF Unopened
  <1>. QED  BY <1>3, <1>4 DEF MeetingsAreNew

-----------------------------------------------------------------------------
Lives == [OneLife!Next]_(OneLife!vars) /\ MeetingsAreNew'

LEMMA FaultsAreClasses == IInv => faulted \subseteq Classes
  BY DEF IInv, Types, TypeOK

(* The steps at Zoom. *)
LEMMA CreateMeetingLives ==
  ASSUME IInv, IInv', MeetingsAreNew, NEW k \in Clients, CreateMeeting(k)  PROVE Lives
  <1>1. PICK x \in Classes : x = req[k].class
    BY RequestFields DEF CreateMeeting, At, IInv
  <1>2. pc[k] = "zooming" /\ req[k].op = "create" /\ req[k].new.start \in Starts
    BY RequestFields, Assumptions DEF CreateMeeting, At, IInv, Types, RequestsFit, Fits
  <1>3. /\ Moves(k, x, "inserting")
        /\ zoom' = [zoom EXCEPT ![x] = req[k].new.start] /\ row' = row /\ faulted' = faulted
    BY <1>1, <1>2, GotoMoves DEF CreateMeeting, history
  <1>4. zoom'[x] = req[k].new.start /\ zoom'[x] # NoMeeting /\ \A y \in Classes \ {x} : zoom'[y] = zoom[y]
    BY <1>2, <1>3, Assumptions DEF IInv, Types, TypeOK
  <1>5. Only(x) /\ MeetingsAreNew'
    BY <1>3, <1>4, MovesLives, MovesNew
  <1>6. Life(x) = "making" /\ row[x] = NoRow /\ Mine(k, x)
    BY <1>1, <1>2, Maker
  <1>7. Making(x)'
    BY <1>1, <1>2, <1>3 DEF Making, Moves
  <1>8. Life(x)' = "making"
    BY <1>3, <1>6, <1>7, LifeIs
  <1>9. zoom[x] = NoMeeting
    BY <1>2, <1>6 DEF MeetingsAreNew, Unopened
  <1>10. OneLife!Next
    BY <1>3, <1>4, <1>5, <1>6, <1>8, <1>9, MeetingTurns, FaultsAreClasses
  <1>. QED  BY <1>5, <1>10 DEF Lives

LEMMA PatchMeetingLives ==
  ASSUME IInv, IInv', MeetingsAreNew, NEW k \in Clients, PatchMeeting(k)  PROVE Lives
  <1>1. PICK x \in Classes : x = req[k].class
    BY RequestFields DEF PatchMeeting, At, IInv
  <1>2. /\ pc[k] = "patching" /\ zoom[x] # NoMeeting
        /\ req[k].op = "update" /\ req[k].new \in Rows
    BY <1>1, RequestFields DEF PatchMeeting, At, IInv, Types, RequestsFit, Fits
  <1>3. /\ Moves(k, x, "writing")
        /\ zoom' = [zoom EXCEPT ![x] = req[k].new.start] /\ row' = row /\ faulted' = faulted
    BY <1>1, <1>2, GotoMoves DEF PatchMeeting, history
  <1>4. zoom'[x] # NoMeeting /\ \A y \in Classes \ {x} : zoom'[y] = zoom[y]
    BY <1>2, <1>3, Assumptions DEF IInv, Types, TypeOK
  <1>5. Only(x) /\ MeetingsAreNew' /\ Life(x)' = Life(x)
    BY <1>2, <1>3, <1>4, MovesLives, MovesNew
  <1>. QED  BY <1>2, <1>3, <1>4, <1>5, LivesOnward, FaultsAreClasses DEF Lives, Still

LEMMA DeleteMeetingLives ==
  ASSUME IInv, IInv', MeetingsAreNew, NEW k \in Clients, DeleteMeeting(k)  PROVE Lives
  <1>1. PICK x \in Classes : x = req[k].class
    BY RequestFields DEF DeleteMeeting, At, IInv
  <1>2. PICK step \in {"idle", "charging"} : Goto(k, step)
    BY DEF DeleteMeeting, AfterDelete, OrIdle
  <1>3. /\ pc[k] = "deleting" /\ Moves(k, x, step)
        /\ zoom' = [zoom EXCEPT ![x] = NoMeeting] /\ row' = row /\ faulted' = faulted
    BY <1>1, <1>2, GotoMoves DEF DeleteMeeting, At, history
  <1>4. zoom'[x] = NoMeeting /\ \A y \in Classes \ {x} : zoom'[y] = zoom[y]
    BY <1>3 DEF IInv, Types, TypeOK
  <1>5. Only(x) /\ MeetingsAreNew' /\ Life(x)' = Life(x)
    BY <1>3, <1>4, MovesLives, MovesNew
  <1>6. Life(x) \notin {"making", "unborn"} /\ Mine(k, x)
    BY <1>1, <1>3, Maker
  <1>7. x \in faulted \/ ~ Linked(x)
    BY <1>3, <1>6, HereHolds DEF Cut
  <1>8. Life(x) \in {"withdrawn", "over"} \/ (x \in faulted /\ Life(x) = "offered")
    BY <1>6, <1>7, LifeIs DEF Life, Linked
  <1>9. CASE zoom[x] = NoMeeting
    BY <1>3, <1>4, <1>5, <1>9, LivesOnward, FaultsAreClasses DEF Lives, Still
  <1>10. CASE zoom[x] # NoMeeting
    BY <1>3, <1>4, <1>5, <1>8, <1>10, MeetingTurns, FaultsAreClasses DEF Lives
  <1>. QED  BY <1>9, <1>10

(* The steps on the row. *)
LEMMA InsertRowLives ==
  ASSUME IInv, IInv', MeetingsAreNew, NEW k \in Clients, InsertRow(k)  PROVE Lives
  <1>1. PICK x \in Classes : x = req[k].class
    BY RequestFields DEF InsertRow, At, IInv
  <1>2. /\ pc[k] = "inserting" /\ req[k].new \in Rows /\ req[k].new.linked
        /\ req[k].new.start \in Starts
    BY RequestFields, Assumptions DEF InsertRow, At, IInv, Types, RequestsFit, Fits
  <1>3. PICK step \in {"idle", "charging"} : Goto(k, step)
    BY DEF InsertRow, OrIdle
  <1>4. /\ Moves(k, x, step) /\ row' = [row EXCEPT ![x] = req[k].new]
        /\ zoom' = zoom /\ faulted' = faulted
    BY <1>1, <1>2, <1>3, GotoMoves DEF InsertRow
  <1>5. row'[x] = req[k].new /\ \A y \in Classes \ {x} : row'[y] = row[y]
    BY <1>4 DEF IInv, Types, TypeOK
  <1>6. Only(x) /\ MeetingsAreNew'
    BY <1>4, <1>5, MovesLives, MovesNew
  <1>7. Life(x) = "making" /\ Mine(k, x)
    BY <1>1, <1>2, Maker
  <1>8. Life(x)' = "offered"
    <2>1. Linked(x)'
      BY <1>2, <1>5, Assumptions DEF Linked
    <2>. QED  BY <2>1, LifeIs
  <1>9. zoom[x] # NoMeeting
    BY <1>2, <1>7, HereHolds, Assumptions DEF Unborn
  <1>. QED  BY <1>4, <1>6, <1>7, <1>8, <1>9, LivesOnward, FaultsAreClasses DEF Lives, Still

LEMMA WriteRowLives ==
  ASSUME IInv, IInv', MeetingsAreNew, NEW k \in Clients, WriteRow(k)  PROVE Lives
  <1>1. PICK x \in Classes : x = req[k].class
    BY RequestFields DEF WriteRow, At, IInv
  <1>2. /\ pc[k] = "writing" /\ row[x] \in Rows
        /\ req[k].op \in {"update", "close", "remove"}
        /\ req[k].op \in {"update", "close"} => req[k].new \in Rows
    <2>1. pc[k] = "writing" /\ row[x] # NoRow
      BY <1>1 DEF WriteRow, At
    <2>2. Types /\ Fits(k) /\ row \in [Classes -> Rows \cup {NoRow}]
      BY DEF IInv, Types, TypeOK, RequestsFit
    <2>3. req[k].op \in {"create", "update", "close", "remove"}
      BY <2>1, <2>2, RequestFields
    <2>. QED  BY <2>1, <2>2, <2>3 DEF Fits
  <1>3. PICK step \in {"idle", "charging", "deleting"} : Goto(k, step)
    BY DEF WriteRow, AfterDelete, OrIdle
  <1>4. /\ Moves(k, x, step) /\ row' = [row EXCEPT ![x] = Written(req[k])]
        /\ zoom' = zoom /\ faulted' = faulted
    BY <1>1, <1>2, <1>3, GotoMoves DEF WriteRow
  <1>5. row'[x] = Written(req[k]) /\ \A y \in Classes \ {x} : row'[y] = row[y]
    BY <1>4 DEF IInv, Types, TypeOK
  <1>6. /\ Only(x) /\ MeetingsAreNew' /\ ~ Making(x)'
        /\ row'[x] = row[x] => Life(x)' = Life(x)
    BY <1>2, <1>4, <1>5, MovesLives, MovesNew
  <1>7. ~ Making(x) /\ x \in named /\ x \in named'
    BY <1>1, <1>2, <1>4, Maker DEF Moves
  <1>8. Life(x) = IF row[x].linked THEN "offered" ELSE "withdrawn"
    BY <1>2, LifeIs, Assumptions DEF Linked
  <1>9. CASE req[k].op = "update"
    <2>1. row'[x] = [req[k].new EXCEPT !.linked = row[x].linked]
      BY <1>1, <1>5, <1>9 DEF Written
    <2>2. row'[x] \in Rows /\ row'[x].linked = row[x].linked
      BY <1>2, <1>9, <2>1 DEF Rows
    <2>3. Life(x)' = IF row[x].linked THEN "offered" ELSE "withdrawn"
      BY <2>2, LifeIs, Assumptions DEF Linked
    <2>. QED  BY <1>4, <1>6, <1>8, <2>3, LivesOnward, FaultsAreClasses DEF Lives, Still
  <1>10. CASE req[k].op = "close"
    <2>1. row'[x] = [row[x] EXCEPT !.status = req[k].new.status, !.linked = FALSE]
      BY <1>1, <1>5, <1>10 DEF Written
    <2>2. row'[x] \in Rows /\ ~ row'[x].linked
      BY <1>2, <1>10, <2>1 DEF Rows
    <2>3. Life(x)' = "withdrawn"
      BY <2>2, LifeIs, Assumptions DEF Linked
    <2>. QED  BY <1>4, <1>6, <1>8, <2>3, LivesOnward, FaultsAreClasses DEF Lives, Still
  <1>11. CASE req[k].op = "remove"
    <2>1. row'[x] = NoRow
      BY <1>5, <1>11 DEF Written
    <2>2. Life(x)' = "over"
      BY <1>6, <1>7, <2>1, LifeIs
    <2>. QED  BY <1>4, <1>6, <1>8, <2>2, LivesOnward, FaultsAreClasses DEF Lives, Still
  <1>. QED  BY <1>2, <1>9, <1>10, <1>11

LEMMA CleanupLives ==
  ASSUME IInv, IInv', MeetingsAreNew, NEW k \in Clients, Cleanup(k)  PROVE Lives
  <1>1. PICK x \in Classes : x = req[k].class
    BY RequestFields DEF Cleanup, At, IInv
  <1>2. /\ pc[k] = "cleaning" /\ Moves(k, x, "deleting")
        /\ row' = [row EXCEPT ![x] = NoRow] /\ zoom' = zoom /\ faulted' = faulted
    BY <1>1, GotoMoves DEF Cleanup, At, history
  <1>3. row'[x] = NoRow /\ \A y \in Classes \ {x} : row'[y] = row[y]
    BY <1>2 DEF IInv, Types, TypeOK
  <1>4. Only(x) /\ MeetingsAreNew' /\ ~ Making(x)'
    BY <1>2, <1>3, MovesLives, MovesNew
  <1>5. ~ Making(x) /\ x \in named /\ x \in named'
    BY <1>1, <1>2, Maker DEF Moves
  <1>6. Life(x)' = "over"
    BY <1>3, <1>4, <1>5, LifeIs
  <1>7. Life(x) \in {"offered", "withdrawn", "over"}
    BY <1>5, LifeIs
  <1>. QED  BY <1>2, <1>4, <1>6, <1>7, LivesOnward, FaultsAreClasses DEF Lives, Still

(* The steps that touch neither the row nor Zoom. *)
LEMMA QuietLives ==
  ASSUME IInv, IInv', MeetingsAreNew, NEW k \in Clients,
         NotFound(k) \/ Charge(k) \/ Refuse(k)
  PROVE  Lives
  <1>1. pc[k] \in {"patching", "writing", "charging"}
    BY DEF NotFound, Charge, Refuse, At
  <1>2. PICK x \in Classes : x = req[k].class
    BY <1>1, RequestFields DEF IInv
  <1>3. PICK step \in {"idle", "cleaning"} : Goto(k, step)
    BY DEF NotFound, Charge, Refuse, OrIdle
  <1>4. Moves(k, x, step) /\ row' = row /\ zoom' = zoom /\ faulted' = faulted
    BY <1>1, <1>2, <1>3, GotoMoves DEF NotFound, Charge, Refuse, history
  <1>5. Only(x) /\ MeetingsAreNew' /\ Life(x)' = Life(x)
    BY <1>1, <1>4, MovesLives, MovesNew
  <1>. QED  BY <1>4, <1>5, LivesOnward, FaultsAreClasses DEF Lives, Still

(* The steps that break off. *)
LEMMA AbortLives ==
  ASSUME IInv, IInv', MeetingsAreNew, NEW k \in Clients, Abort(k)  PROVE Lives
  <1>1. PICK x \in Classes : x = req[k].class
    BY RequestFields DEF Abort, IInv
  <1>2. /\ pc[k] # "idle" /\ Moves(k, x, "idle") /\ row' = row /\ zoom' = zoom
        /\ faulted' = faulted \cup {x}
    BY <1>1, GotoMoves DEF Abort, Fault
  <1>3. Only(x) /\ MeetingsAreNew' /\ ~ Making(x)'
    BY <1>2, MovesLives, MovesNew
  <1>4. CASE pc[k] \in {"zooming", "inserting"}
    <2>1. Life(x) = "making" /\ row[x] = NoRow /\ x \in named'
      BY <1>1, <1>2, <1>4, Maker DEF Moves
    <2>2. Life(x)' = "over"
      BY <1>2, <1>3, <2>1, LifeIs
    <2>3. OneLife!Next
      BY <1>2, <1>3, <2>1, <2>2, LifeBreaks, FaultsAreClasses
    <2>. QED  BY <1>3, <2>3 DEF Lives
  <1>5. CASE pc[k] \notin {"zooming", "inserting"}
    <2>1. Life(x)' = Life(x) /\ Life(x) # "unborn"
      BY <1>1, <1>2, <1>5, MovesLives, Maker
    <2>2. OneLife!Next
      BY <1>2, <1>3, <2>1, LifeBreaks, FaultsAreClasses
    <2>. QED  BY <1>3, <2>2 DEF Lives
  <1>. QED  BY <1>4, <1>5

LEMMA AnswerLostLives ==
  ASSUME IInv, IInv', MeetingsAreNew, NEW k \in Clients, AnswerLost(k)  PROVE Lives
  <1>1. pc[k] \in {"zooming", "patching"}
    BY DEF AnswerLost, At
  <1>2. PICK x \in Classes : x = req[k].class
    BY <1>1, RequestFields DEF IInv
  <1>3. req[k].new \in Rows /\ req[k].new.start \in Starts
    BY <1>1, RequestFields, Assumptions DEF IInv, Types, RequestsFit, Fits
  <1>4. /\ Moves(k, x, "idle") /\ row' = row /\ faulted' = faulted \cup {x}
        /\ zoom' = [zoom EXCEPT ![x] = req[k].new.start]
        /\ pc[k] = "patching" => zoom[x] # NoMeeting
    BY <1>1, <1>2, GotoMoves DEF AnswerLost, Fault, At
  <1>5. zoom'[x] # NoMeeting /\ \A y \in Classes \ {x} : zoom'[y] = zoom[y]
    BY <1>3, <1>4, Assumptions DEF IInv, Types, TypeOK
  <1>6. Only(x) /\ MeetingsAreNew' /\ ~ Making(x)'
    BY <1>4, <1>5, MovesLives, MovesNew
  <1>7. CASE pc[k] = "zooming"
    <2>1. Life(x) = "making" /\ row[x] = NoRow /\ x \in named'
      BY <1>1, <1>2, <1>4, <1>7, Maker DEF Moves
    <2>2. Life(x)' = "over"
      BY <1>4, <1>6, <2>1, LifeIs
    <2>3. OneLife!Next
      BY <1>4, <1>5, <1>6, <2>1, <2>2, LifeBreaks, FaultsAreClasses
    <2>. QED  BY <1>6, <2>3 DEF Lives
  <1>8. CASE pc[k] = "patching"
    <2>1. Life(x)' = Life(x) /\ Life(x) # "unborn"
      BY <1>2, <1>4, <1>5, <1>8, MovesLives, Maker
    <2>2. OneLife!Next
      BY <1>4, <1>5, <1>6, <1>8, <2>1, LifeBreaks, FaultsAreClasses
    <2>. QED  BY <1>6, <2>2 DEF Lives
  <1>. QED  BY <1>1, <1>7, <1>8

LEMMA LogsOnlyLives ==
  ASSUME IInv, IInv', MeetingsAreNew, NEW k \in Clients, Swallow(k) \/ ChargeError(k)
  PROVE  Lives
  <1>1. pc[k] \in {"cleaning", "deleting", "charging"}
    BY DEF Swallow, ChargeError, At
  <1>2. PICK x \in Classes : x = req[k].class
    BY <1>1, RequestFields DEF IInv
  <1>3. PICK step \in {"idle", "cleaning", "deleting", "charging"} : Goto(k, step)
    BY DEF Swallow, ChargeError, AfterDelete, OrIdle
  <1>4. /\ Moves(k, x, step) /\ row' = row /\ zoom' = zoom /\ faulted' = faulted \cup {x}
    BY <1>1, <1>2, <1>3, GotoMoves DEF Swallow, ChargeError, Fault
  <1>5. Only(x) /\ MeetingsAreNew' /\ Life(x)' = Life(x)
    BY <1>1, <1>4, MovesLives, MovesNew
  <1>6. Life(x) # "unborn"
    BY <1>1, <1>2, Maker
  <1>7. OneLife!Next
    BY <1>4, <1>5, <1>6, LifeBreaks, FaultsAreClasses
  <1>. QED  BY <1>5, <1>7 DEF Lives

(* The first steps: only a create is a step of a life. *)
LEMMA CreateLives ==
  ASSUME IInv, IInv', MeetingsAreNew, NEW k \in Clients,
         NEW x \in Classes, NEW t \in Teachers, NEW s \in Starts, Create(k, x, t, s)
  PROVE  Lives
  <1>. DEFINE new == [status |-> "UPCOMING", teacher |-> t, start |-> s,
                      cost |-> ClassCost, linked |-> TRUE]
              r   == [op |-> "create", class |-> x, old |-> NoRow, new |-> new]
  <1>1. r \in Requests /\ r.class = x /\ r.op = "create"
    BY SchedulingAssumption DEF Requests, Rows
  <1>2. x \notin named /\ named' = named \cup {x} /\ Accept(k, r, "zooming")
    BY DEF Create
  <1>. HIDE DEF r
  <1>3. Opens(k, x, r, "zooming")
    BY <1>1, <1>2, AcceptOpens
  <1>4. /\ row' = row /\ zoom' = zoom /\ faulted' = faulted /\ req[k] = NoRequest
        /\ pc[k] = "idle" /\ pc'[k] = "zooming" /\ req'[k] = r
        /\ \A l \in Clients \ {k} : pc'[l] = pc[l] /\ req'[l] = req[l]
    BY <1>3 DEF Opens, Stays
  <1>5. \A l \in Clients : pc[l] # "idle" => req[l].class \in named
    BY DEF IInv, Types, RequestsFit, Fits
  <1>6. ~ Making(x) /\ Making(x)' /\ row[x] = NoRow /\ zoom[x] = NoMeeting
    <2>1. row[x] = NoRow /\ zoom[x] = NoMeeting
      BY <1>2, HereHolds DEF Unborn, MeetingsAreNew, Unopened
    <2>2. ~ Making(x)
      BY <1>2, <1>5 DEF Making
    <2>3. Making(x)'
      BY <1>1, <1>4 DEF Making
    <2>. QED  BY <2>1, <2>2, <2>3
  <1>7. Only(x)
    <2>1. ASSUME NEW y \in Classes \ {x}  PROVE Making(y)' <=> Making(y)
      BY <1>1, <1>4 DEF Making
    <2>. QED  BY <1>2, <1>4, <2>1, LifeStays DEF Only
  <1>8. Life(x) = "unborn" /\ Life(x)' = "making"
    BY <1>2, <1>4, <1>6, LifeIs
  <1>9. MeetingsAreNew'
    <2>1. ASSUME NEW y \in Classes, NEW l \in Clients, Mine(l, y)', pc'[l] = "zooming"
          PROVE  zoom'[y] = NoMeeting
      <3>1. CASE l = k
        BY <1>1, <1>4, <1>6, <2>1, <3>1 DEF Mine
      <3>2. CASE l # k
        BY <1>4, <2>1, <3>2 DEF Mine, MeetingsAreNew, Unopened
      <3>. QED  BY <3>1, <3>2
    <2>2. ASSUME NEW y \in Classes, y \notin named'  PROVE zoom'[y] = NoMeeting
      BY <1>2, <1>4, <2>2 DEF MeetingsAreNew, Unopened
    <2>. QED  BY <2>1, <2>2 DEF MeetingsAreNew, Unopened
  <1>. QED  BY <1>4, <1>7, <1>8, <1>9, LivesOnward, FaultsAreClasses DEF Lives, Still

LEMMA ReadsLive ==
  ASSUME IInv, MeetingsAreNew, NEW k \in Clients, NEW r, NEW step \in {"patching", "writing"},
         Accept(k, r, step), named' = named
  PROVE  Lives
  <1>1. /\ row' = row /\ zoom' = zoom /\ faulted' = faulted /\ pc[k] = "idle" /\ pc'[k] = step
        /\ \A l \in Clients \ {k} : pc'[l] = pc[l] /\ req'[l] = req[l]
    BY DEF Accept, IInv, Types, TypeOK
  <1>2. ASSUME NEW x \in Classes  PROVE Life(x)' = Life(x)
    <2>1. Making(x)' <=> Making(x)
      BY <1>1 DEF Making
    <2>. QED  BY <1>1, <2>1, LifeStays
  <1>3. UNCHANGED OneLife!vars
    BY <1>1, <1>2 DEF OneLife!vars
  <1>4. MeetingsAreNew'
    BY <1>1 DEF MeetingsAreNew, Unopened, Mine
  <1>. QED  BY <1>3, <1>4 DEF Lives

LEMMA BeginLives ==
  ASSUME IInv, IInv', MeetingsAreNew, NEW k \in Clients, Begin(k)  PROVE Lives
  <1>1. PICK x \in Classes :
          \/ \E s \in Starts : \/ \E t \in Teachers : Create(k, x, t, s)
                               \/ \E y \in Classes : RecreateClass(k, x, y, s)
          \/ \E new \in Rows : Update(k, x, new)
          \/ Cancel(k, x) \/ EndClass(k, x) \/ Remove(k, x)
    BY DEF Begin
  <1>2. ASSUME NEW s \in Starts, NEW y \in Classes, RecreateClass(k, x, y, s)  PROVE Lives
    <2>1. row[y].teacher \in Teachers
      BY <1>2, HereHolds, Assumptions DEF RecreateClass
    <2>. QED  BY <1>2, <2>1, CreateLives DEF RecreateClass
  <1>3. ASSUME NEW new \in Rows, Update(k, x, new)  PROVE Lives
    <2>1. PICK step \in {"patching", "writing"} :
            Accept(k, [op |-> "update", class |-> x, old |-> row[x], new |-> new], step)
      BY <1>3 DEF Update
    <2>. QED  BY <1>3, <2>1, ReadsLive DEF Update
  <1>4. ASSUME Cancel(k, x) \/ EndClass(k, x) \/ Remove(k, x)  PROVE Lives
    BY <1>4, ReadsLive DEF Cancel, EndClass, Close, Remove
  <1>. QED  BY <1>1, <1>2, <1>3, <1>4, CreateLives

LEMMA NextLives == IInv /\ IInv' /\ MeetingsAreNew /\ [Next]_vars => Lives
  <1>. SUFFICES ASSUME IInv, IInv', MeetingsAreNew, [Next]_vars  PROVE Lives
    OBVIOUS
  <1>1. ASSUME NEW k \in Clients, Proceed(k)  PROVE Lives
    BY <1>1, CreateMeetingLives, InsertRowLives, PatchMeetingLives, WriteRowLives,
       DeleteMeetingLives, CleanupLives, QuietLives DEF Proceed
  <1>2. ASSUME NEW k \in Clients, Fail(k)  PROVE Lives
    BY <1>2, AbortLives, AnswerLostLives, LogsOnlyLives DEF Fail
  <1>3. ASSUME UNCHANGED vars  PROVE Lives
    <2>1. /\ row' = row /\ zoom' = zoom /\ faulted' = faulted /\ named' = named
          /\ pc' = pc /\ req' = req
      BY <1>3 DEF vars, history
    <2>2. \A x : Making(x)' <=> Making(x)
      BY <2>1 DEF Making
    <2>3. \A x : Life(x)' = Life(x)
      BY <2>1, <2>2, LifeStays
    <2>4. UNCHANGED OneLife!vars /\ MeetingsAreNew'
      BY <2>1, <2>3 DEF OneLife!vars, MeetingsAreNew, Unopened, Mine
    <2>. QED  BY <2>4 DEF Lives
  <1>. QED  BY <1>1, <1>2, <1>3, BeginLives DEF Next

(* LivesOnce: whatever number of requests create, update, cancel, end and    *)
(* remove classes, a class lives once, with one meeting that is there while  *)
(* the class offers it and is not opened again after.                       *)
THEOREM ImplementsClassLife == Spec => LivesOnce
  <1>1. Init => OneLife!Init
    <2>. SUFFICES ASSUME Init  PROVE OneLife!Init
      OBVIOUS
    <2>1. ASSUME NEW x \in Classes  PROVE Life(x) = "unborn" /\ zoom[x] = NoMeeting
      <3>1. row[x] = NoRow /\ x \notin named /\ ~ Making(x)
        BY DEF Init, Making
      <3>. QED  BY <3>1, LifeIs DEF Init
    <2>. QED  BY <2>1 DEF Init, OneLife!Init
  <1>2. Init => MeetingsAreNew
    BY DEF Init, MeetingsAreNew, Unopened
  <1>3. IInv /\ IInv' /\ MeetingsAreNew /\ [Next]_vars
          => [OneLife!Next]_(OneLife!vars) /\ MeetingsAreNew'
    BY NextLives DEF Lives
  <1>4. Spec => []MeetingsAreNew
    BY <1>2, <1>3, Invariance, PTL DEF Spec
  <1>. QED  BY <1>1, <1>3, <1>4, Invariance, PTL DEF Spec, LivesOnce, OneLife!Spec

-----------------------------------------------------------------------------
(* ClassRecords. *)
Steps == {"idle", "token", "caching", "sending", "replacing", "saving"}
RequestTypes ==
  /\ stage \in [Callers -> Steps]
  /\ task \in [Callers -> Tasks \cup {NoTask}]
  /\ \A c \in Callers : stage[c] = "idle" <=> task[c] = NoTask
  /\ \A c \in Callers : stage[c] # "idle" => task[c].token <= issued
TableTypes ==
  /\ exists \subseteq Meetings /\ linked \subseteq exists /\ invited \subseteq exists
  /\ attendance \in [Meetings -> Seq(People)] /\ report \in [Meetings -> Seq(People)]
  /\ recordings \in [Meetings -> SUBSET Kept]
  /\ issued \in Nat /\ revoked \in 0 .. issued /\ cache \in 0 .. issued
  /\ sent \in [Meetings -> Nat] /\ answered \subseteq Meetings /\ synced \in [Meetings -> Nat]

RecordTypes == RequestTypes /\ TableTypes

(* A token in hand, or about to be taken, at the second attempt is good,     *)
(* unless there is an excuse.                                               *)
Fresh(c) ==
  stage[c] # "idle" /\ ~ task[c].retry /\ ~ task[c].excuse =>
    /\ stage[c] = "token" => cache = 0 \/ cache > revoked
    /\ stage[c] \in {"caching", "sending"} => task[c].token > revoked

(* A delivery has stored what it is done with, if the class is still linked. *)
Saved(c) ==
  stage[c] = "saving" /\ task[c].class \in linked
    => Kept \ task[c].todo \subseteq recordings[task[c].class]

(* A synchronisation has read the head of the report, and stores no less     *)
(* than was stored before, if no other is in progress.                      *)
Collects(c) ==
  /\ stage[c] = "replacing" => task[c].op = "sync"
  /\ task[c].op = "sync" => Lists!IsPrefix(task[c].got, report[task[c].class])
  /\ stage[c] = "replacing" => \/ task[c].class \in crossed \/ task[c].class \notin exists
                            \/ synced[task[c].class] <= Len(task[c].got)

OneAtATime ==
  \A x \in Meetings, c, d \in Callers :
    Syncing(c, x) /\ Syncing(d, x) => c = d \/ x \in crossed

Stored == (\A c \in Callers : Saved(c)) /\ AnsweredIsRecorded
Reported == (\A c \in Callers : Collects(c)) /\ OneAtATime /\ AttendanceIsAReport
Tokens == (\A c \in Callers : Fresh(c)) /\ RefusalsAreUnlucky

RecordsIInv == RecordTypes /\ Stored /\ Reported /\ Tokens

(* Heads of sequences. *)
LEMMA PrefixIs ==
  ASSUME NEW S, NEW s \in Seq(S), NEW t \in Seq(S)
  PROVE  Lists!IsPrefix(s, t) <=> Len(s) <= Len(t) /\ \A i \in 1 .. Len(s) : s[i] = t[i]
  <1>1. CASE Len(s) <= Len(t)
    <2>1. /\ SubSeq(s, 1, Len(s)) = [i \in 1 .. Len(s) |-> s[i]]
          /\ SubSeq(t, 1, Len(s)) = [i \in 1 .. Len(s) |-> t[i]]
      BY <1>1
    <2>. QED  BY <1>1, <2>1 DEF Lists!IsPrefix
  <1>2. CASE ~ Len(s) <= Len(t)
    BY <1>2 DEF Lists!IsPrefix
  <1>. QED  BY <1>1, <1>2

LEMMA PrefixEmpty ==
  ASSUME NEW S, NEW t \in Seq(S)
  PROVE  Lists!IsPrefix(<<>>, t)
  <1> DEFINE s == <<>>
  <1>1. s \in Seq(S) /\ Len(s) = 0 /\ Len(t) \in Nat
    OBVIOUS
  <1>. HIDE DEF s
  <1>2. Len(s) <= Len(t) /\ \A i \in 1 .. Len(s) : s[i] = t[i]
    BY <1>1
  <1>3. Lists!IsPrefix(s, t)
    BY <1>1, <1>2, PrefixIs
  <1>. QED  BY <1>3 DEF s

LEMMA PrefixGrows ==
  ASSUME NEW S, NEW s \in Seq(S), NEW t \in Seq(S), NEW e \in S, Lists!IsPrefix(s, t)
  PROVE  Append(t, e) \in Seq(S) /\ Lists!IsPrefix(s, Append(t, e))
  <1>1. Len(s) <= Len(t) /\ \A i \in 1 .. Len(s) : s[i] = t[i]
    BY PrefixIs
  <1>2. Append(t, e) \in Seq(S)
    OBVIOUS
  <1>3. Len(Append(t, e)) = Len(t) + 1 /\ \A i \in 1 .. Len(t) : Append(t, e)[i] = t[i]
    OBVIOUS
  <1>4. Len(s) <= Len(Append(t, e)) /\ \A i \in 1 .. Len(s) : s[i] = Append(t, e)[i]
    BY <1>1, <1>3
  <1>. QED  BY <1>2, <1>4, PrefixIs

LEMMA PrefixCollects ==
  ASSUME NEW S, NEW s \in Seq(S), NEW t \in Seq(S), Lists!IsPrefix(s, t), Len(s) < Len(t)
  PROVE  LET u == s \o <<t[Len(s) + 1]>> IN
         u \in Seq(S) /\ Len(u) = Len(s) + 1 /\ Lists!IsPrefix(u, t)
  <1> DEFINE n == Len(s)
             u == s \o <<t[n + 1]>>
  <1>1. n <= Len(t) /\ \A i \in 1 .. n : s[i] = t[i]
    BY PrefixIs
  <1>2. t[n + 1] \in S
    OBVIOUS
  <1>3. u \in Seq(S) /\ Len(u) = n + 1 /\ u[n + 1] = t[n + 1] /\ \A i \in 1 .. n : u[i] = s[i]
    BY <1>2
  <1>. HIDE DEF u
  <1>4. Len(u) <= Len(t) /\ \A i \in 1 .. Len(u) : u[i] = t[i]
    BY <1>1, <1>3
  <1>5. Lists!IsPrefix(u, t)
    BY <1>3, <1>4, PrefixIs
  <1>. QED  BY <1>3, <1>5 DEF u

LEMMA Null == \A r \in Tasks : r # NoTask /\ r.op # NoTask.op
  BY DEF Tasks, NoTask

(* What is known of a request, and of a client that has none. *)
LEMMA Held ==
  ASSUME RecordTypes, NEW c \in Callers, stage[c] # "idle"
  PROVE  /\ task[c] \in Tasks /\ task[c].token <= issued
         /\ task[c].op \in {"sync", "call", "webhook"} /\ task[c].class \in Meetings
         /\ task[c].got \in Seq(People) /\ task[c].token \in Nat
         /\ task[c].retry \in BOOLEAN /\ task[c].excuse \in BOOLEAN
         /\ task[c].todo \subseteq Files
  <1>1. task[c] \in Tasks /\ task[c].token <= issued
    BY DEF RecordTypes, RequestTypes
  <1>. QED  BY <1>1 DEF Tasks

LEMMA Idle ==
  ASSUME RecordTypes, NEW c \in Callers, stage[c] = "idle"
  PROVE  task[c] = NoTask /\ task[c].op = "none"
  BY DEF RecordTypes, RequestTypes, NoTask

LEMMA Started ==
  ASSUME NEW op \in {"sync", "call", "webhook"}, NEW x \in Meetings
  PROVE  LET r == Task(op, x) IN
         /\ r \in Tasks /\ r.token = 0 /\ r.retry = TRUE /\ r.excuse = FALSE
         /\ r.op = op /\ r.class = x /\ r.got = <<>> /\ r.todo = Files
  BY DEF Task, Tasks, Files

LEMMA Excused ==
  ASSUME RecordTypes, NEW c \in Callers
  PROVE  /\ stage[c] = "idle" => Excuse(task)[c] = NoTask
         /\ stage[c] # "idle" =>
              LET r == Excuse(task)[c] IN
              /\ r \in Tasks
              /\ r.op = task[c].op /\ r.class = task[c].class /\ r.got = task[c].got
              /\ r.token = task[c].token /\ r.todo = task[c].todo
              /\ r.retry = task[c].retry /\ r.excuse = ~ task[c].retry
  <1>1. CASE stage[c] = "idle"
    BY <1>1, Idle DEF Excuse
  <1>2. CASE stage[c] # "idle"
    <2>1. task[c] \in Tasks /\ task[c] # NoTask
      BY <1>2, Held, Null
    <2>2. Excuse(task)[c] = [task[c] EXCEPT !.excuse = ~ task[c].retry]
      BY <2>1 DEF Excuse
    <2>. QED  BY <1>2, <2>1, <2>2 DEF Tasks
  <1>. QED  BY <1>1, <1>2

(* A client moves on, with the request r. *)
LEMMA MoveTypes ==
  ASSUME RecordTypes, NEW c \in Callers, NEW step \in Steps, NEW r,
         step # "idle" => r \in Tasks /\ r.token <= issued',
         stage' = [stage EXCEPT ![c] = step],
         task' = [task EXCEPT ![c] = IF step = "idle" THEN NoTask ELSE r],
         issued' \in Nat, issued <= issued'
  PROVE  RequestTypes'
  <1>0. RequestTypes /\ issued \in Nat
    BY DEF RecordTypes, TableTypes
  <1>1. stage' \in [Callers -> Steps] /\ stage'[c] = step
    BY <1>0 DEF RequestTypes
  <1>2. task'[c] = IF step = "idle" THEN NoTask ELSE r
    BY <1>0 DEF RequestTypes
  <1>3. task' \in [Callers -> Tasks \cup {NoTask}]
    BY <1>0 DEF RequestTypes
  <1>4. ASSUME NEW d \in Callers
        PROVE  (stage'[d] = "idle" <=> task'[d] = NoTask)
               /\ (stage'[d] # "idle" => task'[d].token <= issued')
    <2>1. CASE d = c
      BY <1>1, <1>2, <2>1, Null
    <2>2. CASE d # c
      <3>1. stage'[d] = stage[d] /\ task'[d] = task[d]
        BY <1>0, <2>2 DEF RequestTypes
      <3>2. stage[d] # "idle" => task[d].token \in Nat /\ task[d].token <= issued
        BY Held
      <3>. QED  BY <1>0, <3>1, <3>2 DEF RequestTypes
    <2>. QED  BY <2>1, <2>2
  <1>. QED  BY <1>1, <1>3, <1>4 DEF RequestTypes

LEMMA ContinueTypes ==
  ASSUME RecordTypes, NEW c \in Callers, NEW step \in Steps, NEW r,
         r \in Tasks /\ r.token <= issued', Continue(c, r, step),
         issued' \in Nat, issued <= issued'
  PROVE  RequestTypes'
  BY MoveTypes DEF Continue

LEMMA StartTypes ==
  ASSUME RecordTypes, NEW c \in Callers, NEW step \in Steps \ {"idle"},
         NEW op \in {"sync", "call", "webhook"}, NEW x \in Meetings,
         Start(c, Task(op, x), step), issued' = issued
  PROVE  RequestTypes'
  <1> DEFINE r == Task(op, x)
  <1>1. issued' \in Nat /\ issued <= issued'
    BY DEF RecordTypes, TableTypes
  <1>2. r \in Tasks /\ r.token <= issued'
    <2>1. r \in Tasks /\ r.token = 0
      BY DEF Task, Tasks, Files
    <2>. QED  BY <1>1, <2>1
  <1>3. /\ stage' = [stage EXCEPT ![c] = step]
        /\ task' = [task EXCEPT ![c] = IF step = "idle" THEN NoTask ELSE r]
    BY DEF Start
  <1>. HIDE DEF r
  <1>. QED  BY <1>1, <1>2, <1>3, MoveTypes

LEMMA ExcuseTypes ==
  ASSUME RecordTypes, stage' \in [Callers -> Steps], issued' = issued,
         \A c \in Callers : stage'[c] = "idle" <=> stage[c] = "idle",
         task' = Excuse(task)
  PROVE  RequestTypes'
  <1>1. \A c \in Callers : stage[c] # "idle" => task[c].token <= issued
    BY Held
  <1>2. task' \in [Callers -> Tasks \cup {NoTask}]
    <2>1. task' = [c \in Callers |-> Excuse(task)[c]]
      BY DEF Excuse
    <2>. QED  BY <2>1, Excused
  <1>. QED  BY <1>1, <1>2, Excused, Null DEF RequestTypes

LEMMA WorldTypes ==
  ASSUME RecordTypes, World
  PROVE  RecordTypes'
  <1>0. RequestTypes /\ TableTypes
    BY DEF RecordTypes
  <1>1. CASE Revoke
    <2>1. TableTypes'
      BY <1>0, <1>1 DEF TableTypes, Revoke, tables, recHistory
    <2>2. RequestTypes'
      BY <1>0, <1>1, ExcuseTypes DEF RequestTypes, Revoke
    <2>. QED  BY <2>1, <2>2 DEF RecordTypes
  <1>2. CASE Outdate
    <2>1. TableTypes' /\ RequestTypes'
      BY <1>0, <1>2 DEF TableTypes, RequestTypes, Outdate, tables, atZoom, recHistory
    <2>. QED  BY <2>1 DEF RecordTypes
  <1>3. CASE Restart
    <2>1. TableTypes'
      BY <1>0, <1>3 DEF TableTypes, Restart, tables, atZoom, recHistory
    <2>2. RequestTypes'
      BY <1>0, <1>3 DEF RequestTypes, Steps, Restart
    <2>. QED  BY <2>1, <2>2 DEF RecordTypes
  <1>4. ASSUME NEW x \in Meetings, Unlink(x) \/ RemoveClass(x)
        PROVE  RecordTypes'
    <2>1. TableTypes'
      <3>1. <<>> \in Seq(People) /\ {} \in SUBSET Kept
        OBVIOUS
      <3>2. /\ attendance' \in [Meetings -> Seq(People)]
            /\ recordings' \in [Meetings -> SUBSET Kept]
        BY <1>0, <1>4, <3>1 DEF TableTypes, Unlink, RemoveClass
      <3>. QED  BY <1>0, <1>4, <3>2 DEF TableTypes, Unlink, RemoveClass, atZoom, recHistory
    <2>2. RequestTypes'
      BY <1>0, <1>4 DEF RequestTypes, Unlink, RemoveClass, atZoom
    <2>. QED  BY <2>1, <2>2 DEF RecordTypes
  <1>5. ASSUME NEW x \in Meetings, NEW who \in People, Attend(x, who)
        PROVE  RecordTypes'
    <2>1. Append(report[x], who) \in Seq(People)
      BY <1>0 DEF TableTypes
    <2>2. report' \in [Meetings -> Seq(People)]
      BY <1>0, <1>5, <2>1 DEF TableTypes, Attend
    <2>3. TableTypes'
      BY <1>0, <1>5, <2>2 DEF TableTypes, Attend, tables, recHistory
    <2>4. RequestTypes'
      BY <1>0, <1>5 DEF RequestTypes, Attend
    <2>. QED  BY <2>3, <2>4 DEF RecordTypes
  <1>. QED  BY <1>1, <1>2, <1>3, <1>4, <1>5 DEF World

LEMMA HandleTypes ==
  ASSUME RecordTypes, NEW c \in Callers, Handle(c)
  PROVE  RecordTypes'
  <1> DEFINE r == task[c]
  <1>0. RequestTypes /\ TableTypes /\ issued \in Nat
    BY DEF RecordTypes, TableTypes
  <1>1. ASSUME NEW x \in Meetings, SyncParticipants(c, x) \/ CallZoom(c, x)
        PROVE  RecordTypes'
    <2>1. PICK op \in {"sync", "call"} : Start(c, Task(op, x), "token")
      BY <1>1 DEF SyncParticipants, CallZoom
    <2>2. UNCHANGED <<tables, cache, atZoom, synced>>
      BY <1>1 DEF SyncParticipants, CallZoom, recHistory
    <2>3. issued' = issued
      BY <2>2 DEF atZoom
    <2>5. RequestTypes'
      BY <2>1, <2>3, StartTypes DEF Steps
    <2>6. TableTypes'
      BY <1>0, <2>2 DEF TableTypes, tables, atZoom
    <2>. QED  BY <2>5, <2>6 DEF RecordTypes
  <1>2. ASSUME NEW x \in Meetings, RecordingCompleted(c, x)
        PROVE  RecordTypes'
    <2>1. TableTypes'
      BY <1>0, <1>2 DEF TableTypes, RecordingCompleted, tables, recHistory
    <2>2. issued' = issued
      BY <1>2 DEF RecordingCompleted
    <2>3. CASE x \in linked
      <3>1. Start(c, Task("webhook", x), "saving")
        BY <1>2, <2>3 DEF RecordingCompleted
      <3>3. RequestTypes'
        BY <2>2, <3>1, StartTypes DEF Steps
      <3>. QED  BY <2>1, <3>3 DEF RecordTypes
    <2>4. CASE x \notin linked
      <3>1. RequestTypes'
        BY <1>0, <1>2, <2>2, <2>4 DEF RecordingCompleted, RequestTypes
      <3>. QED  BY <2>1, <3>1 DEF RecordTypes
    <2>. QED  BY <2>3, <2>4
  <1>3. CASE GetAccessToken(c)
    <2>0. stage[c] = "token" /\ r \in Tasks
      BY <1>3, Held DEF GetAccessToken
    <2>1. TableTypes' /\ issued' \in Nat /\ issued <= issued'
      BY <1>0, <1>3 DEF TableTypes, GetAccessToken, tables, recHistory
    <2>2. PICK n \in Nat, step \in {"sending", "caching"} :
            n <= issued' /\ Continue(c, [r EXCEPT !.token = n], step)
      <3>1. CASE cache # 0
        <4>1. /\ cache \in Nat /\ cache <= issued'
              /\ Continue(c, [r EXCEPT !.token = cache], "sending")
          BY <1>0, <1>3, <2>1, <3>1 DEF TableTypes, GetAccessToken
        <4>. QED  BY <4>1
      <3>2. CASE cache = 0
        <4>1. /\ issued + 1 \in Nat /\ issued + 1 <= issued'
              /\ Continue(c, [r EXCEPT !.token = issued + 1], "caching")
          BY <1>0, <1>3, <3>2 DEF TableTypes, GetAccessToken
        <4>. QED  BY <4>1
      <3>. QED  BY <3>1, <3>2
    <2>3. [r EXCEPT !.token = n] \in Tasks /\ [r EXCEPT !.token = n].token = n
      BY <2>0 DEF Tasks
    <2>. HIDE DEF r
    <2>4. RequestTypes'
      BY <2>1, <2>2, <2>3, ContinueTypes DEF Steps
    <2>. QED  BY <2>1, <2>4 DEF RecordTypes
  <1>4. CASE CacheToken(c)
    <2>1. stage[c] = "caching" /\ task[c].token <= issued /\ task[c].token \in Nat
      BY <1>4, Held DEF CacheToken
    <2>2. TableTypes' /\ issued' = issued
      BY <1>0, <1>4, <2>1 DEF TableTypes, CacheToken, tables, atZoom, recHistory
    <2>3. stage' \in [Callers -> Steps] /\ \A d \in Callers : stage'[d] = "idle" <=> stage[d] = "idle"
      BY <1>0, <1>4, <2>1 DEF RequestTypes, Steps, CacheToken
    <2>4. RequestTypes'
      <3>1. CASE task' = task
        BY <1>0, <2>2, <2>3, <3>1 DEF RequestTypes
      <3>2. CASE task' = Excuse(task)
        BY <2>2, <2>3, <3>2, ExcuseTypes
      <3>. QED  BY <1>4, <3>1, <3>2 DEF CacheToken
    <2>. QED  BY <2>2, <2>4 DEF RecordTypes
  <1>5. CASE Refused(c) \/ CallServed(c) \/ RecFail(c)
    <2>0. r \in Tasks /\ r.token <= issued
      BY <1>5, Held DEF Refused, CallServed, Served, RecFail
    <2>1. TableTypes' /\ issued' = issued
      BY <1>0, <1>5 DEF TableTypes, Refused, CallServed, RecFail, tables, atZoom, recHistory
    <2> DEFINE q == [r EXCEPT !.retry = FALSE]
    <2>2. Continue(c, q, "token") \/ Continue(c, r, "idle")
      BY <1>5 DEF Refused, CallServed, RecFail, GoOn
    <2>3. q \in Tasks /\ q.token <= issued' /\ issued' \in Nat /\ issued <= issued'
      <3>1. q \in Tasks /\ q.token = r.token
        BY <2>0 DEF Tasks
      <3>. HIDE DEF q, r
      <3>. QED  BY <1>0, <2>0, <2>1, <3>1
    <2>. HIDE DEF q
    <2>4. RequestTypes'
      <3>1. CASE Continue(c, q, "token")
        BY <2>3, <3>1, ContinueTypes DEF Steps
      <3>2. CASE Continue(c, r, "idle")
        BY <2>0, <2>1, <2>3, <3>2, ContinueTypes DEF Steps
      <3>. QED  BY <2>2, <3>1, <3>2
    <2>. QED  BY <2>1, <2>4 DEF RecordTypes
  <1>6. CASE FetchPage(c)
    <2>0. r \in Tasks /\ r.token <= issued /\ r.got \in Seq(People) /\ r.class \in Meetings
      BY <1>6, Held DEF FetchPage, Served
    <2>1. TableTypes' /\ issued' = issued
      BY <1>0, <1>6 DEF TableTypes, FetchPage, tables, atZoom, recHistory
    <2>2. PICK got \in Seq(People), step \in {"token", "replacing"} :
            Continue(c, [r EXCEPT !.got = got, !.retry = TRUE, !.excuse = FALSE], step)
      <3> DEFINE n == Len(r.got)
                 page == IF n < Len(report[r.class]) THEN <<report[r.class][n + 1]>> ELSE <<>>
                 step == IF n + 1 < Len(report[r.class]) THEN "token" ELSE "replacing"
      <3>1. page \in Seq(People) /\ step \in {"token", "replacing"}
        <4>1. r.got \in Seq(People) /\ report[r.class] \in Seq(People)
          BY <1>0, <2>0 DEF TableTypes
        <4>. HIDE DEF r
        <4>2. page \in Seq(People)
          BY <4>1
        <4>. QED  BY <4>2
      <3>2. r.got \o page \in Seq(People)
        BY <2>0, <3>1
      <3>3. Continue(c, [r EXCEPT !.got = r.got \o page, !.retry = TRUE, !.excuse = FALSE], step)
        BY <1>6 DEF FetchPage, Collected
      <3>. QED  BY <3>1, <3>2, <3>3
    <2> DEFINE q == [r EXCEPT !.got = got, !.retry = TRUE, !.excuse = FALSE]
    <2>3. q \in Tasks /\ q.token <= issued' /\ issued' \in Nat /\ issued <= issued'
      <3>1. q \in Tasks /\ q.token = r.token
        BY <2>0 DEF Tasks
      <3>. HIDE DEF q, r
      <3>. QED  BY <1>0, <2>0, <2>1, <3>1
    <2>4. Continue(c, q, step)
      BY <2>2
    <2>. HIDE DEF q
    <2>5. RequestTypes'
      BY <2>3, <2>4, ContinueTypes DEF Steps
    <2>. QED  BY <2>1, <2>5 DEF RecordTypes
  <1>7. CASE ReplaceParticipants(c)
    <2>0. r.got \in Seq(People) /\ r.class \in Meetings /\ r \in Tasks /\ r.token <= issued
      BY <1>7, Held DEF ReplaceParticipants
    <2>1. Len(r.got) \in Nat
      BY <2>0
    <2>2. /\ attendance' \in [Meetings -> Seq(People)] /\ synced' \in [Meetings -> Nat]
          /\ invited' \subseteq invited
      <3>1. /\ attendance \in [Meetings -> Seq(People)] /\ synced \in [Meetings -> Nat]
        BY <1>0 DEF TableTypes
      <3>2. \/ UNCHANGED <<invited, attendance, synced>>
            \/ /\ invited' = invited \ {r.class}
               /\ attendance' = [attendance EXCEPT ![r.class] = r.got]
               /\ \/ synced' = [synced EXCEPT ![r.class] = Len(r.got)]
                  \/ synced' = synced
        <4>1. \/ UNCHANGED <<invited, attendance, synced>>
              \/ /\ invited' = invited \ {r.class}
                 /\ attendance' = [attendance EXCEPT ![r.class] = r.got]
                 /\ synced' = [synced EXCEPT ![r.class] = IF Len(r.got) > @ THEN Len(r.got) ELSE @]
          BY <1>7 DEF ReplaceParticipants
        <4>. QED  BY <3>1, <4>1
      <3>. HIDE DEF r
      <3>. QED  BY <2>0, <2>1, <3>1, <3>2
    <2>3. TableTypes' /\ issued' = issued
      BY <1>0, <1>7, <2>2 DEF TableTypes, ReplaceParticipants, atZoom
    <2>4. RequestTypes'
      BY <1>0, <1>7, <2>0, <2>3, ContinueTypes DEF ReplaceParticipants, GoOn, Steps
    <2>. QED  BY <2>3, <2>4 DEF RecordTypes
  <1>8. CASE SaveRecording(c)
    <2>0. r \in Tasks /\ r.token <= issued /\ r.class \in Meetings /\ r.todo \subseteq Files
      BY <1>8, Held DEF SaveRecording
    <2>1. PICK f \in r.todo :
            /\ recordings' = IF f \in Kept
                             THEN [recordings EXCEPT ![r.class] = @ \cup {f}] ELSE recordings
            /\ IF r.todo # {f}
               THEN Continue(c, [r EXCEPT !.todo = @ \ {f}], "saving") /\ UNCHANGED answered
               ELSE GoOn(c, "idle") /\ answered' = answered \cup {r.class}
      BY <1>8 DEF SaveRecording
    <2>2. UNCHANGED <<exists, linked, invited, attendance, cache, report, issued, revoked, sent, synced>>
      BY <1>8 DEF SaveRecording, recHistory
    <2>3. recordings' \in [Meetings -> SUBSET Kept] /\ answered' \subseteq Meetings
      BY <1>0, <2>0, <2>1 DEF TableTypes
    <2>4. TableTypes'
      BY <1>0, <2>2, <2>3 DEF TableTypes
    <2> DEFINE q == [r EXCEPT !.todo = @ \ {f}]
    <2>5. q \in Tasks /\ q.token <= issued' /\ issued' \in Nat /\ issued <= issued'
      BY <1>0, <2>0, <2>2 DEF Tasks
    <2>. HIDE DEF q
    <2>6. RequestTypes'
      <3>1. CASE Continue(c, q, "saving")
        BY <2>5, <3>1, ContinueTypes DEF Steps
      <3>2. CASE GoOn(c, "idle")
        BY <2>0, <2>2, <2>5, <3>2, ContinueTypes DEF GoOn, Steps
      <3>. QED  BY <2>1, <3>1, <3>2 DEF q
    <2>. QED  BY <2>4, <2>6 DEF RecordTypes
  <1>. QED  BY <1>1, <1>2, <1>3, <1>4, <1>5, <1>6, <1>7, <1>8 DEF Handle

LEMMA NextTypes ==
  ASSUME RecordTypes, [RecNext]_recVars
  PROVE  RecordTypes'
  <1>1. CASE RecNext
    BY <1>1, WorldTypes, HandleTypes DEF RecNext
  <1>2. CASE UNCHANGED recVars
    <2>1. RequestTypes' /\ TableTypes'
      BY <1>2 DEF RecordTypes, RequestTypes, TableTypes, recVars, tables, atZoom, recHistory
    <2>. QED  BY <2>1 DEF RecordTypes
  <1>. QED  BY <1>1, <1>2

-----------------------------------------------------------------------------
(* Recordings: a delivery that is still at work is not disturbed. *)
StillSaving(c) ==
  stage'[c] = "saving" => /\ stage[c] = "saving"
                       /\ task'[c].class = task[c].class /\ task'[c].todo = task[c].todo

LEMMA NotSaving ==
  ASSUME RecordTypes, NEW c \in Callers, NEW r, NEW step \in Steps \ {"saving"},
         Continue(c, r, step) \/ Start(c, r, step)
  PROVE  \A d \in Callers : StillSaving(d)
  BY DEF RecordTypes, RequestTypes, StillSaving, Continue, Start

LEMMA ExcusedSaving ==
  ASSUME RecordTypes, task' = Excuse(task),
         \A d \in Callers : stage'[d] = "saving" => stage[d] = "saving"
  PROVE  \A d \in Callers : StillSaving(d)
  BY Excused DEF StillSaving

LEMMA StoredQuietly ==
  ASSUME Stored, \A d \in Callers : StillSaving(d), UNCHANGED <<linked, recordings, answered>>
  PROVE  Stored'
  BY DEF Stored, Saved, StillSaving, AnsweredIsRecorded

LEMMA UnlinkingForgets ==
  ASSUME RecordTypes, Stored, NEW x \in Meetings, Unlink(x) \/ RemoveClass(x)
  PROVE  Stored'
  <1>1. linked' = linked \ {x} /\ UNCHANGED <<answered, stage, task>>
    BY DEF Unlink, RemoveClass, atZoom
  <1>2. \A y \in linked' : recordings'[y] = recordings[y]
    BY <1>1 DEF Unlink, RemoveClass, RecordTypes, TableTypes
  <1>3. \A c \in Callers : Saved(c)'
    BY <1>1, <1>2 DEF Stored, Saved
  <1>4. AnsweredIsRecorded'
    BY <1>1, <1>2 DEF Stored, AnsweredIsRecorded
  <1>. QED  BY <1>3, <1>4 DEF Stored

LEMMA AnnouncedIsStored ==
  ASSUME RecordTypes, Stored, NEW c \in Callers, NEW x \in Meetings, RecordingCompleted(c, x)
  PROVE  Stored'
  <1>1. UNCHANGED <<linked, recordings>>
    BY DEF RecordingCompleted, tables
  <1>2. CASE x \in linked
    <2>1. Start(c, Task("webhook", x), "saving") /\ UNCHANGED answered
      BY <1>2 DEF RecordingCompleted
    <2>2. Task("webhook", x).todo = Files
      BY DEF Task
    <2>3. ASSUME NEW d \in Callers  PROVE  Saved(d)'
      <3>1. CASE d = c
        <4>1. task'[d].todo = Files
          BY <2>1, <2>2, <3>1 DEF RecordTypes, RequestTypes, Start
        <4>. QED  BY <4>1 DEF Saved, Files, Kept
      <3>2. CASE d # c
        BY <1>1, <2>1, <3>2 DEF RecordTypes, RequestTypes, Start, Stored, Saved
      <3>. QED  BY <3>1, <3>2
    <2>. QED  BY <1>1, <2>1, <2>3 DEF Stored, AnsweredIsRecorded
  <1>3. CASE x \notin linked
    <2>1. answered' = answered \cup {x} /\ UNCHANGED <<stage, task>>
      BY <1>3 DEF RecordingCompleted
    <2>. QED  BY <1>1, <1>3, <2>1 DEF Stored, Saved, AnsweredIsRecorded
  <1>. QED  BY <1>2, <1>3

LEMMA SavingStores ==
  ASSUME RecordTypes, RecordTypes', Stored, NEW c \in Callers, SaveRecording(c)
  PROVE  Stored'
  <1> DEFINE r == task[c]
             x == r.class
  <1>0. stage[c] = "saving" /\ x \in Meetings /\ r \in Tasks /\ r.todo \subseteq Files
    BY Held DEF SaveRecording
  <1>1. PICK f \in r.todo :
          /\ recordings' = IF f \in Kept
                           THEN [recordings EXCEPT ![x] = @ \cup {f}] ELSE recordings
          /\ IF r.todo # {f}
             THEN Continue(c, [r EXCEPT !.todo = @ \ {f}], "saving") /\ UNCHANGED answered
             ELSE GoOn(c, "idle") /\ answered' = answered \cup {x}
    BY DEF SaveRecording
  <1>2. linked' = linked
    BY DEF SaveRecording
  <1>3. /\ \A y \in Meetings : /\ recordings[y] \subseteq recordings'[y]
                              /\ recordings'[y] \subseteq Kept
        /\ f \in Kept => f \in recordings'[x]
    <2>1. recordings \in [Meetings -> SUBSET Kept] /\ recordings' \in [Meetings -> SUBSET Kept]
      BY DEF RecordTypes, TableTypes
    <2>2. CASE f \in Kept
      BY <1>0, <1>1, <2>1, <2>2
    <2>3. CASE f \notin Kept
      BY <1>0, <1>1, <2>1, <2>3
    <2>. QED  BY <2>2, <2>3
  <1>4. x \in linked => Kept \ r.todo \subseteq recordings[x]
    BY <1>0 DEF Stored, Saved
  <1>5. ASSUME NEW d \in Callers  PROVE  Saved(d)'
    <2>1. CASE d # c
      <3>1. stage'[d] = stage[d] /\ task'[d] = task[d]
        BY <1>1, <2>1 DEF RecordTypes, RequestTypes, Continue, GoOn
      <3>2. stage[d] = "saving" => task[d].class \in Meetings
        BY Held
      <3>. QED  BY <1>2, <1>3, <3>1, <3>2 DEF Stored, Saved
    <2>2. CASE d = c /\ r.todo # {f}
      <3>1. task'[d] = [r EXCEPT !.todo = @ \ {f}]
        BY <1>1, <2>2 DEF RecordTypes, RequestTypes, Continue
      <3>2. task'[d].class = x /\ task'[d].todo = r.todo \ {f}
        BY <1>0, <3>1 DEF Tasks
      <3>. QED  BY <1>0, <1>2, <1>3, <1>4, <3>2 DEF Saved
    <2>3. CASE d = c /\ r.todo = {f}
      BY <1>1, <2>3 DEF RecordTypes, RequestTypes, GoOn, Continue, Saved
    <2>. QED  BY <2>1, <2>2, <2>3
  <1>6. ASSUME NEW y \in answered' \cap linked'  PROVE  recordings'[y] = Kept
    <2>1. y \in Meetings
      BY DEF RecordTypes, TableTypes
    <2>2. CASE y \in answered
      BY <1>2, <1>3, <2>1, <2>2 DEF Stored, AnsweredIsRecorded
    <2>3. CASE y \notin answered
      <3>1. y = x /\ r.todo = {f}
        BY <1>1, <2>3
      <3>2. Kept \ {f} \subseteq recordings[x]
        BY <1>2, <1>4, <3>1
      <3>3. Kept \subseteq recordings'[x] /\ recordings'[x] \subseteq Kept
        BY <1>0, <1>3, <3>2
      <3>. QED  BY <3>1, <3>3
    <2>. QED  BY <2>2, <2>3
  <1>. QED  BY <1>5, <1>6 DEF Stored, AnsweredIsRecorded

LEMMA NextStored ==
  ASSUME RecordTypes, RecordTypes', Stored, [RecNext]_recVars
  PROVE  Stored'
  <1>1. CASE Revoke
    BY <1>1, ExcusedSaving, StoredQuietly DEF Revoke, tables
  <1>2. CASE Outdate \/ Restart \/ UNCHANGED recVars
    <2>1. /\ \A d \in Callers : StillSaving(d)
          /\ UNCHANGED <<linked, recordings, answered>>
      BY <1>2 DEF Outdate, Restart, recVars, tables, atZoom, recHistory, StillSaving
    <2>. QED  BY <2>1, StoredQuietly
  <1>3. ASSUME NEW x \in Meetings, Unlink(x) \/ RemoveClass(x)  PROVE  Stored'
    BY <1>3, UnlinkingForgets
  <1>4. ASSUME NEW x \in Meetings, NEW who \in People, Attend(x, who)  PROVE  Stored'
    <2>1. /\ \A d \in Callers : StillSaving(d)
          /\ UNCHANGED <<linked, recordings, answered>>
      BY <1>4 DEF Attend, tables, StillSaving
    <2>. QED  BY <2>1, StoredQuietly
  <1>5. ASSUME NEW c \in Callers, Handle(c)  PROVE  Stored'
    <2>1. ASSUME NEW x \in Meetings, SyncParticipants(c, x) \/ CallZoom(c, x)
          PROVE  Stored'
      <3>1. \E r : Start(c, r, "token")
        BY <2>1 DEF SyncParticipants, CallZoom
      <3>2. \A d \in Callers : StillSaving(d)
        BY <3>1, NotSaving DEF Steps
      <3>. QED  BY <2>1, <3>2, StoredQuietly DEF SyncParticipants, CallZoom, tables, atZoom
    <2>2. ASSUME NEW x \in Meetings, RecordingCompleted(c, x)  PROVE  Stored'
      BY <2>2, AnnouncedIsStored
    <2>3. CASE CacheToken(c)
      <3>1. \A d \in Callers : stage'[d] = "saving" => stage[d] = "saving"
        BY <2>3 DEF CacheToken, RecordTypes, RequestTypes
      <3>2. \A d \in Callers : StillSaving(d)
        <4>1. CASE task' = task
          BY <3>1, <4>1 DEF StillSaving
        <4>2. CASE task' = Excuse(task)
          BY <3>1, <4>2, ExcusedSaving
        <4>. QED  BY <2>3, <4>1, <4>2 DEF CacheToken
      <3>. QED  BY <2>3, <3>2, StoredQuietly DEF CacheToken, tables, atZoom
    <2>4. CASE \/ GetAccessToken(c) \/ Refused(c) \/ CallServed(c) \/ FetchPage(c)
               \/ ReplaceParticipants(c) \/ RecFail(c)
      <3>1. \E r, step : step \in Steps \ {"saving"} /\ Continue(c, r, step)
        <4>1. CASE GetAccessToken(c)
          BY <4>1 DEF GetAccessToken, Steps
        <4>2. CASE Refused(c)
          BY <4>2 DEF Refused, GoOn, Steps
        <4>3. CASE CallServed(c) \/ ReplaceParticipants(c) \/ RecFail(c)
          BY <4>3 DEF CallServed, ReplaceParticipants, RecFail, GoOn, Steps
        <4>4. CASE FetchPage(c)
          <5>1. PICK q, n : Continue(c, q, IF n + 1 < Len(report[task[c].class])
                                             THEN "token" ELSE "replacing")
            BY <4>4 DEF FetchPage
          <5>. QED  BY <5>1 DEF Steps
        <4>. QED  BY <2>4, <4>1, <4>2, <4>3, <4>4
      <3>2. \A d \in Callers : StillSaving(d)
        BY <3>1, NotSaving
      <3>3. UNCHANGED <<linked, recordings, answered>>
        BY <2>4 DEF GetAccessToken, Refused, CallServed, FetchPage,
                    ReplaceParticipants, RecFail, tables, atZoom
      <3>. QED  BY <3>2, <3>3, StoredQuietly
    <2>5. CASE SaveRecording(c)
      BY <2>5, SavingStores
    <2>. QED  BY <1>5, <2>1, <2>2, <2>3, <2>4, <2>5 DEF Handle
  <1>. QED  BY <1>1, <1>2, <1>3, <1>4, <1>5 DEF RecNext, World

-----------------------------------------------------------------------------
(* Reports: what a synchronisation has read so far is the head of the report. *)
StillSyncing(c) ==
  /\ task'[c].op = "sync" =>
       task[c].op = "sync" /\ task'[c].class = task[c].class /\ task'[c].got = task[c].got
  /\ stage'[c] = "replacing" => stage[c] = "replacing" /\ task'[c].op = "sync"

LEMMA NotSyncing ==
  ASSUME RecordTypes, Reported, NEW c \in Callers, NEW r, NEW step \in Steps \ {"replacing"},
         \/ Start(c, r, step) /\ r.op # "sync"
         \/ Continue(c, r, step) /\ step = "idle"
         \/ /\ Continue(c, r, step)
            /\ r.op = task[c].op /\ r.class = task[c].class /\ r.got = task[c].got
  PROVE  \A d \in Callers : StillSyncing(d)
  <1>1. ASSUME NEW d \in Callers, d # c  PROVE  stage'[d] = stage[d] /\ task'[d] = task[d]
    BY <1>1 DEF RecordTypes, RequestTypes, Continue, Start
  <1>2. stage'[c] # "replacing"
    BY DEF RecordTypes, RequestTypes, Continue, Start
  <1>3. \/ task'[c] = r /\ r.op # "sync"
        \/ task'[c] = NoTask
        \/ task'[c] = r /\ r.op = task[c].op /\ r.class = task[c].class /\ r.got = task[c].got
    BY DEF RecordTypes, RequestTypes, Continue, Start
  <1>4. NoTask.op # "sync"
    BY DEF NoTask
  <1>5. task'[c].op = "sync" =>
          task[c].op = "sync" /\ task'[c].class = task[c].class /\ task'[c].got = task[c].got
    BY <1>3, <1>4
  <1>6. StillSyncing(c)
    BY <1>2, <1>5 DEF StillSyncing
  <1>7. ASSUME NEW d \in Callers, d # c  PROVE  StillSyncing(d)
    <2>1. stage[d] = "replacing" => task[d].op = "sync"
      BY DEF Reported, Collects
    <2>. QED  BY <1>1, <1>7, <2>1 DEF StillSyncing
  <1>. QED  BY <1>6, <1>7

LEMMA ExcusedSyncing ==
  ASSUME RecordTypes, Reported, task' = Excuse(task),
         \A d \in Callers : stage'[d] = "replacing" => stage[d] = "replacing"
  PROVE  \A d \in Callers : StillSyncing(d)
  <1> SUFFICES ASSUME NEW d \in Callers  PROVE  StillSyncing(d)
    OBVIOUS
  <1>1. CASE stage[d] = "idle"
    BY <1>1, Excused DEF StillSyncing, NoTask
  <1>2. CASE stage[d] # "idle"
    <2>1. task'[d].op = task[d].op /\ task'[d].class = task[d].class /\ task'[d].got = task[d].got
      BY <1>2, Excused
    <2>. QED  BY <2>1 DEF StillSyncing, Reported, Collects
  <1>. QED  BY <1>1, <1>2

LEMMA ReportedQuietly ==
  ASSUME RecordTypes', Reported, \A d \in Callers : StillSyncing(d),
         UNCHANGED <<invited, attendance, report, synced, crossed>>, exists' \subseteq exists
  PROVE  Reported'
  <1>1. \A c \in Callers : Collects(c)'
    BY DEF Reported, Collects, StillSyncing
  <1>2. OneAtATime'
    BY DEF Reported, OneAtATime, StillSyncing, Syncing
  <1>3. AttendanceIsAReport'
    BY DEF Reported, AttendanceIsAReport
  <1>. QED  BY <1>1, <1>2, <1>3 DEF Reported

LEMMA RemovedIsNoReport ==
  ASSUME RecordTypes, Reported, NEW x \in Meetings, RemoveClass(x)
  PROVE  Reported'
  <1>1. exists' = exists \ {x} /\ invited' = invited \ {x} /\ UNCHANGED <<report, synced, crossed, stage, task>>
    BY DEF RemoveClass, atZoom, recHistory
  <1>2. \A y \in exists' : attendance'[y] = attendance[y]
    BY <1>1 DEF RemoveClass, RecordTypes, TableTypes
  <1>3. \A c \in Callers : Collects(c)'
    BY <1>1 DEF Reported, Collects
  <1>4. OneAtATime'
    BY <1>1 DEF Reported, OneAtATime, Syncing
  <1>5. AttendanceIsAReport'
    BY <1>1, <1>2 DEF Reported, AttendanceIsAReport
  <1>. QED  BY <1>3, <1>4, <1>5 DEF Reported

LEMMA AttendingKeepsReports ==
  ASSUME RecordTypes, Reported, NEW x \in Meetings, NEW who \in People, Attend(x, who)
  PROVE  Reported'
  <1>1. UNCHANGED <<exists, invited, attendance, synced, crossed, stage, task>>
    BY DEF Attend, tables, recHistory
  <1>2. ASSUME NEW y \in Meetings, NEW s \in Seq(People), Lists!IsPrefix(s, report[y])
        PROVE  Lists!IsPrefix(s, report'[y])
    <2>1. report[y] \in Seq(People)
      BY DEF RecordTypes, TableTypes
    <2>2. report'[y] = report[y] \/ report'[y] = Append(report[y], who)
      BY DEF Attend, RecordTypes, TableTypes
    <2>. QED  BY <1>2, <2>1, <2>2, PrefixGrows
  <1>3. ASSUME NEW c \in Callers  PROVE  Collects(c)'
    <2>1. task[c].op = "sync" => task[c].got \in Seq(People) /\ task[c].class \in Meetings
      <3>1. task[c].op = "sync" => stage[c] # "idle"
        BY Idle
      <3>. QED  BY <3>1, Held
    <2>. QED  BY <1>1, <1>2, <2>1 DEF Reported, Collects
  <1>4. OneAtATime'
    BY <1>1 DEF Reported, OneAtATime, Syncing
  <1>5. AttendanceIsAReport'
    <2>1. \A y \in exists : y \in Meetings /\ attendance[y] \in Seq(People)
      BY DEF RecordTypes, TableTypes
    <2>. QED  BY <1>1, <1>2, <2>1 DEF Reported, AttendanceIsAReport
  <1>. QED  BY <1>3, <1>4, <1>5 DEF Reported

LEMMA NothingReadYet ==
  ASSUME RecordTypes, Reported, NEW c \in Callers, NEW x \in Meetings, SyncParticipants(c, x)
  PROVE  Reported'
  <1>1. /\ UNCHANGED <<exists, invited, attendance, report, synced>> /\ crossed \subseteq crossed'
        /\ \A d \in Callers : Syncing(d, x) => x \in crossed'
    BY DEF SyncParticipants, tables, atZoom
  <1>2. \A d \in Callers \ {c} : stage'[d] = stage[d] /\ task'[d] = task[d]
    BY DEF SyncParticipants, Start, RecordTypes, RequestTypes
  <1>3. stage'[c] = "token" /\ task'[c] = Task("sync", x)
    BY DEF SyncParticipants, Start, RecordTypes, RequestTypes
  <1>4. task'[c].class = x /\ task'[c].got = <<>>
    BY <1>3 DEF Task
  <1>5. ASSUME NEW d \in Callers  PROVE  Collects(d)'
    <2>1. CASE d = c
      <3>1. report[x] \in Seq(People)
        BY DEF RecordTypes, TableTypes
      <3>2. Lists!IsPrefix(<<>>, report[x])
        BY <3>1, PrefixEmpty
      <3>. QED  BY <1>1, <1>3, <1>4, <2>1, <3>2 DEF Collects
    <2>2. CASE d # c
      BY <1>1, <1>2, <2>2 DEF Reported, Collects
    <2>. QED  BY <2>1, <2>2
  <1>6. OneAtATime'
    BY <1>1, <1>2, <1>4 DEF Reported, OneAtATime, Syncing
  <1>7. AttendanceIsAReport'
    BY <1>1 DEF Reported, AttendanceIsAReport
  <1>. QED  BY <1>5, <1>6, <1>7 DEF Reported

(* The last page is fetched when as much has been read as the report has by  *)
(* then, which is no less than the attendance stored.                       *)
LEMMA FetchedIsHead ==
  ASSUME RecordTypes, Reported, NEW c \in Callers, FetchPage(c)
  PROVE  Reported'
  <1> DEFINE r == task[c]
             x == r.class
             n == Len(r.got)
             page == IF n < Len(report[x]) THEN <<report[x][n + 1]>> ELSE <<>>
             got == r.got \o page
             q == [r EXCEPT !.got = got, !.retry = TRUE, !.excuse = FALSE]
             step == IF n + 1 < Len(report[x]) THEN "token" ELSE "replacing"
  <1>0. /\ stage[c] = "sending" /\ r \in Tasks /\ r.op = "sync" /\ x \in Meetings
        /\ r.got \in Seq(People) /\ report[x] \in Seq(People) /\ Lists!IsPrefix(r.got, report[x])
    <2>1. stage[c] = "sending" /\ r.op = "sync"
      BY DEF FetchPage, Served
    <2>2. r \in Tasks /\ x \in Meetings /\ r.got \in Seq(People)
      BY <2>1, Held
    <2>. QED  BY <2>1, <2>2 DEF RecordTypes, TableTypes, Reported, Collects
  <1>1. UNCHANGED <<exists, invited, attendance, report, synced, crossed>>
    BY DEF FetchPage, tables, atZoom, recHistory
  <1>2. Continue(c, q, step)
    BY DEF FetchPage, Collected
  <1>3. Lists!IsPrefix(got, report[x]) /\ (step = "replacing" => Len(got) >= Len(report[x]))
    <2>1. CASE n < Len(report[x])
      <3>1. Len(got) = n + 1 /\ Lists!IsPrefix(got, report[x])
        BY <1>0, <2>1, PrefixCollects
      <3>. HIDE DEF got
      <3>2. Len(report[x]) \in Nat /\ n \in Nat
        BY <1>0
      <3>. QED  BY <3>1, <3>2
    <2>2. CASE ~ n < Len(report[x])
      <3>1. got = r.got
        BY <1>0, <2>2
      <3>. QED  BY <1>0, <2>2, <3>1
    <2>. QED  BY <2>1, <2>2
  <1>4. q.op = "sync" /\ q.class = x /\ q.got = got
    BY <1>0 DEF Tasks
  <1>. HIDE DEF q, got
  <1>5. task'[c] = q /\ stage'[c] = step
    BY <1>2 DEF Continue, RecordTypes, RequestTypes
  <1>6. \A d \in Callers \ {c} : stage'[d] = stage[d] /\ task'[d] = task[d]
    BY <1>2 DEF Continue, RecordTypes, RequestTypes
  <1>7. step = "replacing" /\ x \in exists /\ x \notin crossed => synced[x] <= Len(got)
    <2>1. ASSUME x \in exists, x \notin crossed, step = "replacing"
          PROVE  synced[x] <= Len(got)
      <3>1. synced[x] = Len(attendance[x]) /\ Lists!IsPrefix(attendance[x], report[x])
        BY <2>1 DEF Reported, AttendanceIsAReport
      <3>2. attendance[x] \in Seq(People)
        BY <1>0 DEF RecordTypes, TableTypes
      <3>3. Len(attendance[x]) <= Len(report[x])
        BY <1>0, <3>1, <3>2, PrefixIs
      <3>4. got \in Seq(People)
        <4>1. page \in Seq(People)
          BY <1>0
        <4>. QED  BY <1>0, <4>1 DEF got
      <3>5. Len(got) \in Nat /\ Len(report[x]) \in Nat /\ Len(attendance[x]) \in Nat
        BY <1>0, <3>2, <3>4
      <3>. QED  BY <1>3, <2>1, <3>1, <3>3, <3>5
    <2>. QED  BY <2>1
  <1>8. ASSUME NEW d \in Callers  PROVE  Collects(d)'
    <2>1. CASE d = c
      <3>1. /\ task'[d].op = "sync" /\ task'[d].class = x /\ task'[d].got = got
            /\ stage'[d] = "replacing" => step = "replacing"
        BY <1>4, <1>5, <2>1
      <3>. HIDE DEF x, step
      <3>. QED  BY <1>1, <1>3, <1>7, <3>1 DEF Collects
    <2>2. CASE d # c
      BY <1>1, <1>6, <2>2 DEF Reported, Collects
    <2>. QED  BY <2>1, <2>2
  <1>9. OneAtATime'
    <2>1. \A d \in Callers, y \in Meetings : Syncing(d, y)' => Syncing(d, y)
      BY <1>0, <1>4, <1>5, <1>6 DEF Syncing
    <2>. QED  BY <1>1, <2>1 DEF Reported, OneAtATime
  <1>10. AttendanceIsAReport'
    BY <1>1 DEF Reported, AttendanceIsAReport
  <1>. QED  BY <1>8, <1>9, <1>10 DEF Reported

LEMMA ReplacedIsReport ==
  ASSUME RecordTypes, Reported, NEW c \in Callers, ReplaceParticipants(c)
  PROVE  Reported'
  <1> DEFINE r == task[c]
             x == r.class
             n == Len(r.got)
  <1>0. /\ stage[c] = "replacing" /\ r.op = "sync" /\ x \in Meetings
        /\ r.got \in Seq(People) /\ n \in Nat /\ Lists!IsPrefix(r.got, report[x])
        /\ x \in crossed \/ x \notin exists \/ synced[x] <= n
    <2>1. stage[c] = "replacing"
      BY DEF ReplaceParticipants
    <2>2. x \in Meetings /\ r.got \in Seq(People)
      BY <2>1, Held
    <2>. QED  BY <2>1, <2>2 DEF Reported, Collects
  <1>1. UNCHANGED <<exists, report, crossed>>
    BY DEF ReplaceParticipants, atZoom
  <1>2. stage'[c] = "idle" /\ task'[c] = NoTask
    BY DEF ReplaceParticipants, GoOn, Continue, RecordTypes, RequestTypes
  <1>3. \A d \in Callers \ {c} : stage'[d] = stage[d] /\ task'[d] = task[d]
    BY DEF ReplaceParticipants, GoOn, Continue, RecordTypes, RequestTypes
  <1>4. /\ attendance \in [Meetings -> Seq(People)] /\ synced \in [Meetings -> Nat]
        /\ exists \subseteq Meetings
    BY DEF RecordTypes, TableTypes
  <1>5. \A y \in Meetings \ {x} : attendance'[y] = attendance[y] /\ synced'[y] = synced[y]
    BY <1>4 DEF ReplaceParticipants
  <1>5a. invited' \subseteq invited
    BY DEF ReplaceParticipants
  <1>6. \/ UNCHANGED <<invited, attendance, synced>>
        \/ /\ Distinct(r.got) /\ x \notin invited'
           /\ attendance'[x] = r.got /\ synced'[x] = IF n > synced[x] THEN n ELSE synced[x]
    BY <1>0, <1>4 DEF ReplaceParticipants
  <1>7. ASSUME NEW d \in Callers  PROVE  Collects(d)'
    <2>1. CASE d = c
      BY <1>2, <2>1 DEF Collects, NoTask
    <2>2. CASE d # c
      <3>1. stage[d] = "replacing" => /\ task[d].op = "sync" /\ task[d].class \in Meetings
        BY Held DEF Reported, Collects
      <3>2. stage[d] = "replacing" /\ task[d].class = x => x \in crossed
        BY <1>0, <2>2, <3>1 DEF Reported, OneAtATime, Syncing
      <3>. HIDE DEF x
      <3>. QED  BY <1>1, <1>3, <1>5, <2>2, <3>1, <3>2 DEF Reported, Collects
    <2>. QED  BY <2>1, <2>2
  <1>8. OneAtATime'
    <2>1. \A d \in Callers, y \in Meetings : Syncing(d, y)' => Syncing(d, y)
      BY <1>2, <1>3 DEF Syncing, NoTask
    <2>. QED  BY <1>1, <2>1 DEF Reported, OneAtATime
  <1>9. ASSUME NEW y \in exists'
        PROVE  /\ y \in invited' => attendance'[y] = <<>> /\ synced'[y] = 0
               /\ Lists!IsPrefix(attendance'[y], report'[y]) /\ Distinct(attendance'[y])
               /\ Len(attendance'[y]) = synced'[y] \/ y \in crossed'
    <2>1. /\ y \in Meetings
          /\ y \in invited => attendance[y] = <<>> /\ synced[y] = 0
          /\ Lists!IsPrefix(attendance[y], report[y]) /\ Distinct(attendance[y])
          /\ Len(attendance[y]) = synced[y] \/ y \in crossed
      BY <1>1, <1>4 DEF Reported, AttendanceIsAReport
    <2>2. CASE y # x \/ UNCHANGED <<invited, attendance, synced>>
      <3>1. /\ attendance'[y] = attendance[y] /\ synced'[y] = synced[y]
            /\ y \in invited' => y \in invited
        BY <1>5, <1>5a, <2>1, <2>2
      <3>. QED  BY <1>1, <2>1, <3>1
    <2>3. CASE y = x /\ ~ UNCHANGED <<invited, attendance, synced>>
      <3>1. /\ Distinct(r.got) /\ attendance'[y] = r.got /\ y \notin invited'
            /\ synced'[y] = IF n > synced[x] THEN n ELSE synced[x]
        BY <1>6, <2>3
      <3>2. synced[x] \in Nat
        BY <1>0, <1>4
      <3>3. synced'[y] = n \/ y \in crossed
        BY <1>0, <1>1, <2>3, <3>1, <3>2
      <3>. QED  BY <1>0, <1>1, <2>3, <3>1, <3>3
    <2>. QED  BY <2>2, <2>3
  <1>. QED  BY <1>7, <1>8, <1>9 DEF Reported, AttendanceIsAReport

LEMMA NextReported ==
  ASSUME RecordTypes, RecordTypes', Reported, [RecNext]_recVars
  PROVE  Reported'
  <1>1. CASE Revoke
    <2>1. \A d \in Callers : StillSyncing(d)
      BY <1>1, ExcusedSyncing DEF Revoke
    <2>. QED  BY <1>1, <2>1, ReportedQuietly DEF Revoke, tables, recHistory
  <1>2. CASE Outdate \/ Restart \/ UNCHANGED recVars \/ \E x \in Meetings : Unlink(x)
    <2>1. UNCHANGED <<exists, invited, attendance, report, synced, crossed>>
      BY <1>2 DEF Outdate, Restart, Unlink, recVars, tables, atZoom, recHistory
    <2>2. \/ UNCHANGED <<stage, task>>
          \/ \A d \in Callers : stage'[d] = "idle" /\ task'[d] = NoTask
      BY <1>2 DEF Outdate, Restart, Unlink, recVars
    <2>3. \A d \in Callers : StillSyncing(d)
      BY <2>2 DEF StillSyncing, NoTask, Reported, Collects
    <2>. QED  BY <2>1, <2>3, ReportedQuietly
  <1>3. ASSUME NEW x \in Meetings, RemoveClass(x)  PROVE  Reported'
    BY <1>3, RemovedIsNoReport
  <1>4. ASSUME NEW x \in Meetings, NEW who \in People, Attend(x, who)  PROVE  Reported'
    BY <1>4, AttendingKeepsReports
  <1>5. ASSUME NEW c \in Callers, Handle(c)  PROVE  Reported'
    <2>1. ASSUME NEW x \in Meetings, SyncParticipants(c, x)  PROVE  Reported'
      BY <2>1, NothingReadYet
    <2>2. ASSUME NEW x \in Meetings, CallZoom(c, x) \/ RecordingCompleted(c, x)
          PROVE  Reported'
      <3>1. UNCHANGED <<exists, invited, attendance, report, synced, crossed>>
        BY <2>2 DEF CallZoom, RecordingCompleted, tables, atZoom, recHistory
      <3>2. \/ UNCHANGED <<stage, task>>
            \/ \E op \in {"call", "webhook"}, step \in {"token", "saving"} :
                 Start(c, Task(op, x), step)
        BY <2>2 DEF CallZoom, RecordingCompleted
      <3>3. \A d \in Callers : StillSyncing(d)
        <4>1. CASE UNCHANGED <<stage, task>>
          BY <4>1 DEF StillSyncing, Reported, Collects
        <4>2. ASSUME NEW op \in {"call", "webhook"}, NEW step \in {"token", "saving"},
                     Start(c, Task(op, x), step)
              PROVE  \A d \in Callers : StillSyncing(d)
          <5>1. Task(op, x).op # "sync"
            BY DEF Task
          <5>. QED  BY <4>2, <5>1, NotSyncing DEF Steps
        <4>. QED  BY <3>2, <4>1, <4>2
      <3>. QED  BY <3>1, <3>3, ReportedQuietly
    <2>3. CASE CacheToken(c)
      <3>1. \A d \in Callers : stage'[d] = "replacing" => stage[d] = "replacing"
        BY <2>3 DEF CacheToken, RecordTypes, RequestTypes
      <3>2. \A d \in Callers : StillSyncing(d)
        <4>1. CASE task' = task
          BY <3>1, <4>1 DEF StillSyncing, Reported, Collects
        <4>2. CASE task' = Excuse(task)
          BY <3>1, <4>2, ExcusedSyncing
        <4>. QED  BY <2>3, <4>1, <4>2 DEF CacheToken
      <3>. QED  BY <2>3, <3>2, ReportedQuietly DEF CacheToken, tables, atZoom, recHistory
    <2>4. CASE \/ GetAccessToken(c) \/ Refused(c) \/ CallServed(c)
               \/ SaveRecording(c) \/ RecFail(c)
      <3>0. stage[c] # "idle"
        BY <2>4 DEF GetAccessToken, Refused, CallServed, Served, SaveRecording, RecFail
      <3>1. task[c] \in Tasks
        BY <3>0, Held
      <3>2. \/ Continue(c, task[c], "idle")
            \/ \E q, step : /\ step \in Steps \ {"replacing"} /\ Continue(c, q, step)
                             /\ q.op = task[c].op /\ q.class = task[c].class /\ q.got = task[c].got
        <4>1. CASE GetAccessToken(c)
          <5>1. \/ Continue(c, [task[c] EXCEPT !.token = cache], "sending")
                \/ Continue(c, [task[c] EXCEPT !.token = issued + 1], "caching")
            BY <4>1 DEF GetAccessToken
          <5>. QED  BY <3>1, <5>1 DEF Tasks, Steps
        <4>2. CASE Refused(c)
          <5>1. \/ Continue(c, [task[c] EXCEPT !.retry = FALSE], "token")
                \/ Continue(c, task[c], "idle")
            BY <4>2 DEF Refused, GoOn
          <5>. QED  BY <3>1, <5>1 DEF Tasks, Steps
        <4>3. CASE CallServed(c) \/ RecFail(c)
          BY <4>3 DEF CallServed, RecFail, GoOn
        <4>4. CASE SaveRecording(c)
          <5>1. \/ \E f : Continue(c, [task[c] EXCEPT !.todo = @ \ {f}], "saving")
                \/ Continue(c, task[c], "idle")
            BY <4>4 DEF SaveRecording, GoOn
          <5>2. ASSUME NEW f
                PROVE  LET q == [task[c] EXCEPT !.todo = @ \ {f}] IN
                       q.op = task[c].op /\ q.class = task[c].class /\ q.got = task[c].got
            BY <3>1 DEF Tasks
          <5>. QED  BY <5>1, <5>2 DEF Steps
        <4>. QED  BY <2>4, <4>1, <4>2, <4>3, <4>4
      <3>3. \A d \in Callers : StillSyncing(d)
        BY <3>2, NotSyncing DEF Steps
      <3>4. UNCHANGED <<exists, invited, attendance, report, synced, crossed>>
        BY <2>4 DEF GetAccessToken, Refused, CallServed, SaveRecording,
                    RecFail, tables, atZoom, recHistory
      <3>. QED  BY <3>3, <3>4, ReportedQuietly
    <2>5. CASE FetchPage(c)
      BY <2>5, FetchedIsHead
    <2>6. CASE ReplaceParticipants(c)
      BY <2>6, ReplacedIsReport
    <2>. QED  BY <1>5, <2>1, <2>2, <2>3, <2>4, <2>5, <2>6 DEF Handle
  <1>. QED  BY <1>1, <1>2, <1>3, <1>4, <1>5 DEF RecNext, World

-----------------------------------------------------------------------------
(* Tokens: at its second attempt, without an excuse, a request has a good    *)
(* token or will find one.                                                  *)
LEMMA OthersStayFresh ==
  ASSUME NEW d \in Callers, Fresh(d), stage'[d] = stage[d], task'[d] = task[d], revoked' = revoked,
         cache' = cache \/ cache' = 0 \/ cache' > revoked
  PROVE  Fresh(d)'
  BY DEF Fresh

(* A client c moves on, with the request r. *)
LEMMA MovesFresh ==
  ASSUME RecordTypes, Tokens, NEW c \in Callers, NEW r, NEW step \in Steps,
         Continue(c, r, step) \/ Start(c, r, step),
         UNCHANGED revoked, unlucky' => unlucky, cache' = cache \/ cache' = 0,
         \/ r.retry = TRUE \/ step \in {"idle", "replacing", "saving"}
         \/ step = "token" /\ cache' = 0
         \/ step \in {"sending", "caching"} /\ (r.excuse = TRUE \/ r.token > revoked)
  PROVE  Tokens'
  <1>1. ASSUME NEW d \in Callers  PROVE  Fresh(d)'
    <2>1. CASE d # c
      <3>1. stage'[d] = stage[d] /\ task'[d] = task[d]
        BY <2>1 DEF RecordTypes, RequestTypes, Continue, Start
      <3>. QED  BY <3>1, OthersStayFresh DEF Tokens
    <2>2. CASE d = c
      <3>1. stage'[d] = step /\ (step # "idle" => task'[d] = r)
        BY <2>2 DEF RecordTypes, RequestTypes, Continue, Start
      <3>. QED  BY <3>1 DEF Fresh
    <2>. QED  BY <2>1, <2>2
  <1>. QED  BY <1>1 DEF Tokens, RefusalsAreUnlucky

LEMMA ExcusedIsFresh ==
  ASSUME RecordTypes, Tokens, task' = Excuse(task), unlucky' = unlucky,
         \A d \in Callers : stage'[d] = "idle" <=> stage[d] = "idle"
  PROVE  Tokens'
  <1>1. \A d \in Callers : Fresh(d)'
    BY Excused DEF Fresh
  <1>. QED  BY <1>1 DEF Tokens, RefusalsAreUnlucky

LEMMA CachedIsFresh ==
  ASSUME RecordTypes, Tokens, NEW c \in Callers, CacheToken(c)
  PROVE  Tokens'
  <1>1. /\ stage[c] = "caching" /\ stage' = [stage EXCEPT ![c] = "sending"]
        /\ cache' = task[c].token
        /\ task' = IF task[c].token <= revoked THEN Excuse(task) ELSE task
        /\ UNCHANGED <<revoked, unlucky>>
    BY DEF CacheToken, atZoom, recHistory
  <1>2. task[c].token \in Nat /\ revoked \in Nat
    BY <1>1, Held DEF RecordTypes, TableTypes
  <1>3. stage \in [Callers -> Steps]
    BY DEF RecordTypes, RequestTypes
  <1>4. CASE task[c].token <= revoked
    <2>1. task' = Excuse(task) /\ \A d \in Callers : stage'[d] = "idle" <=> stage[d] = "idle"
      BY <1>1, <1>3, <1>4
    <2>. QED  BY <1>1, <2>1, ExcusedIsFresh
  <1>5. CASE ~ task[c].token <= revoked
    <2>1. task' = task /\ cache' > revoked
      BY <1>1, <1>2, <1>5
    <2>2. \A d \in Callers : IF d = c THEN stage'[d] = "sending" ELSE stage'[d] = stage[d]
      BY <1>1, <1>3
    <2>3. ASSUME NEW d \in Callers  PROVE  Fresh(d)'
      <3>1. CASE d # c
        BY <1>1, <2>1, <2>2, <3>1, OthersStayFresh DEF Tokens
      <3>2. CASE d = c
        BY <1>1, <2>1, <2>2, <3>2 DEF Fresh
      <3>. QED  BY <3>1, <3>2
    <2>. QED  BY <1>1, <2>3 DEF Tokens, RefusalsAreUnlucky
  <1>. QED  BY <1>4, <1>5

(* The second refusal of a request without an excuse would be of a good token. *)
LEMMA RefusedIsUnlucky ==
  ASSUME RecordTypes, Tokens, NEW c \in Callers, Refused(c)
  PROVE  Tokens'
  <1> DEFINE r == task[c]
  <1>1. /\ stage[c] = "sending" /\ r.token <= revoked /\ UNCHANGED revoked
        /\ r \in Tasks /\ r.retry \in BOOLEAN /\ r.excuse \in BOOLEAN /\ r.token \in Nat
        /\ revoked \in Nat
    <2>1. stage[c] = "sending" /\ r.token <= revoked /\ UNCHANGED revoked
      BY DEF Refused, atZoom
    <2>. QED  BY <2>1, Held DEF RecordTypes, TableTypes
  <1>2. CASE r.retry = TRUE
    <2>1. cache' = 0 /\ Continue(c, [r EXCEPT !.retry = FALSE], "token") /\ UNCHANGED unlucky
      BY <1>1, <1>2 DEF Refused
    <2>. QED  BY <1>1, <2>1, MovesFresh DEF Steps
  <1>3. CASE r.retry = FALSE
    <2>1. r.excuse = TRUE
      BY <1>1, <1>3 DEF Tokens, Fresh
    <2>2. Continue(c, r, "idle") /\ UNCHANGED cache /\ unlucky' = (unlucky \/ ~ r.excuse)
      BY <1>1, <1>3 DEF Refused, GoOn
    <2>3. unlucky' => unlucky
      BY <2>1, <2>2
    <2>. QED  BY <1>1, <2>2, <2>3, MovesFresh DEF Steps
  <1>. QED  BY <1>1, <1>2, <1>3

LEMMA TokenIsFresh ==
  ASSUME RecordTypes, Tokens, NEW c \in Callers, GetAccessToken(c)
  PROVE  Tokens'
  <1> DEFINE r == task[c]
  <1>1. stage[c] = "token" /\ r \in Tasks /\ r.retry \in BOOLEAN /\ r.excuse \in BOOLEAN
    BY Held DEF GetAccessToken
  <1>2. /\ issued \in Nat /\ revoked \in Nat /\ revoked <= issued /\ cache \in Nat
        /\ UNCHANGED <<revoked, unlucky, cache>>
    BY DEF RecordTypes, TableTypes, GetAccessToken, recHistory
  <1>3. ASSUME NEW n \in Nat, NEW step \in {"sending", "caching"},
               Continue(c, [r EXCEPT !.token = n], step),
               r.retry = FALSE /\ r.excuse = FALSE => n > revoked
        PROVE  Tokens'
    <2> DEFINE q == [r EXCEPT !.token = n]
    <2>1. q.retry = r.retry /\ q.excuse = r.excuse /\ q.token = n
      BY <1>1 DEF Tasks
    <2>2. Continue(c, q, step)
      BY <1>3
    <2>. HIDE DEF q
    <2>3. q.retry = TRUE \/ q.excuse = TRUE \/ q.token > revoked
      BY <1>1, <1>3, <2>1
    <2>. QED  BY <1>2, <2>2, <2>3, MovesFresh DEF Steps
  <1>4. CASE cache # 0
    <2>1. Continue(c, [r EXCEPT !.token = cache], "sending")
      BY <1>4 DEF GetAccessToken
    <2>2. r.retry = FALSE /\ r.excuse = FALSE => cache > revoked
      BY <1>1, <1>4 DEF Tokens, Fresh
    <2>. QED  BY <1>2, <1>3, <2>1, <2>2
  <1>5. CASE cache = 0
    <2>1. Continue(c, [r EXCEPT !.token = issued + 1], "caching")
      BY <1>5 DEF GetAccessToken
    <2>2. issued + 1 \in Nat /\ issued + 1 > revoked
      BY <1>2
    <2>. QED  BY <1>3, <2>1, <2>2
  <1>. QED  BY <1>4, <1>5

LEMMA NextTokens ==
  ASSUME RecordTypes, Tokens, [RecNext]_recVars
  PROVE  Tokens'
  <1>1. CASE Revoke
    BY <1>1, ExcusedIsFresh DEF Revoke, recHistory
  <1>2. CASE Outdate \/ Restart \/ UNCHANGED recVars
    <2>1. UNCHANGED <<revoked, unlucky>> /\ (cache' = cache \/ cache' = 0)
      BY <1>2 DEF Outdate, Restart, recVars, tables, atZoom, recHistory
    <2>2. UNCHANGED <<stage, task>> \/ \A d \in Callers : stage'[d] = "idle"
      BY <1>2 DEF Outdate, Restart, recVars
    <2>3. \A d \in Callers : Fresh(d)'
      <3>1. CASE UNCHANGED <<stage, task>>
        BY <2>1, <3>1, OthersStayFresh DEF Tokens
      <3>2. CASE \A d \in Callers : stage'[d] = "idle"
        BY <3>2 DEF Fresh
      <3>. QED  BY <2>2, <3>1, <3>2
    <2>. QED  BY <2>1, <2>3 DEF Tokens, RefusalsAreUnlucky
  <1>3. ASSUME NEW x \in Meetings,
               Unlink(x) \/ RemoveClass(x) \/ \E who \in People : Attend(x, who)
        PROVE  Tokens'
    <2>1. UNCHANGED <<stage, task, cache, revoked, unlucky>>
      BY <1>3 DEF Unlink, RemoveClass, Attend, atZoom, recHistory
    <2>. QED  BY <2>1 DEF Tokens, Fresh, RefusalsAreUnlucky
  <1>4. ASSUME NEW c \in Callers, Handle(c)  PROVE  Tokens'
    <2>1. ASSUME NEW x \in Meetings,
                 SyncParticipants(c, x) \/ CallZoom(c, x) \/ RecordingCompleted(c, x)
          PROVE  Tokens'
      <3>1. UNCHANGED <<cache, revoked, unlucky>>
        BY <2>1 DEF SyncParticipants, CallZoom, RecordingCompleted, atZoom, recHistory
      <3>2. \/ UNCHANGED <<stage, task>>
            \/ \E op, step : step \in {"token", "saving"} /\ Start(c, Task(op, x), step)
        BY <2>1 DEF SyncParticipants, CallZoom, RecordingCompleted
      <3>3. CASE UNCHANGED <<stage, task>>
        BY <3>1, <3>3 DEF Tokens, Fresh, RefusalsAreUnlucky
      <3>4. ASSUME NEW op, NEW step \in {"token", "saving"}, Start(c, Task(op, x), step)
            PROVE  Tokens'
        <4>1. Task(op, x).retry = TRUE
          BY DEF Task
        <4>. QED  BY <3>1, <3>4, <4>1, MovesFresh DEF Steps
      <3>. QED  BY <3>2, <3>3, <3>4
    <2>2. CASE GetAccessToken(c)
      BY <2>2, TokenIsFresh
    <2>3. CASE CacheToken(c)
      BY <2>3, CachedIsFresh
    <2>4. CASE Refused(c)
      BY <2>4, RefusedIsUnlucky
    <2>5. CASE CallServed(c) \/ ReplaceParticipants(c) \/ RecFail(c) \/ SaveRecording(c)
      <3>1. \E q, step : step \in {"idle", "saving"} /\ Continue(c, q, step)
        BY <2>5 DEF CallServed, ReplaceParticipants, RecFail, SaveRecording, GoOn
      <3>2. UNCHANGED <<cache, revoked, unlucky>>
        BY <2>5 DEF CallServed, ReplaceParticipants, RecFail, SaveRecording, atZoom, recHistory
      <3>. QED  BY <3>1, <3>2, MovesFresh DEF Steps
    <2>6. CASE FetchPage(c)
      <3>0. task[c] \in Tasks
        BY <2>6, Held DEF FetchPage, Served
      <3>1. PICK got, n :
              Continue(c, [task[c] EXCEPT !.got = got, !.retry = TRUE, !.excuse = FALSE],
                         IF n + 1 < Len(report[task[c].class]) THEN "token" ELSE "replacing")
        BY <2>6 DEF FetchPage
      <3>2. PICK q, step : q.retry = TRUE /\ step \in Steps /\ Continue(c, q, step)
        BY <3>0, <3>1 DEF Steps, Tasks
      <3>3. UNCHANGED <<cache, revoked, unlucky>>
        BY <2>6 DEF FetchPage, atZoom, recHistory
      <3>. QED  BY <3>2, <3>3, MovesFresh
    <2>. QED  BY <1>4, <2>1, <2>2, <2>3, <2>4, <2>5, <2>6 DEF Handle
  <1>. QED  BY <1>1, <1>2, <1>3, <1>4 DEF RecNext, World

-----------------------------------------------------------------------------
LEMMA RecordsStart == RecInit => RecordsIInv
  <1> SUFFICES ASSUME RecInit  PROVE  RecordsIInv
    OBVIOUS
  <1>1. <<>> \in Seq(People)
    OBVIOUS
  <1>2. RequestTypes
    BY DEF RecInit, RequestTypes, Steps
  <1>3. TableTypes
    <2>1. attendance \in [Meetings -> Seq(People)] /\ report \in [Meetings -> Seq(People)]
      BY <1>1 DEF RecInit
    <2>. QED  BY <2>1 DEF RecInit, TableTypes
  <1>4. Stored
    BY DEF RecInit, Stored, Saved, AnsweredIsRecorded
  <1>5. Reported
    <2>1. \A c \in Callers : stage[c] = "idle" /\ task[c].op = "none"
      BY DEF RecInit, NoTask
    <2>2. (\A c \in Callers : Collects(c)) /\ OneAtATime
      BY <2>1 DEF Collects, OneAtATime, Syncing
    <2>3. \A x \in exists : attendance[x] = <<>> /\ report[x] = <<>> /\ synced[x] = 0
      BY DEF RecInit
    <2>4. Lists!IsPrefix(<<>>, <<>>) /\ Distinct(<<>>) /\ Len(<<>>) = 0
      <3>1. Len(<<>>) = 0
        OBVIOUS
      <3>2. Distinct(<<>>)
        BY DEF Distinct
      <3>. QED  BY <1>1, <3>1, <3>2, PrefixEmpty
    <2>5. AttendanceIsAReport
      BY <2>3, <2>4 DEF AttendanceIsAReport
    <2>. QED  BY <2>2, <2>5 DEF Reported
  <1>6. Tokens
    BY DEF RecInit, Tokens, Fresh, RefusalsAreUnlucky
  <1>. QED  BY <1>2, <1>3, <1>4, <1>5, <1>6 DEF RecordsIInv, RecordTypes

LEMMA RecordsPreserved == RecordsIInv /\ [RecNext]_recVars => RecordsIInv'
  <1> SUFFICES ASSUME RecordsIInv, [RecNext]_recVars  PROVE  RecordsIInv'
    OBVIOUS
  <1>1. RecordTypes /\ Stored /\ Reported /\ Tokens
    BY DEF RecordsIInv
  <1>2. RecordTypes'
    BY <1>1, NextTypes
  <1>3. Stored' /\ Reported' /\ Tokens'
    BY <1>1, <1>2, NextStored, NextReported, NextTokens
  <1>. QED  BY <1>2, <1>3 DEF RecordsIInv

(* What the records hold, and what the requests in progress may still rely    *)
(* on, is an invariant of ClassRecords.                                     *)
THEOREM RecordsInvariance == RecSpec => []RecordsIInv
  BY RecordsStart, RecordsPreserved, PTL DEF RecSpec

(* The attendance, the recordings, the cached token and what the requests to  *)
(* Zoom hold stay within their types.                                       *)
THEOREM RecordsTyped == RecSpec => []RecTypeOK
  <1>1. RecordsIInv => RecTypeOK
    BY DEF RecordsIInv, RecordTypes, RequestTypes, TableTypes, Steps, RecTypeOK
  <1>. QED  BY <1>1, RecordsInvariance, PTL

(* The participants of a class are those it was created with, until what      *)
(* syncParticipantsFromZoom stores takes their place: Zoom's report, whole    *)
(* and never older than what it replaces, unless two synchronisations         *)
(* overlapped.                                                              *)
THEOREM AttendanceReported == RecSpec => []AttendanceIsAReport
  <1>1. RecordsIInv => AttendanceIsAReport
    BY DEF RecordsIInv, Reported
  <1>. QED  BY <1>1, RecordsInvariance, PTL

(* A recording handleZoomRecordingCompleted has acknowledged is stored, as    *)
(* long as the class names its meeting.                                     *)
THEOREM RecordingsKept == RecSpec => []AnsweredIsRecorded
  <1>1. RecordsIInv => AnsweredIsRecorded
    BY DEF RecordsIInv, Stored
  <1>. QED  BY <1>1, RecordsInvariance, PTL

(* executeRequest gives up after a second 401 only if Zoom withdrew a token    *)
(* in between, or another request cached one withdrawn before.              *)
THEOREM RefusedTwice == RecSpec => []RefusalsAreUnlucky
  <1>1. RecordsIInv => RefusalsAreUnlucky
    BY DEF RecordsIInv, Tokens
  <1>. QED  BY <1>1, RecordsInvariance, PTL
=============================================================================
