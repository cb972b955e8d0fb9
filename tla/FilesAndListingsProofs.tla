------------------------ MODULE FilesAndListingsProofs -----------------------
(* The safety of StoredFiles, for every set of users, resources and clients;  *)
(* and then of Listings, for every size of a page, of the listing and of    *)
(* what changes during a walk.                                              *)
EXTENDS StoredFiles, Listings, FiniteSetTheorems, SequenceTheorems, TLAPS

Active(c) == req[c] # None

(* A request's own file is its slot's, under a number no other request has, *)
(* and nothing named so far is of a later request.                         *)
NamesAreFresh ==
  /\ \A s \in Slots : named[s] # None => named[s].n <= begun
  /\ \A c \in Clients : Active(c) =>
       /\ req[c].new.slot = req[c].slot
       /\ req[c].new.n \in 1 .. begun
       /\ req[c].old # None => req[c].old.n <= begun
  /\ \A c, d \in Clients : Active(c) /\ Active(d) /\ c # d => req[c].new # req[d].new

(* Until its row is written, nobody else has heard of a new file. *)
UnwrittenIsUnknown ==
  \A c \in Clients : pc[c] \in {"saving", "writing"} =>
    /\ \A s \in Slots : named[s] # req[c].new
    /\ \A d \in Clients : Active(d) => req[d].old # req[c].new

(* Only a name given by hand leads to another slot's file. *)
ForeignNamesAreTyped ==
  /\ \A s \in Slots : named[s] # None => named[s].slot = s \/ named[s] \in typed
  /\ \A c \in Clients : Active(c) /\ req[c].old # None =>
       req[c].old.slot = req[c].slot \/ req[c].old \in typed

(* What is about to be deleted is named by no row, but for the exceptions of *)
(* RowsNameFiles; and what is about to be named is there.                   *)
DeletedIsUnnamed ==
  \A c \in Clients :
    /\ pc[c] = "writing" => req[c].new \in disk
    /\ pc[c] = "dropping" => \A s \in Slots :
         named[s] = req[c].old /\ named[s] # None => named[s] \in typed
    /\ pc[c] = "discarding" => \A s \in Slots :
         named[s] = req[c].new => named[s] \in typed \/ "doubted" \in why[s]

(* Where nothing is to blame, a slot has one request at most, and until that *)
(* writes the row still says what the request read.                         *)
BlamelessIsAlone ==
  \A c \in Clients : Active(c) /\ why[req[c].slot] = {} =>
    /\ \A d \in Clients : Busy(d, req[c].slot) => d = c
    /\ pc[c] \in {"saving", "writing", "deleting"} => named[req[c].slot] = req[c].old
    /\ req[c].op = "create" => req[c].old = None

(* The file is going to be named or deleted by a request for its slot. *)
InHand(f) ==
  \E c \in Clients : /\ Busy(c, f.slot)
                     /\ \/ pc[c] \in {"writing", "discarding"} /\ f = req[c].new
                        \/ pc[c] = "dropping" /\ f = req[c].old

(* Each file on disk is the business of its own slot: a stronger FilesAreOwned *)
(* that no step of another slot can disturb.                                *)
SlotsOwnTheirFiles ==
  \A f \in disk : named[f.slot] = f \/ InHand(f) \/ why[f.slot] # {}

IInv == /\ TypeOK /\ NamesAreFresh /\ UnwrittenIsUnknown /\ ForeignNamesAreTyped
        /\ DeletedIsUnnamed /\ RowsNameFiles /\ BlamelessIsAlone /\ SlotsOwnTheirFiles

-----------------------------------------------------------------------------
LEMMA InitIInv == Init => IInv
  <1>. SUFFICES ASSUME Init  PROVE IInv
    OBVIOUS
  <1>1. TypeOK
    <2>1. \A r \in Resources : r \in Slots
      BY DEF Slots
    <2>. QED  BY <2>1, StoredFilesAssumption DEF Init, TypeOK
  <1>2. NamesAreFresh /\ UnwrittenIsUnknown /\ ForeignNamesAreTyped
    BY DEF Init, NamesAreFresh, UnwrittenIsUnknown, ForeignNamesAreTyped, Active
  <1>3. DeletedIsUnnamed /\ RowsNameFiles /\ BlamelessIsAlone /\ SlotsOwnTheirFiles
    BY DEF Init, DeletedIsUnnamed, RowsNameFiles, BlamelessIsAlone, SlotsOwnTheirFiles, Active
  <1>. QED  BY <1>1, <1>2, <1>3 DEF IInv

(* A request at work has a slot, a file of its own and perhaps an old one. *)
LEMMA AtWork ==
  ASSUME IInv, NEW c \in Clients, Active(c)
  PROVE  /\ req[c] \in Requests /\ req[c].slot \in Slots
         /\ req[c].new \in Files /\ req[c].new # None /\ req[c].old \in Files \cup {None}
  BY NoneAssumption DEF IInv, TypeOK, Requests, Active

(* A blamed slot stays blamed, and no cause is ever taken back. *)
LEMMA BlameIsKept ==
  ASSUME IInv, NEW s \in Slots, NEW cause \in Causes,
         Blame(s, cause) \/ UNCHANGED why
  PROVE  /\ why' \in [Slots -> SUBSET Causes]
         /\ \A q \in Slots : why[q] \subseteq why'[q] /\ (q # s => why'[q] = why[q])
         /\ Blame(s, cause) => cause \in why'[s]
  BY DEF IInv, TypeOK, Blame

-----------------------------------------------------------------------------
(* A request that begins: its number is new, so its file is nobody's, and if *)
(* the slot has a request already this one is marked.                       *)
LEMMA AcceptPreserves ==
  ASSUME IInv, NEW c \in Clients, NEW op \in Ops, NEW s \in Slots,
         NEW step \in {"saving", "deleting"}, Accept(c, op, s, step),
         op = "create" => named[s] = None
  PROVE  IInv'
  <1>. DEFINE f == [slot |-> s, n |-> begun + 1]
              r == [op |-> op, slot |-> s, old |-> named[s], new |-> f]
  <1>1. /\ pc[c] = "idle" /\ begun < MaxRequests /\ begun' = begun + 1
        /\ pc' = [pc EXCEPT ![c] = step] /\ req' = [req EXCEPT ![c] = r]
        /\ Blame(s, "contested") \/ UNCHANGED why
        /\ (\E d \in Clients : Busy(d, s)) => Blame(s, "contested")
        /\ UNCHANGED <<users, exists, named, disk, typed>>
    BY DEF Accept, tables
  <1>2. begun \in Nat /\ begun + 1 \in 0 .. MaxRequests
    BY <1>1, StoredFilesAssumption DEF IInv, TypeOK
  <1>3. f \in Files /\ f.slot = s /\ f.n = begun + 1
    BY <1>2 DEF Files
  <1>. HIDE DEF f
  <1>4. /\ r \in Requests /\ r # None
        /\ r.op = op /\ r.slot = s /\ r.old = named[s] /\ r.new = f
    BY <1>3, NoneAssumption DEF Requests, IInv, TypeOK
  <1>. HIDE DEF r
  <1>5. /\ req'[c] = r /\ pc'[c] = step /\ ~ Active(c) /\ Active(c)'
        /\ \A d \in Clients \ {c} : req'[d] = req[d] /\ pc'[d] = pc[d]
    BY <1>1, <1>4 DEF IInv, TypeOK, Active
  <1>6. /\ why' \in [Slots -> SUBSET Causes]
        /\ \A q \in Slots : why[q] \subseteq why'[q] /\ (q # s => why'[q] = why[q])
        /\ Blame(s, "contested") => why'[s] # {}
    BY <1>1, BlameIsKept DEF Causes
  <1>7. TypeOK'
    <2>1. /\ pc' \in [Clients -> {"idle", "saving", "writing", "dropping", "refetching",
                                  "discarding", "deleting"}]
          /\ req' \in [Clients -> Requests \cup {None}]
      BY <1>1, <1>4 DEF IInv, TypeOK
    <2>2. \A d \in Clients : pc'[d] = "idle" <=> req'[d] = None
      BY <1>4, <1>5 DEF IInv, TypeOK
    <2>. QED  BY <1>1, <1>2, <1>6, <2>1, <2>2 DEF IInv, TypeOK
  <1>8. /\ \A q \in Slots : named[q] # None =>
             named[q] \in Files /\ named[q].n <= begun /\ named[q] # f
        /\ \A d \in Clients : Active(d) =>
             /\ req[d].new \in Files /\ req[d].new.n <= begun /\ req[d].new # f
             /\ req[d].old # None =>
                  req[d].old \in Files /\ req[d].old.n <= begun /\ req[d].old # f
    BY <1>2, <1>3, AtWork DEF IInv, TypeOK, NamesAreFresh
  <1>9. f # None
    BY <1>3, NoneAssumption
  <1>10. NamesAreFresh'
    <2>1. \A q \in Slots : named'[q] # None => named'[q].n <= begun'
      BY <1>1, <1>2, <1>8 DEF Files
    <2>2. ASSUME NEW d \in Clients, Active(d)'
          PROVE  /\ req'[d].new.slot = req'[d].slot
                 /\ req'[d].new.n \in 1 .. begun'
                 /\ req'[d].old # None => req'[d].old.n <= begun'
      <3>1. CASE d = c
        BY <1>1, <1>2, <1>3, <1>4, <1>5, <1>8, <3>1 DEF Files
      <3>2. CASE d # c
        <4>1. Active(d) /\ req'[d] = req[d]
          BY <1>5, <2>2, <3>2 DEF Active
        <4>2. req[d].old # None => req[d].old.n \in Nat
          BY <1>8, <4>1 DEF Files
        <4>. QED  BY <1>1, <1>2, <4>1, <4>2 DEF IInv, NamesAreFresh
      <3>. QED  BY <3>1, <3>2
    <2>3. \A d, e \in Clients : Active(d)' /\ Active(e)' /\ d # e => req'[d].new # req'[e].new
      BY <1>4, <1>5, <1>8 DEF IInv, NamesAreFresh, Active
    <2>. QED  BY <2>1, <2>2, <2>3 DEF NamesAreFresh
  <1>11. UnwrittenIsUnknown'
    <2>1. ASSUME NEW d \in Clients, pc'[d] \in {"saving", "writing"}
          PROVE  /\ \A q \in Slots : named[q] # req'[d].new
                 /\ \A e \in Clients : Active(e)' => req'[e].old # req'[d].new
      <3>1. CASE d = c
        BY <1>4, <1>5, <1>8, <1>9, <3>1 DEF Active
      <3>2. CASE d # c
        BY <1>4, <1>5, <2>1, <3>2 DEF IInv, UnwrittenIsUnknown, Active
      <3>. QED  BY <3>1, <3>2
    <2>. QED  BY <1>1, <2>1 DEF UnwrittenIsUnknown
  <1>12. ForeignNamesAreTyped'
    BY <1>1, <1>4, <1>5 DEF IInv, ForeignNamesAreTyped, Active
  <1>13. DeletedIsUnnamed' /\ RowsNameFiles'
    BY <1>1, <1>5, <1>6 DEF IInv, DeletedIsUnnamed, RowsNameFiles
  <1>14. BlamelessIsAlone'
    <2>1. ASSUME NEW d \in Clients, Active(d)', why'[req'[d].slot] = {}
          PROVE  /\ \A e \in Clients : Busy(e, req[d].slot)' => e = d
                 /\ pc'[d] \in {"saving", "writing", "deleting"} =>
                      named[req'[d].slot] = req'[d].old
                 /\ req'[d].op = "create" => req'[d].old = None
      <3>1. CASE d = c
        <4>1. \A e \in Clients : ~ Busy(e, s)
          BY <1>1, <1>4, <1>5, <1>6, <2>1, <3>1
        <4>. QED  BY <1>4, <1>5, <3>1, <4>1 DEF Busy
      <3>2. CASE d # c
        <4>1. Active(d) /\ req'[d] = req[d] /\ pc'[d] = pc[d] /\ req[d].slot \in Slots
          BY <1>5, <2>1, <3>2, AtWork DEF Active
        <4>2. why[req[d].slot] = {}
          BY <1>6, <2>1, <4>1
        <4>3. req[d].slot # s
          BY <1>1, <1>6, <2>1, <4>1 DEF Busy, Active
        <4>. QED  BY <1>4, <1>5, <4>1, <4>2, <4>3 DEF IInv, BlamelessIsAlone, Busy
      <3>. QED  BY <3>1, <3>2
    <2>. QED  BY <1>1, <2>1 DEF BlamelessIsAlone
  <1>15. SlotsOwnTheirFiles'
    <2>1. \A g \in disk : InHand(g) => InHand(g)'
      BY <1>5 DEF InHand, Busy, Active
    <2>2. \A g \in disk : g.slot \in Slots
      BY DEF IInv, TypeOK, Files
    <2>. QED  BY <1>1, <1>6, <2>1, <2>2 DEF IInv, SlotsOwnTheirFiles
  <1>. QED  BY <1>7, <1>10, <1>11, <1>12, <1>13, <1>14, <1>15 DEF IInv

-----------------------------------------------------------------------------
(* What a step of a request at work can do to the tables and to the disk. *)
MayName(c) ==
  \/ UNCHANGED tables
  \/ pc[c] = "writing" /\ Name(req[c].slot, req[c].new)
  \/ /\ pc[c] = "deleting" /\ req[c].slot \in exists /\ UNCHANGED users
     /\ exists' = exists \ {req[c].slot}
     /\ named' = [named EXCEPT ![req[c].slot] = None]
MayStore(c) ==
  \/ UNCHANGED disk
  \/ pc[c] = "saving" /\ disk' = disk \cup {req[c].new}
  \/ pc[c] = "dropping" /\ disk' = disk \ {req[c].old}
  \/ pc[c] = "discarding" /\ disk' = disk \ {req[c].new}

(* What the step owes its own slot: to name what it has written or is about *)
(* to delete, and to have every file of the slot still named or in hand.    *)
LeavesInOrder(c, step) ==
  LET r == req[c] IN
  /\ step = "writing" => pc[c] = "saving" /\ r.new \in disk' /\ UNCHANGED named
  /\ step = "dropping" => \A s \in Slots :
       named'[s] = r.old /\ named'[s] # None => named'[s] \in typed
  /\ step = "discarding" => \A s \in Slots :
       named'[s] = r.new => named'[s] \in typed \/ "doubted" \in why'[s]
  /\ why'[r.slot] = {} => \A f \in disk' : f.slot = r.slot =>
       \/ named'[r.slot] = f
       \/ step \in {"writing", "discarding"} /\ f = r.new
       \/ step = "dropping" /\ f = r.old

LEMMA GotoPreserves ==
  ASSUME IInv, NEW c \in Clients, NEW cause \in Causes, pc[c] # "idle",
         NEW step \in {"idle", "writing", "dropping", "refetching", "discarding"},
         Goto(c, step), MayName(c), MayStore(c),
         Blame(req[c].slot, cause) \/ UNCHANGED why, UNCHANGED typed,
         LeavesInOrder(c, step)
  PROVE  IInv'
  <1>. DEFINE r == req[c]
              slot == r.slot
  <1>1. /\ Active(c) /\ r \in Requests /\ slot \in Slots
        /\ r.new \in Files /\ r.new # None /\ r.old \in Files \cup {None}
    BY AtWork DEF IInv, TypeOK, Active
  <1>2. /\ pc'[c] = step /\ req' \in [Clients -> {None} \cup Requests]
        /\ pc' \in [Clients -> {"idle", "saving", "writing", "dropping", "refetching",
                                "discarding", "deleting"}]
        /\ step = "idle" => ~ Active(c)'
        /\ step # "idle" => req'[c] = r /\ Active(c)'
        /\ \A d \in Clients \ {c} : req'[d] = req[d] /\ pc'[d] = pc[d]
        /\ begun' = begun
    BY <1>1 DEF IInv, TypeOK, Goto, Active
  <1>3. /\ why' \in [Slots -> SUBSET Causes]
        /\ \A q \in Slots : why[q] \subseteq why'[q] /\ (q # slot => why'[q] = why[q])
    BY <1>1, BlameIsKept
  <1>4. /\ named' \in [Slots -> Files \cup {None}]
        /\ \A s \in Slots : \/ named'[s] = named[s]
                            \/ s = slot /\ named'[s] = None
                            \/ s = slot /\ pc[c] = "writing" /\ named'[s] = r.new
    BY <1>1 DEF MayName, tables, Name, IInv, TypeOK
  <1>5. /\ disk' \subseteq Files
        /\ \A f \in disk : f \notin disk' =>
             \/ pc[c] = "dropping" /\ f = r.old
             \/ pc[c] = "discarding" /\ f = r.new
        /\ \A f \in disk' : f \notin disk => f = r.new
    BY <1>1 DEF MayStore, IInv, TypeOK
  <1>6. TypeOK'
    <2>1. \A d \in Clients : pc'[d] = "idle" <=> req'[d] = None
      BY <1>1, <1>2 DEF IInv, TypeOK, Active
    <2>2. /\ users' \subseteq Users /\ exists' \subseteq Resources
          /\ \A q \in Resources : q \in exists' <=> named'[q] # None
      <3>1. Resources \subseteq Slots
        BY DEF Slots
      <3>2. CASE UNCHANGED tables
        BY <3>2 DEF tables, IInv, TypeOK
      <3>3. CASE Name(slot, r.new)
        BY <1>1, <3>1, <3>3 DEF Name, IInv, TypeOK
      <3>4. CASE /\ exists' = exists \ {slot} /\ UNCHANGED users
                 /\ named' = [named EXCEPT ![slot] = None]
        BY <1>1, <3>1, <3>4 DEF IInv, TypeOK
      <3>. QED  BY <3>2, <3>3, <3>4 DEF MayName
    <2>. QED  BY <1>2, <1>3, <1>4, <1>5, <2>1, <2>2 DEF IInv, TypeOK
  <1>. HIDE DEF r
  <1>7. \A d \in Clients : /\ Active(d)' => Active(d) /\ req'[d] = req[d]
                           /\ \A s \in Slots : Busy(d, s)' => Busy(d, s)
    BY <1>1, <1>2 DEF Active, Busy, r
  <1>8. NamesAreFresh'
    BY <1>1, <1>2, <1>4, <1>7 DEF IInv, NamesAreFresh, r
  <1>9. ASSUME NEW d \in Clients, d # c, Active(d)
        PROVE  /\ r.new # req[d].new
               /\ pc[c] = "writing" => r.new # req[d].old
               /\ pc[d] \in {"saving", "writing"} => r.old # req[d].new
    BY <1>1, <1>9 DEF IInv, NamesAreFresh, UnwrittenIsUnknown, r
  <1>10. UnwrittenIsUnknown'
    <2>1. ASSUME NEW d \in Clients, pc'[d] \in {"saving", "writing"}
          PROVE  /\ \A s \in Slots : named'[s] # req[d].new
                 /\ \A e \in Clients : Active(e) => req[e].old # req[d].new
                 /\ req'[d] = req[d]
      <3>1. CASE d = c
        <4>1. pc[c] = "saving" /\ UNCHANGED named
          BY <1>2, <2>1, <3>1 DEF LeavesInOrder
        <4>. QED  BY <1>2, <2>1, <3>1, <4>1 DEF IInv, UnwrittenIsUnknown, r
      <3>2. CASE d # c
        <4>1. Active(d) /\ req[d].new # None
          BY <1>2, <2>1, <3>2, AtWork DEF IInv, TypeOK, Active
        <4>. QED  BY <1>2, <1>4, <1>9, <2>1, <3>2, <4>1 DEF IInv, UnwrittenIsUnknown
      <3>. QED  BY <3>1, <3>2
    <2>. QED  BY <1>7, <2>1 DEF UnwrittenIsUnknown
  <1>11. ForeignNamesAreTyped'
    BY <1>1, <1>4, <1>7 DEF IInv, NamesAreFresh, ForeignNamesAreTyped, r
  <1>12. DeletedIsUnnamed'
    <2>1. ASSUME NEW d \in Clients, pc'[d] \in {"writing", "dropping", "discarding"}
          PROVE  /\ pc'[d] = "writing" => req'[d].new \in disk'
                 /\ pc'[d] = "dropping" => \A s \in Slots :
                      named'[s] = req'[d].old /\ named'[s] # None => named'[s] \in typed
                 /\ pc'[d] = "discarding" => \A s \in Slots :
                      named'[s] = req'[d].new => named'[s] \in typed \/ "doubted" \in why'[s]
      <3>1. CASE d = c
        BY <1>2, <2>1, <3>1 DEF LeavesInOrder, r
      <3>2. CASE d # c
        <4>1. Active(d) /\ req[d].new # None /\ req'[d] = req[d] /\ pc'[d] = pc[d]
          BY <1>2, <2>1, <3>2, AtWork DEF IInv, TypeOK, Active
        <4>2. pc[d] = "writing" => req[d].new \in disk'
          BY <1>5, <1>9, <3>2, <4>1 DEF IInv, DeletedIsUnnamed
        <4>3. pc[d] = "dropping" => \A s \in Slots :
                named'[s] = req[d].old /\ named'[s] # None => named'[s] \in typed
          BY <1>4, <1>9, <3>2, <4>1 DEF IInv, DeletedIsUnnamed
        <4>4. pc[d] = "discarding" => \A s \in Slots :
                named'[s] = req[d].new => named'[s] \in typed \/ "doubted" \in why'[s]
          BY <1>3, <1>4, <1>9, <3>2, <4>1 DEF IInv, DeletedIsUnnamed
        <4>. QED  BY <4>1, <4>2, <4>3, <4>4
      <3>. QED  BY <3>1, <3>2
    <2>. QED  BY <2>1 DEF DeletedIsUnnamed
  <1>13. RowsNameFiles'
    <2>1. ASSUME NEW s \in Slots, named'[s] # None
          PROVE  named'[s] \in disk' \/ named'[s] \in typed \/ "doubted" \in why'[s]
      <3>1. CASE named'[s] = named[s]
        BY <1>3, <1>5, <2>1, <3>1 DEF IInv, RowsNameFiles, DeletedIsUnnamed, r
      <3>2. CASE pc[c] = "writing" /\ named'[s] = r.new
        BY <1>5, <3>2 DEF IInv, DeletedIsUnnamed, r
      <3>. QED  BY <1>4, <2>1, <3>1, <3>2
    <2>. QED  BY <2>1 DEF RowsNameFiles
  <1>14. BlamelessIsAlone'
    <2>1. ASSUME NEW d \in Clients, Active(d)', why'[req[d].slot] = {}
          PROVE  /\ \A e \in Clients : Busy(e, req[d].slot) => e = d
                 /\ pc'[d] \in {"saving", "writing", "deleting"} =>
                      named'[req[d].slot] = req[d].old
                 /\ req[d].op = "create" => req[d].old = None
      <3>1. Active(d) /\ req[d].slot \in Slots /\ why[req[d].slot] = {}
        BY <1>3, <1>7, <2>1, AtWork
      <3>2. CASE d = c
        BY <1>2, <3>1, <3>2 DEF IInv, BlamelessIsAlone, LeavesInOrder
      <3>3. CASE d # c
        <4>1. req[d].slot # slot
          BY <1>1, <3>1, <3>3 DEF IInv, BlamelessIsAlone, Busy, Active, r
        <4>. QED  BY <1>2, <1>4, <3>1, <3>3, <4>1 DEF IInv, BlamelessIsAlone
      <3>. QED  BY <3>2, <3>3
    <2>2. \A d \in Clients : Active(d) => req[d].slot \in Slots
      BY AtWork
    <2>. QED  BY <1>7, <2>1, <2>2 DEF BlamelessIsAlone
  <1>15. SlotsOwnTheirFiles'
    <2>1. ASSUME NEW f \in disk', why'[f.slot] = {}  PROVE named'[f.slot] = f \/ InHand(f)'
      <3>0. f.slot \in Slots
        BY <1>5 DEF Files
      <3>1. CASE f.slot = slot
        <4>1. \/ named'[slot] = f
              \/ step \in {"writing", "discarding"} /\ f = r.new
              \/ step = "dropping" /\ f = r.old
          BY <2>1, <3>1 DEF LeavesInOrder, r
        <4>. QED  BY <1>2, <3>1, <4>1 DEF InHand, Busy, Active
      <3>2. CASE f.slot # slot
        <4>1. f \in disk /\ why[f.slot] = {} /\ named'[f.slot] = named[f.slot]
          BY <1>1, <1>3, <1>4, <1>5, <2>1, <3>0, <3>2 DEF IInv, NamesAreFresh, r
        <4>2. CASE named[f.slot] = f
          BY <4>1, <4>2
        <4>3. CASE InHand(f)
          <5>1. PICK d \in Clients : /\ Busy(d, f.slot)
                                     /\ \/ pc[d] \in {"writing", "discarding"} /\ f = req[d].new
                                        \/ pc[d] = "dropping" /\ f = req[d].old
            BY <4>3 DEF InHand
          <5>2. d # c
            BY <3>2, <5>1 DEF Busy, r
          <5>. QED  BY <1>2, <5>1, <5>2 DEF InHand, Busy
        <4>. QED  BY <4>1, <4>2, <4>3 DEF IInv, SlotsOwnTheirFiles
      <3>. QED  BY <3>1, <3>2
    <2>. QED  BY <2>1 DEF SlotsOwnTheirFiles
  <1>. QED  BY <1>6, <1>8, <1>10, <1>11, <1>12, <1>13, <1>14, <1>15 DEF IInv

(* In a slot with nothing to blame, a request at work is the only one that   *)
(* can have a file in hand.                                                 *)
LEMMA OnlyOwner ==
  ASSUME IInv, NEW c \in Clients, Active(c), why[req[c].slot] = {},
         NEW f \in disk, f.slot = req[c].slot
  PROVE  \/ named[f.slot] = f
         \/ pc[c] \in {"writing", "discarding"} /\ f = req[c].new
         \/ pc[c] = "dropping" /\ f = req[c].old
  BY DEF IInv, SlotsOwnTheirFiles, InHand, BlamelessIsAlone

-----------------------------------------------------------------------------
LEMMA SaveFilePreserves ==
  ASSUME IInv, NEW c \in Clients, SaveFile(c)  PROVE IInv'
  <1>. DEFINE r == req[c]
  <1>1. pc[c] = "saving" /\ UNCHANGED <<users, exists, named, typed>>
    BY DEF SaveFile, tables
  <1>2. Active(c) /\ r.slot \in Slots /\ r.new.slot = r.slot
    BY <1>1, AtWork DEF IInv, TypeOK, NamesAreFresh, Active
  <1>3. CASE disk' = disk \cup {r.new} /\ Goto(c, "writing") /\ UNCHANGED why
    <2>1. LeavesInOrder(c, "writing")
      BY <1>1, <1>2, <1>3, OnlyOwner DEF LeavesInOrder
    <2>. QED  BY <1>1, <1>3, <2>1, GotoPreserves DEF MayName, MayStore, Causes, tables
  <1>4. CASE UNCHANGED <<disk, why>> /\ Goto(c, "idle")
    <2>1. LeavesInOrder(c, "idle")
      BY <1>1, <1>2, <1>4, OnlyOwner DEF LeavesInOrder
    <2>. QED  BY <1>1, <1>4, <2>1, GotoPreserves DEF MayName, MayStore, Causes, tables
  <1>5. CASE disk' = disk \cup {r.new} /\ Goto(c, "idle") /\ Blame(r.slot, "unsaved")
    <2>1. "unsaved" \in Causes /\ why'[r.slot] # {}
      BY <1>2, <1>5, BlameIsKept DEF IInv, Causes
    <2>2. LeavesInOrder(c, "idle")
      BY <1>1, <1>2, <1>5, <2>1 DEF LeavesInOrder
    <2>. QED  BY <1>1, <1>5, <2>1, <2>2, GotoPreserves DEF MayName, MayStore, tables
  <1>. QED  BY <1>3, <1>4, <1>5 DEF SaveFile

(* The row that is written replaces the name the request read, or its slot   *)
(* has something to blame.                                                  *)
LEMMA WriteRowPreserves ==
  ASSUME IInv, NEW c \in Clients, WriteRow(c)  PROVE IInv'
  <1>. DEFINE r == req[c]
              then == CASE r.old # None /\ r.op # "create" -> "dropping"
                        [] r.op = "photo" /\ r.old = None -> "refetching"
                        [] OTHER -> "idle"
  <1>1. pc[c] = "writing" /\ UNCHANGED <<disk, typed>>
    BY DEF WriteRow
  <1>2. Active(c) /\ r.slot \in Slots /\ r.new.slot = r.slot /\ r.new # None
    BY <1>1, AtWork DEF IInv, TypeOK, NamesAreFresh, Active
  <1>3. /\ \A s \in Slots : named[s] # r.new
        /\ r.old # r.new
    BY <1>1, <1>2 DEF IInv, UnwrittenIsUnknown
  <1>4. CASE Name(r.slot, r.new) /\ Goto(c, then) /\ UNCHANGED why
    <2>1. /\ then \in {"idle", "dropping", "refetching"}
          /\ then # "dropping" => r.old = None \/ r.op = "create"
      <3>1. CASE r.old # None /\ r.op # "create"
        BY <3>1
      <3>2. CASE r.op = "photo" /\ r.old = None
        BY <3>2
      <3>3. CASE ~ (r.old # None /\ r.op # "create") /\ ~ (r.op = "photo" /\ r.old = None)
        BY <3>3
      <3>. QED  BY <3>1, <3>2, <3>3
    <2>. HIDE DEF then
    <2>2. named' = [named EXCEPT ![r.slot] = r.new] /\ named'[r.slot] = r.new
      BY <1>2, <1>4 DEF Name, IInv, TypeOK
    <2>3. ASSUME NEW s \in Slots, named'[s] = r.old, named'[s] # None
          PROVE  named'[s] \in typed
      BY <1>2, <1>3, <2>2, <2>3 DEF IInv, TypeOK, ForeignNamesAreTyped
    <2>4. ASSUME why[r.slot] = {}, NEW f \in disk, f.slot = r.slot
          PROVE  named'[r.slot] = f \/ (then = "dropping" /\ f = r.old)
      <3>1. named[r.slot] = f \/ f = r.new
        BY <1>1, <1>2, <2>4, OnlyOwner
      <3>2. named[r.slot] = r.old /\ (r.op = "create" => r.old = None)
        BY <1>1, <1>2, <2>4 DEF IInv, BlamelessIsAlone
      <3>3. f # None
        BY NoneAssumption DEF IInv, TypeOK
      <3>. QED  BY <2>1, <2>2, <3>1, <3>2, <3>3
    <2>5. LeavesInOrder(c, then)
      BY <1>1, <1>4, <2>1, <2>3, <2>4 DEF LeavesInOrder
    <2>. QED  BY <1>1, <1>4, <2>1, <2>5, GotoPreserves DEF MayName, MayStore, Causes
  <1>5. CASE Name(r.slot, r.new) /\ Goto(c, "discarding") /\ Blame(r.slot, "doubted")
    <2>1. "doubted" \in Causes /\ "doubted" \in why'[r.slot]
      BY <1>2, <1>5, BlameIsKept DEF Causes
    <2>2. \A s \in Slots : named'[s] = r.new => s = r.slot
      BY <1>3, <1>5 DEF Name, IInv, TypeOK
    <2>3. LeavesInOrder(c, "discarding")
      BY <1>1, <2>1, <2>2 DEF LeavesInOrder
    <2>. QED  BY <1>1, <1>5, <2>1, <2>3, GotoPreserves DEF MayName, MayStore
  <1>6. CASE UNCHANGED <<tables, why>> /\ Goto(c, "discarding")
    <2>1. LeavesInOrder(c, "discarding")
      BY <1>1, <1>2, <1>3, <1>6, OnlyOwner DEF LeavesInOrder, tables
    <2>. QED  BY <1>1, <1>6, <2>1, GotoPreserves DEF MayName, MayStore, Causes
  <1>. QED  BY <1>4, <1>5, <1>6 DEF WriteRow

LEMMA DeleteRowPreserves ==
  ASSUME IInv, NEW c \in Clients, DeleteRow(c)  PROVE IInv'
  <1>. DEFINE r == req[c]
  <1>1. pc[c] = "deleting" /\ UNCHANGED <<users, disk, typed, why>>
    BY DEF DeleteRow, history
  <1>2. Active(c) /\ r.slot \in Slots
    BY <1>1, AtWork DEF IInv, TypeOK, Active
  <1>3. why[r.slot] = {} => \A f \in disk :
          f.slot = r.slot => named[r.slot] = f /\ f = r.old
    BY <1>1, <1>2, OnlyOwner DEF IInv, BlamelessIsAlone
  <1>4. CASE /\ r.slot \in exists /\ exists' = exists \ {r.slot}
             /\ named' = [named EXCEPT ![r.slot] = None] /\ Goto(c, "dropping")
    <2>1. \A s \in Slots : named'[s] # None => s # r.slot /\ named'[s] = named[s]
      BY <1>4 DEF IInv, TypeOK
    <2>2. ASSUME NEW s \in Slots, named'[s] = r.old, named'[s] # None
          PROVE  named'[s] \in typed
      BY <1>2, <2>1, <2>2 DEF IInv, ForeignNamesAreTyped
    <2>3. LeavesInOrder(c, "dropping")
      BY <1>1, <1>3, <2>2 DEF LeavesInOrder
    <2>. QED  BY <1>1, <1>4, <2>3, GotoPreserves DEF MayName, MayStore, Causes
  <1>5. CASE UNCHANGED <<exists, named>> /\ Goto(c, "idle")
    <2>1. LeavesInOrder(c, "idle")
      BY <1>1, <1>3, <1>5 DEF LeavesInOrder
    <2>. QED  BY <1>1, <1>5, <2>1, GotoPreserves DEF MayName, MayStore, Causes, tables
  <1>. QED  BY <1>4, <1>5 DEF DeleteRow

LEMMA DropOldPreserves ==
  ASSUME IInv, NEW c \in Clients, DropOld(c)  PROVE IInv'
  <1>. DEFINE r == req[c]
              then == IF r.op = "photo" THEN "refetching" ELSE "idle"
  <1>1. /\ pc[c] = "dropping" /\ Goto(c, then) /\ UNCHANGED <<users, exists, named, typed>>
        /\ DeleteFile(r.old, r.slot)
    BY DEF DropOld, tables
  <1>2. Active(c) /\ r.slot \in Slots /\ then \in {"idle", "refetching"}
    BY <1>1, AtWork DEF IInv, TypeOK, Active
  <1>. HIDE DEF then
  <1>3. CASE disk' = disk \ {r.old} /\ UNCHANGED why
    <2>1. LeavesInOrder(c, then)
      BY <1>1, <1>2, <1>3, OnlyOwner DEF LeavesInOrder
    <2>. QED  BY <1>1, <1>2, <1>3, <2>1, GotoPreserves DEF MayName, MayStore, Causes, tables
  <1>4. CASE UNCHANGED disk /\ Blame(r.slot, "undeleted")
    <2>1. "undeleted" \in Causes /\ why'[r.slot] # {}
      BY <1>2, <1>4, BlameIsKept DEF Causes
    <2>2. LeavesInOrder(c, then)
      BY <1>2, <2>1 DEF LeavesInOrder
    <2>. QED  BY <1>1, <1>2, <1>4, <2>1, <2>2, GotoPreserves DEF MayName, MayStore, tables
  <1>. QED  BY <1>1, <1>3, <1>4 DEF DeleteFile

LEMMA RefetchPreserves ==
  ASSUME IInv, NEW c \in Clients, Refetch(c)  PROVE IInv'
  <1>. DEFINE r == req[c]
  <1>1. pc[c] = "refetching" /\ UNCHANGED <<users, exists, named, disk, typed>>
    BY DEF Refetch, tables
  <1>2. Active(c) /\ r.slot \in Slots /\ r.new # None /\ r.new.slot = r.slot
    BY <1>1, AtWork DEF IInv, TypeOK, NamesAreFresh, Active
  <1>3. CASE Goto(c, "idle") /\ UNCHANGED why
    <2>1. LeavesInOrder(c, "idle")
      BY <1>1, <1>2, <1>3, OnlyOwner DEF LeavesInOrder
    <2>. QED  BY <1>1, <1>3, <2>1, GotoPreserves DEF MayName, MayStore, Causes, tables
  <1>4. CASE Goto(c, "discarding") /\ Blame(r.slot, "doubted")
    <2>1. "doubted" \in Causes /\ "doubted" \in why'[r.slot]
      BY <1>2, <1>4, BlameIsKept DEF Causes
    <2>2. LeavesInOrder(c, "discarding")
      BY <1>1, <1>2, <2>1 DEF LeavesInOrder, IInv, ForeignNamesAreTyped
    <2>. QED  BY <1>1, <1>4, <2>1, <2>2, GotoPreserves DEF MayName, MayStore, tables
  <1>. QED  BY <1>3, <1>4 DEF Refetch

LEMMA DiscardPreserves ==
  ASSUME IInv, NEW c \in Clients, Discard(c)  PROVE IInv'
  <1>. DEFINE r == req[c]
  <1>1. /\ pc[c] = "discarding" /\ Goto(c, "idle") /\ DeleteFile(r.new, r.slot)
        /\ UNCHANGED <<users, exists, named, typed>>
    BY DEF Discard, tables
  <1>2. Active(c) /\ r.slot \in Slots
    BY <1>1, AtWork DEF IInv, TypeOK, Active
  <1>3. CASE disk' = disk \ {r.new} /\ UNCHANGED why
    <2>1. LeavesInOrder(c, "idle")
      BY <1>1, <1>2, <1>3, OnlyOwner DEF LeavesInOrder
    <2>. QED  BY <1>1, <1>3, <2>1, GotoPreserves DEF MayName, MayStore, Causes, tables
  <1>4. CASE UNCHANGED disk /\ Blame(r.slot, "undeleted")
    <2>1. "undeleted" \in Causes /\ why'[r.slot] # {}
      BY <1>2, <1>4, BlameIsKept DEF Causes
    <2>2. LeavesInOrder(c, "idle")
      BY <2>1 DEF LeavesInOrder
    <2>. QED  BY <1>1, <1>4, <2>1, <2>2, GotoPreserves DEF MayName, MayStore, tables
  <1>. QED  BY <1>1, <1>3, <1>4 DEF DeleteFile

LEMMA CrashPreserves ==
  ASSUME IInv, NEW c \in Clients, Crash(c)  PROVE IInv'
  <1>1. /\ pc[c] # "idle" /\ Goto(c, "idle") /\ Blame(req[c].slot, "interrupted")
        /\ UNCHANGED <<users, exists, named, disk, typed>>
    BY DEF Crash, tables
  <1>2. req[c].slot \in Slots
    BY <1>1, AtWork DEF IInv, TypeOK, Active
  <1>3. "interrupted" \in Causes /\ why'[req[c].slot] # {}
    BY <1>1, <1>2, BlameIsKept DEF Causes
  <1>4. LeavesInOrder(c, "idle")
    BY <1>3 DEF LeavesInOrder
  <1>. QED  BY <1>1, <1>3, <1>4, GotoPreserves DEF MayName, MayStore, tables

-----------------------------------------------------------------------------
(* Steps that leave the requests and the disk alone: a slot they touch has   *)
(* something to blame, and gets no name, a name it had or one given by hand. *)
LEMMA TablesPreserve ==
  ASSUME IInv, TypeOK', UNCHANGED <<disk, pc, req>>, begun' >= begun,
         typed \subseteq typed',
         \A s \in Slots : why[s] \subseteq why'[s],
         \A s \in Slots :
           \/ named'[s] = named[s]
           \/ /\ why'[s] # {}
              /\ \/ named'[s] = None
                 \/ /\ named'[s] \in typed'
                    /\ named'[s].n = 0 \/ \E q \in Slots : named'[s] = named[q]
  PROVE  IInv'
  <1>1. /\ \A c \in Clients : Active(c)' <=> Active(c)
        /\ \A c \in Clients : \A s : Busy(c, s)' <=> Busy(c, s)
        /\ \A f : InHand(f)' <=> InHand(f)
    BY DEF Active, Busy, InHand
  <1>2. /\ begun \in Nat /\ begun' \in Nat /\ \A f \in Files : f.n \in Nat
    BY StoredFilesAssumption DEF IInv, TypeOK, Files
  <1>3. \A s \in Slots : named'[s] # None /\ named'[s] # named[s] =>
          /\ named'[s] \in typed' /\ named'[s].n <= begun
          /\ named'[s].n = 0 \/ \E q \in Slots : named'[s] = named[q]
    BY <1>2 DEF IInv, NamesAreFresh
  <1>4. NamesAreFresh'
    <2>1. \A s \in Slots : named'[s] # None => named'[s].n <= begun'
      BY <1>2, <1>3 DEF IInv, TypeOK, NamesAreFresh
    <2>2. ASSUME NEW c \in Clients, Active(c)
          PROVE  /\ req[c].new.n \in 1 .. begun'
                 /\ req[c].old # None => req[c].old.n <= begun'
      BY <1>2, <2>2, AtWork DEF IInv, NamesAreFresh
    <2>. QED  BY <1>1, <2>1, <2>2 DEF IInv, NamesAreFresh
  <1>5. UnwrittenIsUnknown'
    <2>1. ASSUME NEW c \in Clients, pc[c] \in {"saving", "writing"}
          PROVE  \A s \in Slots : named'[s] # req[c].new
      <3>1. Active(c) /\ req[c].new # None
        BY <2>1, AtWork DEF IInv, TypeOK, Active
      <3>2. req[c].new.n # 0
        BY <3>1 DEF IInv, NamesAreFresh
      <3>. QED  BY <1>3, <2>1, <3>1, <3>2 DEF IInv, UnwrittenIsUnknown
    <2>. QED  BY <1>1, <2>1 DEF IInv, UnwrittenIsUnknown
  <1>6. ForeignNamesAreTyped' /\ RowsNameFiles'
    BY <1>1, <1>3 DEF IInv, ForeignNamesAreTyped, RowsNameFiles
  <1>7. DeletedIsUnnamed'
    <2>1. ASSUME NEW c \in Clients, pc[c] = "discarding", NEW s \in Slots,
                 named'[s] = req[c].new
          PROVE  named'[s] \in typed' \/ "doubted" \in why'[s]
      BY <1>3, <2>1, AtWork DEF IInv, DeletedIsUnnamed, TypeOK, Active
    <2>. QED  BY <1>3, <2>1 DEF IInv, DeletedIsUnnamed
  <1>8. BlamelessIsAlone'
    BY <1>1, AtWork DEF IInv, BlamelessIsAlone
  <1>9. SlotsOwnTheirFiles'
    <2>1. \A f \in disk : f.slot \in Slots
      BY DEF IInv, TypeOK, Files
    <2>. QED  BY <1>1, <2>1 DEF IInv, SlotsOwnTheirFiles
  <1>. QED  BY <1>4, <1>5, <1>6, <1>7, <1>8, <1>9 DEF IInv

LEMMA TypeNamePreserves ==
  ASSUME IInv, NEW r \in Resources, NEW f \in Files, TypeName(r, f)  PROVE IInv'
  <1>1. /\ begun < MaxRequests /\ begun' = begun + 1 /\ f # None
        /\ f \in {named[s] : s \in Slots} \cup {[slot |-> r, n |-> 0]}
        /\ named' = [named EXCEPT ![r] = f] /\ exists' = exists \cup {r}
        /\ typed' = typed \cup {f} /\ Blame(r, "typed")
        /\ UNCHANGED <<users, disk, pc, req>>
    BY DEF TypeName, Name
  <1>2. r \in Slots /\ "typed" \in Causes
    BY DEF Slots, Causes
  <1>3. /\ why' \in [Slots -> SUBSET Causes] /\ why'[r] # {}
        /\ \A s \in Slots : why[s] \subseteq why'[s]
    BY <1>1, <1>2, BlameIsKept
  <1>4. begun' \in 0 .. MaxRequests /\ begun' >= begun
    BY <1>1, StoredFilesAssumption DEF IInv, TypeOK
  <1>5. TypeOK'
    <2>1. /\ named' \in [Slots -> Files \cup {None}] /\ exists' \subseteq Resources
          /\ \A q \in Resources : q \in exists' <=> named'[q] # None
      BY <1>1, <1>2 DEF IInv, TypeOK, Slots
    <2>2. disk' \subseteq Files /\ typed' \subseteq Files /\ users' \subseteq Users
      BY <1>1 DEF IInv, TypeOK
    <2>. QED  BY <1>1, <1>3, <1>4, <2>1, <2>2 DEF IInv, TypeOK
  <1>6. \A s \in Slots : s # r => named'[s] = named[s]
    BY <1>1 DEF IInv, TypeOK
  <1>7. named'[r] = f /\ f \in typed' /\ (f.n = 0 \/ \E q \in Slots : f = named[q])
    BY <1>1, <1>2 DEF IInv, TypeOK
  <1>. QED  BY <1>1, <1>3, <1>4, <1>5, <1>6, <1>7, TablesPreserve

LEMMA RemoveUserPreserves ==
  ASSUME IInv, NEW u \in Users, RemoveUser(u)  PROVE IInv'
  <1>. DEFINE gone == {u} \cup {r \in Resources : Uploader[r] = u}
  <1>1. /\ begun < MaxRequests /\ begun' = begun + 1
        /\ users' = users \ {u} /\ exists' = exists \ gone
        /\ named' = [s \in Slots |-> IF s \in gone THEN None ELSE named[s]]
        /\ why' = [s \in Slots |-> IF s \in gone THEN why[s] \cup {"cascade"} ELSE why[s]]
        /\ UNCHANGED <<disk, pc, req, typed>>
    BY DEF RemoveUser
  <1>. HIDE DEF gone
  <1>2. begun' \in 0 .. MaxRequests /\ begun' >= begun
    BY <1>1, StoredFilesAssumption DEF IInv, TypeOK
  <1>3. why' \in [Slots -> SUBSET Causes]
    BY <1>1 DEF IInv, TypeOK, Causes
  <1>4. TypeOK'
    <2>1. Resources \subseteq Slots
      BY DEF Slots
    <2>. QED  BY <1>1, <1>2, <1>3, <2>1 DEF IInv, TypeOK
  <1>5. \A s \in Slots : /\ why[s] \subseteq why'[s]
                         /\ named'[s] = named[s] \/ (named'[s] = None /\ why'[s] # {})
    BY <1>1
  <1>. QED  BY <1>1, <1>2, <1>4, <1>5, TablesPreserve

-----------------------------------------------------------------------------
LEMMA NextPreserves == IInv /\ [Next]_vars => IInv'
  <1>. SUFFICES ASSUME IInv, [Next]_vars  PROVE IInv'
    OBVIOUS
  <1>1. ASSUME NEW c \in Clients, NEW r \in Resources, CreateFromUpload(c, r)  PROVE IInv'
    BY <1>1, AcceptPreserves DEF CreateFromUpload, New, Ops, Slots, IInv, TypeOK
  <1>2. ASSUME NEW c \in Clients, NEW r \in Resources, UpdateWithUpload(c, r)  PROVE IInv'
    BY <1>2, AcceptPreserves DEF UpdateWithUpload, Ops, Slots
  <1>3. ASSUME NEW c \in Clients, NEW r \in Resources, RemoveResource(c, r)  PROVE IInv'
    BY <1>3, AcceptPreserves DEF RemoveResource, Ops, Slots
  <1>4. ASSUME NEW c \in Clients, NEW u \in Users, UpdateProfilePhoto(c, u)  PROVE IInv'
    BY <1>4, AcceptPreserves DEF UpdateProfilePhoto, Ops, Slots
  <1>5. CASE UNCHANGED vars
    BY <1>5 DEF vars, tables, history, IInv, TypeOK, NamesAreFresh, UnwrittenIsUnknown,
                ForeignNamesAreTyped, DeletedIsUnnamed, RowsNameFiles, BlamelessIsAlone,
                SlotsOwnTheirFiles, Active, Busy, InHand
  <1>. QED
    BY <1>1, <1>2, <1>3, <1>4, <1>5, SaveFilePreserves, WriteRowPreserves, DeleteRowPreserves,
       DropOldPreserves, RefetchPreserves, DiscardPreserves, CrashPreserves,
       TypeNamePreserves, RemoveUserPreserves DEF Next

-----------------------------------------------------------------------------
(* The inductive invariant, for any number of users, resources and requests: *)
(* uploads, removals and the photo's update overlap as they will.           *)
THEOREM Invariance == Spec => []IInv
  BY InitIInv, NextPreserves, PTL DEF Spec

(* However uploads and removals overlap and wherever the server stops, a row *)
(* names a file that is there, but for names given by hand and errors that  *)
(* came of a written row.                                                   *)
THEOREM NamesLead == Spec => []RowsNameFiles
  <1>1. IInv => RowsNameFiles
    BY DEF IInv
  <1>. QED  BY <1>1, Invariance, PTL

(* No file is left behind where nothing is to blame for it. *)
THEOREM NothingIsLeft == Spec => []FilesAreOwned
  <1>1. IInv => FilesAreOwned
    <2>1. ASSUME IInv, NEW f \in disk
          PROVE  \/ \E s \in Slots : named[s] = f
                 \/ \E c \in Clients : req[c] # None /\ f \in {req[c].old, req[c].new}
                 \/ why[f.slot] # {}
      <3>1. f.slot \in Slots
        BY <2>1 DEF IInv, TypeOK, Files
      <3>. QED  BY <2>1, <3>1 DEF IInv, SlotsOwnTheirFiles, InHand, Busy
    <2>. QED  BY <2>1 DEF FilesAreOwned
  <1>. QED  BY <1>1, Invariance, PTL

(* The tables and the requests in progress hold what they should, and a     *)
(* resource has a row exactly when it names a file.                         *)
THEOREM Typed == Spec => []TypeOK
  <1>1. IInv => TypeOK
    BY DEF IInv
  <1>. QED  BY <1>1, Invariance, PTL

-----------------------------------------------------------------------------
(* Listings.  What the walk has not returned yet, of the rows that have been   *)
(* visible all along, has at least as many rows before it as the pages       *)
(* passed hold: so it is not skipped, wherever rows are inserted.            *)

(* The rows listed before that of id i, known by their ids. *)
Ahead(i, R) == {n \in IdsOf(R) : \E r, s \in R : r.id = n /\ s.id = i /\ r.at > s.at}
Rank(i, R) == Cardinality(Ahead(i, R))

Serving == stage \in {"together", "apart", "read"}
Clean == causes \cap Excuses = {}
Shown == {query.items[n] : n \in 1 .. Len(query.items)}

(* What has been steady and is neither returned nor about to be, and how     *)
(* many rows the walk has passed.                                           *)
Missing == steady \ (seen \cup IdsOf(Shown))
Passed == (IF query.fetched THEN page ELSE page - 1) * PageSize

(* Where the walk stands says what it has.                                  *)
WalkInStep ==
  /\ ~ Serving /\ stage # "refused" => query = NoQuery
  /\ Serving => query.scope \in Scopes
  /\ stage = "idle" => page = 1 /\ seen = {} /\ last = {} /\ steady = {}
  /\ stage \in {"together", "refused"} => ~ query.fetched
  /\ stage = "read" => query.fetched
  /\ ~ query.fetched => query.items = <<>>
  /\ stage = "apart" => kind \in CountedApart
  /\ stage = "together" => kind \notin CountedApart

(* A row visible ever since is visible now; and only a walk none of whose    *)
(* rows is left asks with a scope that is no longer the viewer's.           *)
SteadyIsVisible ==
  /\ stage \notin {"done", "refused"} => steady \subseteq IdsOf(Visible)
  /\ Serving => steady = {} \/ query.scope = ScopeOf

(* A row the walk has missed so far has as many rows before it as the walk   *)
(* has passed, and the total that decides whether to go on leaves room.     *)
MissingIsAhead ==
  /\ stage \notin {"done", "refused"} => \A i \in Missing : Rank(i, Visible) >= Passed
  /\ stage = "read" => Missing = {} \/ page * PageSize < query.total
  /\ stage = "apart" /\ query.total >= 0 =>
       steady = {} \/ query.total >= Cardinality(IdsOf(Visible))
  /\ stage = "done" => steady \subseteq seen

(* What was read since the last change is visible, and was asked for with    *)
(* the viewer's scope.                                                      *)
FreshIsVisible ==
  fresh => /\ last \cup Shown \subseteq Visible
           /\ Serving => query.scope = ScopeOf

ListIInv ==
  /\ ListTypeOK /\ WalkInStep /\ SteadyIsVisible /\ FreshIsVisible
  /\ Clean => MissingIsAhead

-----------------------------------------------------------------------------
(* Rows with ids of their own: no more than there are ids. *)
LEMMA DistinctRows ==
  ASSUME NEW R \in SUBSET Row, \A r, s \in R : r.id = s.id => r = s
  PROVE  /\ IsFiniteSet(R) /\ Cardinality(R) \in 0 .. MaxRows
         /\ IsFiniteSet(IdsOf(R)) /\ Cardinality(IdsOf(R)) = Cardinality(R)
  <1>. DEFINE f == [r \in R |-> r.id]
  <1>1. IsFiniteSet(Ids) /\ Cardinality(Ids) = MaxRows /\ MaxRows \in Nat
    BY FS_Interval, ListingsAssumption DEF Ids
  <1>2. f \in Injection(R, Ids)
    BY DEF Injection, IsInjective, Row
  <1>3. IsFiniteSet(R) /\ Cardinality(R) <= MaxRows
    BY <1>1, <1>2, FS_Injection
  <1>4. f \in Bijection(R, IdsOf(R))
    BY DEF Bijection, Injection, IsInjective, Surjection, IdsOf
  <1>5. IsFiniteSet(IdsOf(R)) /\ Cardinality(IdsOf(R)) = Cardinality(R)
    BY <1>3, <1>4, FS_Bijection DEF ExistsBijection
  <1>6. Cardinality(R) \in Nat
    BY <1>3, FS_CardinalityType
  <1>. QED  BY <1>1, <1>3, <1>5, <1>6

(* An order lists each row once. *)
LEMMA OrdersList ==
  ASSUME NEW R, IsFiniteSet(R), NEW order \in Orders(R)
  PROVE  /\ order \in Seq(R) /\ Len(order) = Cardinality(R)
         /\ \A i, j \in 1 .. Len(order) : i # j => order[i] # order[j]
         /\ \A i, j \in 1 .. Len(order) : i < j => order[i].at >= order[j].at
         /\ \A r \in R : \E j \in 1 .. Len(order) : order[j] = r
  <1>. DEFINE n == Cardinality(R)
  <1>1. n \in Nat
    BY FS_CardinalityType
  <1>2. /\ order \in [1 .. n -> R]
        /\ \A i, j \in 1 .. n : i # j => order[i] # order[j]
    BY DEF Orders, SetToSeqs
  <1>3. order \in Seq(R) /\ Len(order) = n
    BY <1>1, <1>2
  <1>4. IsFiniteSet(1 .. n) /\ Cardinality(1 .. n) = n
    BY <1>1, FS_Interval
  <1>5. order \in Injection(1 .. n, R)
    BY <1>2 DEF Injection, IsInjective
  <1>6. order \in Surjection(1 .. n, R)
    BY <1>4, <1>5, FS_Injection
  <1>7. \A r \in R : \E j \in 1 .. n : order[j] = r
    BY <1>6 DEF Surjection
  <1>8. \A i, j \in 1 .. Len(order) : i < j => order[i].at >= order[j].at
    BY DEF Orders
  <1>. QED  BY <1>2, <1>3, <1>7, <1>8

(* Where no keys are equal, as many rows are ahead of one as its place says. *)
LEMMA PlaceIsRank ==
  ASSUME NEW R \in SUBSET Row, \A r, s \in R : r.id = s.id => r = s,
         ~ Tied(R), NEW order \in Orders(R), NEW j \in 1 .. Len(order)
  PROVE  Rank(order[j].id, R) = j - 1
  <1>. DEFINE f == [i \in 1 .. j - 1 |-> order[i].id]
  <1>1. IsFiniteSet(R)
    BY DistinctRows
  <1>2. /\ order \in Seq(R)
        /\ \A i, k \in 1 .. Len(order) : i # k => order[i] # order[k]
        /\ \A i, k \in 1 .. Len(order) : i < k => order[i].at >= order[k].at
        /\ \A r \in R : \E k \in 1 .. Len(order) : order[k] = r
    BY <1>1, OrdersList
  <1>3. Len(order) \in Nat /\ \A i \in 1 .. Len(order) : order[i] \in R
    BY <1>2
  <1>4. \A i \in 1 .. Len(order) : order[i].at \in Int
    BY <1>3 DEF Row, Keys
  <1>5. \A i, k \in 1 .. Len(order) : i < k => order[i].at > order[k].at
    <2>. SUFFICES ASSUME NEW i \in 1 .. Len(order), NEW k \in 1 .. Len(order), i < k
                  PROVE  order[i].at > order[k].at
      OBVIOUS
    <2>1. order[i] # order[k] /\ order[i].at >= order[k].at
      BY <1>2
    <2>2. order[i].at # order[k].at
      BY <1>3, <2>1 DEF Tied
    <2>. QED  BY <2>1, <2>2, <1>4
  <1>6. \A i, k \in 1 .. Len(order) : order[i].at > order[k].at <=> i < k
    <2>. SUFFICES ASSUME NEW i \in 1 .. Len(order), NEW k \in 1 .. Len(order),
                         order[i].at > order[k].at
                  PROVE  i < k
      BY <1>5
    <2>1. ~ (k < i)
      BY <1>4, <1>5
    <2>. QED  BY <2>1, <1>4
  <1>7. Ahead(order[j].id, R) = {order[i].id : i \in 1 .. j - 1}
    <2>1. ASSUME NEW n \in Ahead(order[j].id, R)  PROVE  \E i \in 1 .. j - 1 : n = order[i].id
      <3>1. PICK r \in R, s \in R : r.id = n /\ s.id = order[j].id /\ r.at > s.at
        BY DEF Ahead
      <3>2. s = order[j]
        BY <1>3, <3>1
      <3>3. PICK i \in 1 .. Len(order) : order[i] = r
        BY <1>2
      <3>. QED  BY <1>3, <1>6, <3>1, <3>2, <3>3
    <2>2. ASSUME NEW i \in 1 .. j - 1  PROVE  order[i].id \in Ahead(order[j].id, R)
      <3>1. i \in 1 .. Len(order) /\ order[i] \in R /\ order[j] \in R /\ order[i].at > order[j].at
        BY <1>3, <1>5
      <3>. QED  BY <3>1 DEF Ahead, IdsOf
    <2>. QED  BY <2>1, <2>2
  <1>8. f \in Bijection(1 .. j - 1, Ahead(order[j].id, R))
    <2>1. \A i, k \in 1 .. j - 1 : f[i] = f[k] => i = k
      <3>. SUFFICES ASSUME NEW i \in 1 .. j - 1, NEW k \in 1 .. j - 1, f[i] = f[k]
                    PROVE  i = k
        OBVIOUS
      <3>1. i \in 1 .. Len(order) /\ k \in 1 .. Len(order)
        BY <1>3
      <3>2. order[i] \in R /\ order[k] \in R /\ order[i].id = order[k].id
        BY <1>3, <3>1
      <3>3. order[i] = order[k]
        BY <3>2
      <3>. QED  BY <1>2, <3>1, <3>3
    <2>2. f \in [1 .. j - 1 -> Ahead(order[j].id, R)]
      BY <1>7
    <2>. QED  BY <1>7, <2>1, <2>2 DEF Bijection, Injection, IsInjective, Surjection
  <1>9. IsFiniteSet(1 .. j - 1) /\ Cardinality(1 .. j - 1) = j - 1
    <2>1. 1 \in Int /\ j - 1 \in Int /\ j >= 1
      BY <1>3
    <2>2. Cardinality(1 .. j - 1) = IF 1 > j - 1 THEN 0 ELSE (j - 1) - 1 + 1
      BY <2>1, FS_Interval
    <2>. QED  BY <2>1, <2>2, FS_Interval
  <1>. QED  BY <1>8, <1>9, FS_Bijection DEF Rank, ExistsBijection

(* The page read, and the numbers of the pages around it. *)
LEMMA PagesAreNat ==
  ASSUME NEW n \in Nat \ {0}
  PROVE  /\ PageSize \in Nat \ {0} /\ (n - 1) * PageSize \in Nat
         /\ n * PageSize = (n - 1) * PageSize + PageSize
         /\ n + 1 - 1 = n
  <1>1. PageSize \in Nat \ {0}
    BY ListingsAssumption
  <1>2. n - 1 \in Nat
    OBVIOUS
  <1>3. \A m \in Nat : m * PageSize \in Nat /\ (m + 1) * PageSize = m * PageSize + PageSize
    BY <1>1
  <1>4. (n - 1) + 1 = n
    OBVIOUS
  <1>. QED  BY <1>1, <1>2, <1>3, <1>4

(* A row that comes after the pages passed is on the page read, or it comes   *)
(* after that as well: where no keys are equal.                             *)
LEMMA PageIsNext ==
  ASSUME NEW R \in SUBSET Row, \A r, s \in R : r.id = s.id => r = s,
         ~ Tied(R), NEW order \in Orders(R), page \in Nat \ {0},
         NEW r \in R, Rank(r.id, R) >= (page - 1) * PageSize,
         \A n \in 1 .. Len(PageOf(order)) : PageOf(order)[n].id # r.id
  PROVE  Rank(r.id, R) >= page * PageSize
  <1>1. IsFiniteSet(R)
    BY DistinctRows
  <1>2. order \in Seq(R) /\ \A q \in R : \E k \in 1 .. Len(order) : order[k] = q
    BY <1>1, OrdersList
  <1>3. PICK j \in 1 .. Len(order) : order[j] = r
    BY <1>2
  <1>4. Rank(r.id, R) = j - 1
    BY <1>3, PlaceIsRank
  <1>5. /\ PageSize \in Nat \ {0} /\ Skip \in Nat /\ page * PageSize = Skip + PageSize
        /\ Skip = (page - 1) * PageSize
    BY PagesAreNat DEF Skip
  <1>6. j > Skip /\ Len(order) \in Nat /\ Len(order) >= j
    <2>1. j - 1 >= Skip /\ Skip \in Nat
      BY <1>4, <1>5
    <2>2. Len(order) \in Nat /\ j \in 1 .. Len(order)
      BY <1>2
    <2>. QED  BY <2>1, <2>2
  <1>7. j > Skip + PageSize
    <2>. DEFINE most == IF Skip + PageSize <= Len(order) THEN Skip + PageSize ELSE Len(order)
    <2>. SUFFICES ASSUME j <= Skip + PageSize  PROVE  FALSE
      BY <1>5, <1>6
    <2>1. PageOf(order) = SubSeq(order, Skip + 1, most)
      <3>1. ~ (Skip >= Len(order))
        BY <1>5, <1>6
      <3>. QED  BY <3>1 DEF PageOf
    <2>2. most \in Int /\ Skip + 1 \in 1 .. Len(order) /\ most \in 1 .. Len(order) /\ j <= most
      BY <1>5, <1>6
    <2>3. Len(PageOf(order)) = most - Skip /\ PageOf(order)[j - Skip] = order[j]
      <3>. HIDE DEF most
      <3>1. j - Skip \in 1 .. most - Skip
        BY <1>5, <1>6, <2>2
      <3>2. most - (Skip + 1) + 1 = most - Skip /\ (Skip + 1) + (j - Skip) - 1 = j
        BY <1>5, <1>6, <2>2
      <3>3. /\ Len(SubSeq(order, Skip + 1, most)) = most - Skip
            /\ SubSeq(order, Skip + 1, most)[j - Skip] = order[j]
        <4>1. Skip + 1 \in Int /\ most \in Int /\ Skip + 1 <= most
          BY <1>5, <1>6, <2>2
        <4>2. \A i \in Skip + 1 .. most : order[i] \in R
          <5>. SUFFICES ASSUME NEW i \in Skip + 1 .. most  PROVE  order[i] \in R
            OBVIOUS
          <5>1. i \in 1 .. Len(order)
            BY <1>5, <1>6, <2>2
          <5>. QED  BY <1>2, <5>1
        <4>3. /\ Len(SubSeq(order, Skip + 1, most)) = most - (Skip + 1) + 1
              /\ \A i \in 1 .. most - (Skip + 1) + 1 :
                   SubSeq(order, Skip + 1, most)[i] = order[(Skip + 1) + i - 1]
          BY <4>1, <4>2, SubSeqProperties
        <4>. QED  BY <3>1, <3>2, <4>3
      <3>. QED  BY <2>1, <3>1, <3>2, <3>3
    <2>4. j - Skip \in 1 .. Len(PageOf(order))
      BY <1>5, <1>6, <2>2, <2>3
    <2>. QED  BY <1>3, <2>3, <2>4
  <1>. QED  BY <1>4, <1>5, <1>7

LEMMA PageIsSome ==
  ASSUME NEW R, IsFiniteSet(R), NEW order \in Orders(R), page \in Nat \ {0}
  PROVE  PageOf(order) \in Seq(R) /\ Len(PageOf(order)) <= PageSize
  <1>1. order \in Seq(R)
    BY OrdersList
  <1>2. /\ PageSize \in Nat \ {0} /\ Skip \in Nat
    BY PagesAreNat DEF Skip
  <1>3. CASE Skip >= Len(order)
    BY <1>1, <1>2, <1>3 DEF PageOf
  <1>4. CASE Skip < Len(order)
    <2>. DEFINE most == IF Skip + PageSize <= Len(order) THEN Skip + PageSize ELSE Len(order)
    <2>1. PageOf(order) = SubSeq(order, Skip + 1, most)
      BY <1>1, <1>2, <1>4 DEF PageOf
    <2>2. /\ Skip + 1 \in 1 .. Len(order) /\ most \in Skip + 1 .. Len(order)
          /\ most - Skip <= PageSize
      BY <1>1, <1>2, <1>4
    <2>. HIDE DEF most
    <2>3. /\ SubSeq(order, Skip + 1, most) \in Seq(R)
          /\ Len(SubSeq(order, Skip + 1, most)) = most - Skip
      BY <1>1, <1>2, <2>2
    <2>. QED  BY <2>1, <2>2, <2>3
  <1>5. Len(order) \in Nat
    BY <1>1
  <1>. QED  BY <1>2, <1>3, <1>4, <1>5

-----------------------------------------------------------------------------
(* What each listing finds. *)
LEMMA FoundAreRows ==
  ASSUME ListTypeOK, NEW scope
  PROVE  Find(scope) \subseteq rows /\ IdsOf(Find(scope)) \subseteq IdsOf(rows)
  <1>1. kind \in AllKinds
    BY ListingsAssumption DEF ListTypeOK
  <1>2. InScope(scope) \subseteq rows
    BY DEF InScope, With
  <1>3. BuildScopedWhere(scope) \subseteq rows /\ AccessFilter \subseteq rows
    BY <1>2 DEF BuildScopedWhere, AccessFilter, With
  <1>4. Find(scope) \subseteq rows
    BY <1>1, <1>2, <1>3 DEF AllKinds, Find, FindAllUsers, FindByRole, FindAllClasses,
       FindAllResources, FindAllPayments, ListMembershipsForOwner, ListMembershipsForUser,
       ListDirectory, ListForAdmin, FindAllRecordings, ListPaymentsAdmin,
       ListSubscriptionsAdmin, ListCoupons, ListContactMessages, ListNotifications,
       GetTransactions, GetTeacherCreditAuditLog, With
  <1>. QED  BY <1>4 DEF IdsOf

LEMMA ScopesAre == ScopeOf \in Scopes
  BY DEF Scopes, ScopeOf, GetAccessibleAcademyScope, ResolveAccessibleAcademyIds,
     ResolveAccessibleAcademyIdsForRole, RequireOwnerAcademy, AcademyOfOwner,
     AssertTeacherBelongsToAcademy

(* A listing that asks for the viewer's scope finds nothing without one.    *)
Scoped == {"users", "byRole", "classes", "resources", "members", "recordings", "audit"}

LEMMA NothingWithoutScope ==
  ASSUME kind \in Scoped, NEW scope \in {"none", "refused"}
  PROVE  Find(scope) = {}
  <1>1. InScope(scope) = {} /\ BuildScopedWhere(scope) = {}
    BY DEF InScope, BuildScopedWhere
  <1>. QED  BY <1>1 DEF Scoped, Find, FindAllUsers, FindByRole, FindAllClasses,
            FindAllResources, ListMembershipsForOwner, FindAllRecordings,
            GetTeacherCreditAuditLog

(* The total is what is found, but for the notifications, where it is more.  *)
LEMMA CountCovers ==
  ASSUME ListTypeOK, NEW scope
  PROVE  /\ Count(scope) \in 0 .. MaxRows
         /\ Count(scope) >= Cardinality(IdsOf(Find(scope)))
  <1>. DEFINE all == IF kind = "notifications" THEN With("mine") ELSE Find(scope)
  <1>1. /\ Find(scope) \subseteq all /\ all \subseteq rows /\ Count(scope) = Cardinality(all)
    BY FoundAreRows DEF Count, Find, ListNotifications, With
  <1>. HIDE DEF all
  <1>2. /\ rows \subseteq Row /\ \A r, s \in rows : r.id = s.id => r = s
    BY DEF ListTypeOK
  <1>3. /\ IsFiniteSet(all) /\ Cardinality(all) \in 0 .. MaxRows
    BY <1>1, <1>2, DistinctRows
  <1>4. Cardinality(IdsOf(Find(scope))) = Cardinality(Find(scope))
    BY <1>1, <1>2, DistinctRows
  <1>5. Cardinality(Find(scope)) <= Cardinality(all)
    BY <1>1, <1>3, FS_Subset
  <1>. QED  BY <1>1, <1>3, <1>4, <1>5

(* Whoever is shown a row may open it: users by administrators and owners.   *)
LEMMA VisibleCanBeOpened ==
  ASSUME ListTypeOK, kind = "byRole" => role \in Elevated, NEW r \in Visible
  PROVE  CanOpen(r)
  <1>1. r \in rows
    BY FoundAreRows DEF Visible
  <1>2. CASE kind \in {"users", "byRole"}
    <2>1. role \in {"admin", "owner"}
      BY <1>2 DEF Elevated, ListTypeOK, Viewers
    <2>2. r \in BuildScopedWhere(GetAccessibleAcademyScope)
      BY <1>2 DEF Visible, Find, FindAllUsers, FindByRole, ScopeOf
    <2>3. CASE role = "admin"
      BY <1>2, <2>3 DEF CanOpen, FindOneUser
    <2>4. CASE role = "owner"
      <3>1. GetAccessibleAcademyScope = "home" /\ r \in With("approved") \cup With("mine")
        BY <2>2, <2>4 DEF GetAccessibleAcademyScope, BuildScopedWhere, InScope
      <3>. QED  BY <1>2, <2>4, <3>1 DEF CanOpen, FindOneUser, Elevated, With
    <2>. QED  BY <2>1, <2>3, <2>4
  <1>3. CASE kind = "classes"
    BY <1>3 DEF Visible, Find, FindAllClasses, ScopeOf, CanOpen, EnsureAcademyAccess
  <1>4. CASE kind = "resources"
    BY <1>4 DEF Visible, Find, FindAllResources, ScopeOf, CanOpen, FindOneResource
  <1>5. CASE kind \notin {"users", "byRole", "classes", "resources"}
    BY <1>5 DEF CanOpen
  <1>. QED  BY <1>2, <1>3, <1>4, <1>5

(* A visible row has fewer rows ahead than there are. *)
LEMMA RankIsBounded ==
  ASSUME ListTypeOK
  PROVE  /\ IsFiniteSet(IdsOf(Visible)) /\ Cardinality(IdsOf(Visible)) \in Nat
         /\ \A i : Rank(i, Visible) \in Nat
         /\ \A i \in IdsOf(Visible) : Rank(i, Visible) < Cardinality(IdsOf(Visible))
  <1>1. Visible \subseteq rows
    BY FoundAreRows DEF Visible
  <1>2. /\ Visible \in SUBSET Row /\ \A r, s \in Visible : r.id = s.id => r = s
    BY <1>1 DEF ListTypeOK
  <1>3. IsFiniteSet(IdsOf(Visible)) /\ Cardinality(IdsOf(Visible)) \in Nat
    BY <1>2, DistinctRows, FS_CardinalityType
  <1>4. ASSUME NEW i
        PROVE  /\ Rank(i, Visible) \in Nat
               /\ i \in IdsOf(Visible) => Rank(i, Visible) < Cardinality(IdsOf(Visible))
    <2>1. Ahead(i, Visible) \subseteq IdsOf(Visible)
      BY DEF Ahead
    <2>2. /\ IsFiniteSet(Ahead(i, Visible))
          /\ Cardinality(Ahead(i, Visible)) <= Cardinality(IdsOf(Visible))
          /\ Cardinality(Ahead(i, Visible)) = Cardinality(IdsOf(Visible)) =>
               Ahead(i, Visible) = IdsOf(Visible)
      BY <1>3, <2>1, FS_Subset
    <2>3. Cardinality(Ahead(i, Visible)) \in Nat
      BY <2>2, FS_CardinalityType
    <2>4. i \notin Ahead(i, Visible)
      <3>1. ASSUME NEW r \in Visible, NEW s \in Visible, r.id = i, s.id = i  PROVE  ~ (r.at > s.at)
        <4>1. r = s /\ r.at \in Int
          BY <1>2, <3>1 DEF Row, Keys
        <4>. QED  BY <4>1
      <3>. QED  BY <3>1 DEF Ahead
    <2>. QED  BY <1>3, <2>2, <2>3, <2>4 DEF Rank
  <1>. QED  BY <1>3, <1>4

-----------------------------------------------------------------------------
(* The steps of the walk: the rows and the viewer stay.                     *)
LEMMA WorldStays ==
  ASSUME UNCHANGED <<kind, role, world>>
  PROVE  Visible' = Visible /\ ScopeOf' = ScopeOf /\ Excuses' = Excuses
  <1>1. kind' = kind /\ role' = role /\ standing' = standing /\ rows' = rows
    BY DEF world
  <1>2. ScopeOf' = ScopeOf
    BY <1>1 DEF ScopeOf, GetAccessibleAcademyScope, ResolveAccessibleAcademyIds,
       ResolveAccessibleAcademyIdsForRole, RequireOwnerAcademy, AcademyOfOwner,
       AssertTeacherBelongsToAcademy
  <1>3. Visible' = Visible
    BY <1>1, <1>2 DEF Visible, Find, FindAllUsers, FindByRole, FindAllClasses,
       FindAllResources, FindAllPayments, ListMembershipsForOwner, ListMembershipsForUser,
       ListDirectory, ListForAdmin, FindAllRecordings, ListPaymentsAdmin,
       ListSubscriptionsAdmin, ListCoupons, ListContactMessages, ListNotifications,
       GetTransactions, GetTeacherCreditAuditLog, With, InScope, BuildScopedWhere,
       AccessFilter
  <1>4. Excuses' = Excuses
    BY <1>1 DEF Excuses, CountedApart
  <1>. QED  BY <1>2, <1>3, <1>4

LEMMA AskKeeps ==
  ASSUME ListIInv, Ask  PROVE  ListIInv'
  <1>1. /\ stage = "idle" /\ stage' = "asked" /\ steady' = IdsOf(Visible)
        /\ UNCHANGED <<kind, role, world, page, query, seen, last, causes, fresh, changes>>
    BY DEF Ask
  <1>2. /\ ListTypeOK /\ query = NoQuery /\ page = 1 /\ seen = {} /\ last = {}
    BY <1>1 DEF ListIInv, WalkInStep, Serving
  <1>3. Visible' = Visible /\ ScopeOf' = ScopeOf
    BY <1>1, WorldStays
  <1>4. ListTypeOK'
    <2>1. IdsOf(Visible) \subseteq Ids
      BY <1>2, FoundAreRows DEF Visible, IdsOf, ListTypeOK, Row
    <2>. QED  BY <1>1, <1>2, <2>1 DEF ListTypeOK, world, Standings
  <1>5. WalkInStep'
    BY <1>1, <1>2 DEF ListIInv, WalkInStep, Serving, NoQuery
  <1>6. SteadyIsVisible'
    BY <1>1, <1>3 DEF SteadyIsVisible, Serving
  <1>7. FreshIsVisible'
    BY <1>1, <1>3 DEF ListIInv, FreshIsVisible, Shown, Serving
  <1>8. MissingIsAhead'
    <2>1. Passed' = 0
      <3>1. PageSize \in Nat
        BY ListingsAssumption
      <3>. QED  BY <1>1, <1>2, <3>1 DEF Passed, NoQuery
    <2>2. \A i : Rank(i, Visible) \in Nat
      BY <1>2, RankIsBounded
    <2>. QED  BY <1>1, <1>3, <2>1, <2>2 DEF MissingIsAhead
  <1>. QED  BY <1>4, <1>5, <1>6, <1>7, <1>8 DEF ListIInv

LEMMA ReadScopeKeeps ==
  ASSUME ListIInv, ReadScope  PROVE  ListIInv'
  <1>1. /\ stage = "asked" /\ stage' \in {"refused", "apart", "together"}
        /\ stage' = "apart" => kind \in CountedApart
        /\ stage' = "together" => kind \notin CountedApart
        /\ query' = [NoQuery EXCEPT !.scope = ScopeOf]
        /\ last' = {} /\ fresh' = TRUE
        /\ UNCHANGED <<kind, role, world, page, seen, steady, causes, changes>>
    BY DEF ReadScope
  <1>2. ListTypeOK /\ query = NoQuery
    BY <1>1 DEF ListIInv, WalkInStep, Serving
  <1>3. Visible' = Visible /\ ScopeOf' = ScopeOf /\ Excuses' = Excuses /\ ScopeOf \in Scopes
    BY <1>1, WorldStays, ScopesAre
  <1>4. query' = [scope |-> ScopeOf, items |-> <<>>, fetched |-> FALSE, total |-> -1]
    BY <1>1 DEF NoQuery
  <1>5. ListTypeOK'
    <2>1. /\ -1 \in -1 .. MaxRows /\ <<>> \in Seq(Row) /\ Len(<<>>) <= PageSize
      BY ListingsAssumption
    <2>2. /\ query' \in [scope : Scopes \cup {"unread"}, items : Seq(Row), fetched : BOOLEAN,
                         total : -1 .. MaxRows]
          /\ Len(query'.items) <= PageSize
      BY <1>3, <1>4, <2>1
    <2>. QED  BY <1>1, <1>2, <2>2 DEF ListTypeOK, world, Standings
  <1>6. WalkInStep'
    BY <1>1, <1>3, <1>4 DEF WalkInStep, Serving, CountedApart
  <1>7. SteadyIsVisible'
    BY <1>1, <1>3, <1>4 DEF ListIInv, SteadyIsVisible, Serving
  <1>8. Shown' = {} /\ Shown = {}
    BY <1>2, <1>4 DEF Shown, NoQuery
  <1>9. FreshIsVisible'
    BY <1>1, <1>3, <1>4, <1>8 DEF FreshIsVisible
  <1>10. ASSUME MissingIsAhead  PROVE  MissingIsAhead'
    <2>1. Missing' = Missing /\ Passed' = Passed
      BY <1>1, <1>2, <1>4, <1>8 DEF Missing, Passed, IdsOf, NoQuery
    <2>2. query'.total = -1 /\ ~ (-1 >= 0)
      BY <1>4
    <2>. QED  BY <1>1, <1>3, <1>10, <2>1, <2>2 DEF MissingIsAhead
  <1>11. Clean' => Clean
    BY <1>1, <1>3 DEF Clean
  <1>. QED  BY <1>5, <1>6, <1>7, <1>9, <1>10, <1>11 DEF ListIInv

(* The rows fetched are visible, and what they leave missing comes after     *)
(* them.  Nothing is fetched where nothing is steady any longer.            *)
LEMMA FetchedIsNext ==
  ASSUME ListIInv, Serving, ~ query.fetched, NEW r,
         r \in [scope : Scopes \cup {"unread"}, items : Seq(Row), fetched : BOOLEAN,
                total : -1 .. MaxRows],
         r.scope = query.scope, Fetched(r), NoteTies(Find(query.scope)), Read,
         stage' \in {"apart", "read"}
  PROVE  /\ ListTypeOK'
         /\ query'.scope = query.scope /\ query'.fetched /\ query'.total = r.total
         /\ Shown' \subseteq Find(query.scope)
         /\ Clean' => Clean
         /\ Clean' => \A i \in Missing' : Rank(i, Visible) >= page * PageSize
  <1>1. /\ UNCHANGED <<kind, role, world, page, seen, last, steady, fresh, changes>>
        /\ causes' = causes \cup (IF Tied(Find(query.scope)) THEN {"tie"} ELSE {})
    BY DEF Read, NoteTies
  <1>2. PICK order \in Orders(Find(query.scope)) :
          query' = [r EXCEPT !.items = PageOf(order), !.fetched = TRUE]
    BY DEF Fetched
  <1>3. /\ query'.scope = query.scope /\ query'.fetched /\ query'.total = r.total
        /\ query'.items = PageOf(order)
    BY <1>2
  <1>4. ListTypeOK /\ query.items = <<>> /\ page \in Nat \ {0}
    BY DEF ListIInv, WalkInStep, ListTypeOK
  <1>5. /\ Find(query.scope) \in SUBSET Row
        /\ \A p, q \in Find(query.scope) : p.id = q.id => p = q
    BY <1>4, FoundAreRows DEF ListTypeOK
  <1>6. /\ PageOf(order) \in Seq(Find(query.scope)) /\ PageOf(order) \in Seq(Row)
        /\ Len(PageOf(order)) <= PageSize
    <2>1. PageOf(order) \in Seq(Find(query.scope)) /\ Len(PageOf(order)) <= PageSize
      BY <1>4, <1>5, DistinctRows, PageIsSome
    <2>. QED  BY <1>5, <2>1
  <1>7. Visible' = Visible /\ Excuses' = Excuses
    BY <1>1, WorldStays
  <1>8. ListTypeOK'
    <2>1. /\ query' \in [scope : Scopes \cup {"unread"}, items : Seq(Row), fetched : BOOLEAN,
                         total : -1 .. MaxRows]
          /\ Len(query'.items) <= PageSize
      BY <1>2, <1>3, <1>6
    <2>2. causes' \subseteq {"removed", "inserted", "moved", "tie"}
      BY <1>1, <1>4 DEF ListTypeOK
    <2>. QED  BY <1>1, <1>4, <2>1, <2>2 DEF ListTypeOK, world, Standings
  <1>9. Shown' = {PageOf(order)[n] : n \in 1 .. Len(PageOf(order))}
    BY <1>3 DEF Shown
  <1>10. Shown' \subseteq Find(query.scope)
    BY <1>6, <1>9
  <1>11. Clean' => Clean /\ ~ Tied(Find(query.scope))
    BY <1>1, <1>7 DEF Clean, Excuses
  <1>12. ASSUME Clean', NEW i \in Missing'  PROVE  Rank(i, Visible) >= page * PageSize
    <2>1. /\ i \in steady /\ i \notin seen
          /\ \A n \in 1 .. Len(PageOf(order)) : PageOf(order)[n].id # i
      BY <1>1, <1>9, <1>12 DEF Missing, IdsOf
    <2>2. i \in Missing
      BY <1>4, <2>1 DEF Missing, Shown, IdsOf
    <2>3. Find(query.scope) = Visible /\ i \in IdsOf(Visible)
      BY <2>1 DEF ListIInv, SteadyIsVisible, Serving, Visible
    <2>4. Rank(i, Visible) >= (page - 1) * PageSize
      BY <1>11, <1>12, <2>2 DEF ListIInv, MissingIsAhead, Passed, Serving
    <2>5. PICK q \in Visible : q.id = i
      BY <2>3 DEF IdsOf
    <2>6. ~ Tied(Visible) /\ order \in Orders(Visible)
      BY <1>11, <1>12, <2>3
    <2>7. Visible \in SUBSET Row /\ \A p, t \in Visible : p.id = t.id => p = t
      BY <1>5, <2>3
    <2>. QED  BY <1>4, <2>1, <2>4, <2>5, <2>6, <2>7, PageIsNext
  <1>. QED  BY <1>3, <1>8, <1>10, <1>11, <1>12

LEMMA ReadPageKeeps ==
  ASSUME ListIInv, ReadPage  PROVE  ListIInv'
  <1>. DEFINE r == [query EXCEPT !.total = Count(query.scope)]
  <1>1. /\ stage = "together" /\ stage' = "read" /\ Fetched(r)
        /\ NoteTies(Find(query.scope)) /\ Read
        /\ UNCHANGED <<kind, role, world, page, seen, last, steady, fresh, changes>>
    BY DEF ReadPage, Read
  <1>2. ListTypeOK /\ Serving /\ ~ query.fetched /\ kind # "notifications"
    BY <1>1 DEF ListIInv, WalkInStep, Serving, CountedApart
  <1>3. /\ Count(query.scope) \in 0 .. MaxRows
        /\ Count(query.scope) >= Cardinality(IdsOf(Find(query.scope)))
    BY <1>2, CountCovers
  <1>4. /\ r \in [scope : Scopes \cup {"unread"}, items : Seq(Row), fetched : BOOLEAN,
                  total : -1 .. MaxRows]
        /\ r.scope = query.scope /\ r.total = Count(query.scope)
    BY <1>2, <1>3 DEF ListTypeOK
  <1>. HIDE DEF r
  <1>5. /\ ListTypeOK'
        /\ query'.scope = query.scope /\ query'.fetched /\ query'.total = r.total
        /\ Shown' \subseteq Find(query.scope)
        /\ Clean' => Clean
        /\ Clean' => \A i \in Missing' : Rank(i, Visible) >= page * PageSize
    BY <1>1, <1>2, <1>4, FetchedIsNext
  <1>6. Visible' = Visible /\ ScopeOf' = ScopeOf
    BY <1>1, WorldStays
  <1>7. WalkInStep'
    BY <1>1, <1>2, <1>5 DEF ListIInv, WalkInStep, Serving
  <1>8. SteadyIsVisible'
    BY <1>1, <1>2, <1>5, <1>6 DEF ListIInv, SteadyIsVisible, Serving
  <1>9. FreshIsVisible'
    <2>1. fresh => query.scope = ScopeOf /\ last \subseteq Visible
      BY <1>2 DEF ListIInv, FreshIsVisible
    <2>. QED  BY <1>1, <1>5, <1>6, <2>1 DEF FreshIsVisible, Visible
  <1>10. ASSUME Clean'  PROVE  MissingIsAhead'
    <2>1. Passed' = page * PageSize
      BY <1>1, <1>5 DEF Passed
    <2>2. \A i \in Missing' : Rank(i, Visible) >= page * PageSize
      BY <1>5, <1>10
    <2>3. ASSUME NEW i \in Missing'  PROVE  page * PageSize < query'.total
      <3>1. i \in steady /\ i \in IdsOf(Visible) /\ Find(query.scope) = Visible
        BY <1>1, <1>2 DEF ListIInv, SteadyIsVisible, Missing, Visible
      <3>2. /\ Rank(i, Visible) \in Nat /\ Cardinality(IdsOf(Visible)) \in Nat
            /\ Rank(i, Visible) < Cardinality(IdsOf(Visible))
        BY <1>2, <3>1, RankIsBounded
      <3>3. query'.total >= Cardinality(IdsOf(Visible)) /\ query'.total \in Int
        BY <1>3, <1>4, <1>5, <3>1
      <3>4. page * PageSize \in Int
        BY <1>2, ListingsAssumption DEF ListTypeOK
      <3>. QED  BY <2>2, <3>2, <3>3, <3>4
    <2>4. page' * PageSize = page * PageSize
      BY <1>1
    <2>. QED  BY <1>1, <1>6, <2>1, <2>2, <2>3, <2>4 DEF MissingIsAhead
  <1>. QED  BY <1>5, <1>7, <1>8, <1>9, <1>10 DEF ListIInv

LEMMA FetchRowsKeeps ==
  ASSUME ListIInv, FetchRows  PROVE  ListIInv'
  <1>1. /\ stage = "apart" /\ stage' = "apart" /\ Fetched(query)
        /\ NoteTies(Find(query.scope)) /\ Read
        /\ UNCHANGED <<kind, role, world, page, seen, last, steady, fresh, changes>>
        /\ ~ query.fetched
    BY DEF FetchRows, Read
  <1>2. ListTypeOK /\ Serving /\ WalkInStep
    BY <1>1 DEF ListIInv, Serving
  <1>3. query \in [scope : Scopes \cup {"unread"}, items : Seq(Row), fetched : BOOLEAN,
                   total : -1 .. MaxRows]
    BY <1>2 DEF ListTypeOK
  <1>5. /\ ListTypeOK'
        /\ query'.scope = query.scope /\ query'.fetched /\ query'.total = query.total
        /\ Shown' \subseteq Find(query.scope)
        /\ Clean' => Clean
        /\ Clean' => \A i \in Missing' : Rank(i, Visible) >= page * PageSize
    BY <1>1, <1>2, <1>3, FetchedIsNext
  <1>6. Visible' = Visible /\ ScopeOf' = ScopeOf
    BY <1>1, WorldStays
  <1>7. WalkInStep'
    BY <1>1, <1>2, <1>5 DEF WalkInStep, Serving, CountedApart
  <1>8. SteadyIsVisible'
    BY <1>1, <1>2, <1>5, <1>6 DEF ListIInv, SteadyIsVisible, Serving
  <1>9. FreshIsVisible'
    <2>1. fresh => query.scope = ScopeOf /\ last \subseteq Visible
      BY <1>2 DEF ListIInv, FreshIsVisible
    <2>. QED  BY <1>1, <1>5, <1>6, <2>1 DEF FreshIsVisible, Visible
  <1>10. ASSUME Clean'  PROVE  MissingIsAhead'
    <2>1. Passed' = page * PageSize
      BY <1>1, <1>5 DEF Passed
    <2>2. \A i \in Missing' : Rank(i, Visible) >= page * PageSize
      BY <1>5, <1>10
    <2>3. query.total >= 0 => steady = {} \/ query.total >= Cardinality(IdsOf(Visible))
      BY <1>1, <1>5, <1>10 DEF ListIInv, MissingIsAhead
    <2>. QED  BY <1>1, <1>5, <1>6, <2>1, <2>2, <2>3 DEF MissingIsAhead
  <1>. QED  BY <1>5, <1>7, <1>8, <1>9, <1>10 DEF ListIInv

LEMMA CountRowsKeeps ==
  ASSUME ListIInv, CountRows  PROVE  ListIInv'
  <1>1. /\ stage = "apart" /\ stage' = "apart"
        /\ query' = [query EXCEPT !.total = Count(query.scope)]
        /\ UNCHANGED <<kind, role, world, page, seen, last, steady, causes, fresh, changes>>
    BY DEF CountRows, Read
  <1>2. ListTypeOK /\ Serving
    BY <1>1 DEF ListIInv, Serving
  <1>3. /\ Count(query.scope) \in 0 .. MaxRows
        /\ Count(query.scope) >= Cardinality(IdsOf(Find(query.scope)))
    BY <1>2, CountCovers
  <1>4. /\ query' \in [scope : Scopes \cup {"unread"}, items : Seq(Row), fetched : BOOLEAN,
                       total : -1 .. MaxRows]
        /\ query'.scope = query.scope /\ query'.total = Count(query.scope)
        /\ query'.items = query.items /\ query'.fetched = query.fetched
    BY <1>1, <1>2, <1>3 DEF ListTypeOK
  <1>5. Visible' = Visible /\ ScopeOf' = ScopeOf /\ Excuses' = Excuses
    BY <1>1, WorldStays
  <1>6. Shown' = Shown /\ Missing' = Missing /\ Passed' = Passed
    BY <1>1, <1>4 DEF Shown, Missing, Passed, IdsOf
  <1>7. ListTypeOK'
    <2>1. Len(query'.items) <= PageSize
      BY <1>2, <1>4 DEF ListTypeOK
    <2>. QED  BY <1>1, <1>2, <1>4, <2>1 DEF ListTypeOK, world, Standings
  <1>8. WalkInStep'
    BY <1>1, <1>4 DEF ListIInv, WalkInStep, Serving, CountedApart
  <1>9. SteadyIsVisible' /\ FreshIsVisible'
    BY <1>1, <1>4, <1>5, <1>6 DEF ListIInv, SteadyIsVisible, FreshIsVisible, Serving
  <1>10. ASSUME MissingIsAhead  PROVE  MissingIsAhead'
    <2>1. steady = {} \/ query'.total >= Cardinality(IdsOf(Visible))
      BY <1>1, <1>2, <1>3, <1>4 DEF ListIInv, SteadyIsVisible, Visible
    <2>. QED  BY <1>1, <1>5, <1>6, <1>10, <2>1 DEF MissingIsAhead
  <1>11. Clean' => Clean
    BY <1>1, <1>5 DEF Clean
  <1>. QED  BY <1>7, <1>8, <1>9, <1>10, <1>11 DEF ListIInv

LEMMA AnswerKeeps ==
  ASSUME ListIInv, Answer  PROVE  ListIInv'
  <1>1. /\ stage = "read" \/ (stage = "apart" /\ query.fetched /\ query.total >= 0)
        /\ last' = Shown /\ seen' = seen \cup IdsOf(last')
        /\ query' = NoQuery
        /\ \/ page * PageSize < query.total /\ stage' = "asked" /\ page' = page + 1
           \/ ~ (page * PageSize < query.total) /\ stage' = "done" /\ page' = page
        /\ UNCHANGED <<kind, role, world, steady, causes, fresh, changes>>
    BY DEF Answer, HasNextPage, Shown, ListIInv, ListTypeOK
  <1>2. ListTypeOK /\ Serving /\ query.fetched
    BY <1>1 DEF ListIInv, WalkInStep, Serving
  <1>3. Visible' = Visible /\ ScopeOf' = ScopeOf /\ Excuses' = Excuses
    BY <1>1, WorldStays
  <1>4. Shown \subseteq Row /\ IdsOf(Shown) \subseteq Ids
    <2>1. Shown \subseteq Row
      BY <1>2 DEF Shown, ListTypeOK
    <2>. QED  BY <2>1 DEF IdsOf, Row
  <1>5. ListTypeOK'
    <2>1. /\ query' \in [scope : Scopes \cup {"unread"}, items : Seq(Row), fetched : BOOLEAN,
                         total : -1 .. MaxRows]
          /\ Len(query'.items) <= PageSize
      BY <1>1, ListingsAssumption DEF NoQuery
    <2>2. page' \in Nat \ {0} /\ stage' \in {"asked", "done"}
      BY <1>1, <1>2 DEF ListTypeOK
    <2>3. last' \subseteq Row /\ seen' \subseteq Ids
      BY <1>1, <1>2, <1>4 DEF ListTypeOK
    <2>. QED  BY <1>1, <1>2, <2>1, <2>2, <2>3 DEF ListTypeOK, world, Standings
  <1>6. Shown' = {}
    BY <1>1 DEF Shown, NoQuery
  <1>7. WalkInStep'
    BY <1>1 DEF WalkInStep, Serving, NoQuery
  <1>8. SteadyIsVisible'
    BY <1>1, <1>2, <1>3 DEF ListIInv, SteadyIsVisible, Serving
  <1>9. FreshIsVisible'
    BY <1>1, <1>3, <1>6 DEF ListIInv, FreshIsVisible, Serving
  <1>10. ASSUME MissingIsAhead  PROVE  MissingIsAhead'
    <2>1. Missing' = Missing /\ Missing = steady \ seen'
      BY <1>1, <1>6 DEF Missing, IdsOf
    <2>2. \A i \in Missing : Rank(i, Visible) >= page * PageSize
      BY <1>1, <1>2, <1>10 DEF MissingIsAhead, Passed
    <2>3. CASE stage' = "asked"
      <3>1. page' - 1 = page
        BY <1>1, <1>2, <2>3 DEF ListTypeOK
      <3>2. Passed' = page * PageSize
        BY <1>1, <3>1 DEF Passed, NoQuery
      <3>. QED  BY <1>3, <2>1, <2>2, <2>3, <3>2 DEF MissingIsAhead
    <2>4. CASE stage' = "done"
      <3>1. ~ (page * PageSize < query.total)
        BY <1>1, <2>4
      <3>2. ASSUME NEW i \in Missing  PROVE  FALSE
        <4>1. i \in IdsOf(Visible) /\ steady # {}
          BY <1>1 DEF Missing, ListIInv, SteadyIsVisible
        <4>2. /\ Rank(i, Visible) \in Nat /\ Cardinality(IdsOf(Visible)) \in Nat
              /\ Rank(i, Visible) < Cardinality(IdsOf(Visible))
          BY <1>2, <4>1, RankIsBounded
        <4>3. stage = "apart" /\ query.total >= Cardinality(IdsOf(Visible))
          BY <1>1, <1>10, <3>1, <3>2, <4>1 DEF MissingIsAhead
        <4>4. page * PageSize \in Int /\ query.total \in Int
          BY <1>2, ListingsAssumption DEF ListTypeOK
        <4>. QED  BY <2>2, <3>1, <4>2, <4>3, <4>4
      <3>. QED  BY <2>1, <2>4, <3>2, <1>1 DEF MissingIsAhead
    <2>. QED  BY <1>1, <2>3, <2>4
  <1>11. Clean' => Clean
    BY <1>1, <1>3 DEF Clean
  <1>. QED  BY <1>5, <1>7, <1>8, <1>9, <1>10, <1>11 DEF ListIInv

-----------------------------------------------------------------------------
(* The steps of the world, which leave the walk where it is.                *)
KeysStay == \A r \in rows, s \in rows' : r.id = s.id => r.at = s.at

LEMMA FoundAreRowsNext ==
  ASSUME ListTypeOK, kind' = kind
  PROVE  Visible' \subseteq rows'
  <1>1. kind' \in AllKinds
    BY ListingsAssumption DEF ListTypeOK
  <1>2. InScope(ScopeOf)' \subseteq rows'
    BY DEF InScope, With
  <1>3. BuildScopedWhere(ScopeOf)' \subseteq rows' /\ AccessFilter' \subseteq rows'
    BY <1>2 DEF BuildScopedWhere, AccessFilter, With
  <1>. QED  BY <1>1, <1>2, <1>3 DEF AllKinds, Visible, Find, FindAllUsers, FindByRole,
            FindAllClasses, FindAllResources, FindAllPayments, ListMembershipsForOwner,
            ListMembershipsForUser, ListDirectory, ListForAdmin, FindAllRecordings,
            ListPaymentsAdmin, ListSubscriptionsAdmin, ListCoupons, ListContactMessages,
            ListNotifications, GetTransactions, GetTeacherCreditAuditLog, With

(* A viewer whose scope changes sees nothing before or nothing after.       *)
LEMMA ScopeOpensOrCloses ==
  ASSUME ListTypeOK, UNCHANGED <<kind, role>>, ScopeOf' # ScopeOf
  PROVE  Visible = {} \/ Visible' = {}
  <1>1. kind \in Scoped /\ role # "admin"
    <2>1. kind \in Scoped
      BY DEF ScopeOf, Scoped
    <2>2. role = "admin" => kind \notin {"members", "audit"}
      BY DEF ListTypeOK, Viewers
    <2>. QED  BY <2>1, <2>2 DEF Scoped, ScopeOf, GetAccessibleAcademyScope,
              ResolveAccessibleAcademyIds, ResolveAccessibleAcademyIdsForRole, AcademyOfOwner
  <1>2. ScopeOf \in {"home", "none", "refused"} /\ ScopeOf' \in {"home", "none", "refused"}
    BY <1>1 DEF Scoped, ScopeOf, GetAccessibleAcademyScope, ResolveAccessibleAcademyIds,
       ResolveAccessibleAcademyIdsForRole, RequireOwnerAcademy, AcademyOfOwner,
       AssertTeacherBelongsToAcademy
  <1>3. CASE ScopeOf \in {"none", "refused"}
    BY <1>1, <1>3, NothingWithoutScope DEF Visible
  <1>4. CASE ScopeOf' \in {"none", "refused"}
    <2>1. InScope(ScopeOf)' = {} /\ BuildScopedWhere(ScopeOf)' = {}
      BY <1>4 DEF InScope, BuildScopedWhere
    <2>. QED  BY <1>1, <2>1 DEF Scoped, Visible, Find, FindAllUsers, FindByRole, FindAllClasses,
              FindAllResources, ListMembershipsForOwner, FindAllRecordings,
              GetTeacherCreditAuditLog
  <1>. QED  BY <1>2, <1>3, <1>4

(* Rows that stay, with their keys, stay ahead.                             *)
LEMMA AheadStays ==
  ASSUME NEW R, NEW S, IdsOf(R) \subseteq IdsOf(S), IsFiniteSet(IdsOf(S)), NEW i \in IdsOf(S),
         \A r \in R, s \in S : r.id = s.id => r.at = s.at
  PROVE  Rank(i, R) \in Nat /\ Rank(i, S) \in Nat /\ Rank(i, R) <= Rank(i, S)
  <1>1. Ahead(i, S) \subseteq IdsOf(S)
    BY DEF Ahead
  <1>2. Ahead(i, R) \subseteq Ahead(i, S)
    <2>. SUFFICES ASSUME NEW n \in Ahead(i, R)  PROVE  n \in Ahead(i, S)
      OBVIOUS
    <2>1. PICK r \in R, s \in R : r.id = n /\ s.id = i /\ r.at > s.at
      BY DEF Ahead
    <2>2. n \in IdsOf(S)
      BY DEF Ahead
    <2>3. PICK p \in S, q \in S : p.id = n /\ q.id = i
      BY <2>2 DEF IdsOf
    <2>4. r.at = p.at /\ s.at = q.at
      BY <2>1, <2>3
    <2>. QED  BY <2>1, <2>2, <2>3, <2>4 DEF Ahead
  <1>3. IsFiniteSet(Ahead(i, S))
    BY <1>1, FS_Subset
  <1>4. IsFiniteSet(Ahead(i, R)) /\ Cardinality(Ahead(i, R)) <= Cardinality(Ahead(i, S))
    BY <1>2, <1>3, FS_Subset
  <1>. QED  BY <1>3, <1>4, FS_CardinalityType DEF Rank

LEMMA NotedKeeps ==
  ASSUME ListIInv, NEW cause \in SUBSET {"moved"}, Noted(cause),
         rows' \subseteq Row, \A r, s \in rows' : r.id = s.id => r = s,
         standing' \in Standings, "moved" \in cause \/ KeysStay
  PROVE  ListIInv'
  <1>1. /\ stage \notin {"idle", "done", "refused"}
        /\ changes < MaxChanges /\ changes' = changes + 1
        /\ UNCHANGED <<kind, role, page, stage, query, seen, last>>
        /\ steady' = steady \cap IdsOf(Visible') /\ fresh' = FALSE
        /\ causes' = causes \cup cause
             \cup (IF IdsOf(Visible) \subseteq IdsOf(Visible') THEN {} ELSE {"removed"})
             \cup (IF IdsOf(Visible') \subseteq IdsOf(Visible) THEN {} ELSE {"inserted"})
    BY DEF Noted, walk
  <1>2. ListTypeOK /\ WalkInStep /\ SteadyIsVisible
    BY DEF ListIInv
  <1>3. ListTypeOK'
    <2>1. causes' \subseteq {"removed", "inserted", "moved", "tie"} /\ steady' \subseteq Ids
      BY <1>1, <1>2 DEF ListTypeOK
    <2>2. changes' \in 0 .. MaxChanges
      BY <1>1, <1>2, ListingsAssumption DEF ListTypeOK
    <2>. QED  BY <1>1, <1>2, <2>1, <2>2 DEF ListTypeOK, Standings
  <1>4. WalkInStep'
    <2>1. stage # "idle" /\ ~ Serving' = ~ Serving
      BY <1>1 DEF Serving
    <2>. QED  BY <1>1, <1>2, <2>1 DEF WalkInStep, CountedApart, Serving
  <1>5. Serving => steady' = {} \/ query.scope = ScopeOf'
    <2>1. CASE ScopeOf' = ScopeOf
      BY <1>1, <1>2, <2>1 DEF SteadyIsVisible
    <2>2. CASE ScopeOf' # ScopeOf
      <3>1. Visible = {} \/ Visible' = {}
        BY <1>1, <1>2, <2>2, ScopeOpensOrCloses
      <3>2. steady' = {}
        BY <1>1, <1>2, <3>1 DEF SteadyIsVisible, IdsOf
      <3>. QED  BY <3>2
    <2>. QED  BY <2>1, <2>2
  <1>6. SteadyIsVisible'
    BY <1>1, <1>5 DEF SteadyIsVisible, Serving
  <1>7. FreshIsVisible'
    BY <1>1 DEF FreshIsVisible
  <1>8. ASSUME Clean'  PROVE  Clean /\ MissingIsAhead'
    <2>1. /\ Clean /\ IdsOf(Visible) \subseteq IdsOf(Visible') /\ KeysStay
          /\ kind \in CountedApart => IdsOf(Visible') \subseteq IdsOf(Visible)
      BY <1>1, <1>8 DEF Clean, Excuses, CountedApart
    <2>2. MissingIsAhead
      BY <2>1 DEF ListIInv
    <2>3. Shown' = Shown /\ Passed' = Passed /\ Missing' \subseteq Missing
      BY <1>1 DEF Shown, Passed, Missing, IdsOf
    <2>4. Visible \subseteq rows /\ Visible' \subseteq rows'
      BY <1>1, <1>2, FoundAreRows, FoundAreRowsNext DEF Visible
    <2>5. IsFiniteSet(IdsOf(Visible'))
      BY <2>4, DistinctRows
    <2>6. \A r \in Visible, s \in Visible' : r.id = s.id => r.at = s.at
      BY <2>1, <2>4 DEF KeysStay
    <2>7. ASSUME NEW i \in Missing'  PROVE  Rank(i, Visible') >= Passed'
      <3>1. i \in Missing /\ i \in IdsOf(Visible')
        BY <1>1, <2>3 DEF Missing
      <3>2. Rank(i, Visible) >= Passed
        BY <1>1, <2>2, <3>1 DEF MissingIsAhead
      <3>3. /\ Rank(i, Visible) \in Nat /\ Rank(i, Visible') \in Nat
            /\ Rank(i, Visible) <= Rank(i, Visible')
        BY <2>1, <2>5, <2>6, <3>1, AheadStays
      <3>4. Passed \in Int
        BY <1>2, ListingsAssumption DEF Passed, ListTypeOK
      <3>. QED  BY <2>3, <3>2, <3>3, <3>4
    <2>8. stage = "read" => Missing' = {} \/ page * PageSize < query.total
      BY <2>2, <2>3 DEF MissingIsAhead
    <2>9. stage = "apart" /\ query.total >= 0 =>
            steady' = {} \/ query.total >= Cardinality(IdsOf(Visible'))
      <3>1. stage = "apart" => IdsOf(Visible') = IdsOf(Visible)
        BY <1>2, <2>1 DEF WalkInStep
      <3>2. steady = {} => steady' = {}
        BY <1>1
      <3>. QED  BY <2>2, <3>1, <3>2 DEF MissingIsAhead
    <2>. QED  BY <1>1, <2>1, <2>7, <2>8, <2>9 DEF MissingIsAhead
  <1>. QED  BY <1>3, <1>4, <1>6, <1>7, <1>8 DEF ListIInv

LEMMA InsertKeeps ==
  ASSUME ListIInv, NEW tags \in SUBSET AllTags, Insert(tags)  PROVE  ListIInv'
  <1>1. PICK i \in Ids \ IdsOf(rows), k \in NewKeys :
          rows' = rows \cup {[id |-> i, at |-> k, tags |-> tags]}
    BY DEF Insert
  <1>2. ListTypeOK /\ standing' = standing /\ Noted({})
    BY DEF ListIInv, Insert
  <1>. DEFINE new == [id |-> i, at |-> k, tags |-> tags]
  <1>3. new \in Row /\ new.id = i /\ \A r \in rows : r.id # i
    BY <1>1 DEF Row, NewKeys, IdsOf
  <1>4. rows' = rows \cup {new}
    BY <1>1
  <1>. HIDE DEF new
  <1>5. rows' \subseteq Row /\ \A r, s \in rows' : r.id = s.id => r = s
    BY <1>2, <1>3, <1>4 DEF ListTypeOK
  <1>6. KeysStay
    BY <1>2, <1>3, <1>4 DEF KeysStay, ListTypeOK
  <1>7. standing' \in Standings
    BY <1>2 DEF ListTypeOK
  <1>. QED  BY <1>2, <1>5, <1>6, <1>7, NotedKeeps

LEMMA RetagKeeps ==
  ASSUME ListIInv, NEW R \in SUBSET rows, NEW lost \in SUBSET AllTags,
         NEW gained \in SUBSET AllTags, Retag(R, lost, gained)
  PROVE  ListIInv'
  <1>. DEFINE Retagged(r) == [r EXCEPT !.tags = (@ \ lost) \cup gained]
  <1>1. /\ rows' = (rows \ R) \cup {Retagged(r) : r \in R}
        /\ ListTypeOK /\ standing' = standing /\ Noted({})
    BY DEF ListIInv, Retag
  <1>2. \A r \in R : Retagged(r) \in Row /\ Retagged(r).id = r.id /\ Retagged(r).at = r.at
    BY <1>1 DEF ListTypeOK, Row
  <1>. HIDE DEF Retagged
  <1>3. ASSUME NEW s \in rows'
        PROVE  s \in Row /\ \E r \in rows : /\ r.id = s.id /\ r.at = s.at
                                            /\ s = IF r \in R THEN Retagged(r) ELSE r
    <2>1. CASE s \in rows \ R
      BY <1>1, <2>1 DEF ListTypeOK
    <2>2. CASE \E r \in R : s = Retagged(r)
      BY <1>2, <2>2
    <2>. QED  BY <1>1, <2>1, <2>2
  <1>4. \A r, s \in rows : r.id = s.id => r = s
    BY <1>1 DEF ListTypeOK
  <1>5. rows' \subseteq Row /\ \A r, s \in rows' : r.id = s.id => r = s
    <2>. SUFFICES ASSUME NEW s \in rows', NEW t \in rows', s.id = t.id  PROVE  s = t
      BY <1>3
    <2>1. PICK r \in rows : r.id = s.id /\ s = IF r \in R THEN Retagged(r) ELSE r
      BY <1>3
    <2>2. PICK q \in rows : q.id = t.id /\ t = IF q \in R THEN Retagged(q) ELSE q
      BY <1>3
    <2>3. r = q
      BY <1>4, <2>1, <2>2
    <2>. QED  BY <2>1, <2>2, <2>3
  <1>6. KeysStay
    BY <1>3, <1>4 DEF KeysStay
  <1>7. standing' \in Standings
    BY <1>1 DEF ListTypeOK
  <1>. QED  BY <1>1, <1>5, <1>6, <1>7, NotedKeeps

LEMMA MoveKeeps ==
  ASSUME ListIInv, Move  PROVE  ListIInv'
  <1>1. PICK r \in rows, k \in NewKeys : rows' = (rows \ {r}) \cup {[r EXCEPT !.at = k]}
    BY DEF Move
  <1>2. ListTypeOK /\ standing' = standing /\ Noted({"moved"})
    BY DEF ListIInv, Move
  <1>. DEFINE q == [r EXCEPT !.at = k]
  <1>3. q \in Row /\ q.id = r.id
    BY <1>1, <1>2 DEF ListTypeOK, Row, NewKeys
  <1>4. rows' = (rows \ {r}) \cup {q}
    BY <1>1
  <1>. HIDE DEF q
  <1>5. rows' \subseteq Row /\ \A p, s \in rows' : p.id = s.id => p = s
    BY <1>1, <1>2, <1>3, <1>4 DEF ListTypeOK
  <1>6. standing' \in Standings
    BY <1>2 DEF ListTypeOK
  <1>. QED  BY <1>2, <1>5, <1>6, NotedKeeps

LEMMA DeleteKeeps ==
  ASSUME ListIInv, Delete  PROVE  ListIInv'
  <1>1. rows' \subseteq rows /\ ListTypeOK /\ standing' = standing /\ Noted({})
    BY DEF ListIInv, Delete
  <1>2. rows' \subseteq Row /\ \A r, s \in rows' : r.id = s.id => r = s
    BY <1>1 DEF ListTypeOK
  <1>3. KeysStay /\ standing' \in Standings
    BY <1>1 DEF KeysStay, ListTypeOK
  <1>. QED  BY <1>1, <1>2, <1>3, NotedKeeps

LEMMA SetStandingKeeps ==
  ASSUME ListIInv, SetStanding  PROVE  ListIInv'
  <1>1. rows' = rows /\ ListTypeOK /\ standing' \in Standings /\ Noted({})
    BY DEF ListIInv, SetStanding
  <1>2. rows' \subseteq Row /\ \A r, s \in rows' : r.id = s.id => r = s
    BY <1>1 DEF ListTypeOK
  <1>3. KeysStay
    BY <1>1 DEF KeysStay, ListTypeOK
  <1>. QED  BY <1>1, <1>2, <1>3, NotedKeeps

LEMMA WorldKeeps ==
  ASSUME ListIInv, World  PROVE  ListIInv'
  <1>1. Tags(kind) \subseteq AllTags
    BY DEF Tags, AllTags
  <1>2. CASE Create
    BY <1>1, <1>2, InsertKeeps DEF Create
  <1>3. CASE Edit
    <2>1. PICK r \in rows, tag \in Tags(kind) \ Fixed : Retag({r}, {tag}, {tag} \ r.tags)
      BY <1>3 DEF Edit
    <2>2. {tag} \in SUBSET AllTags /\ {tag} \ r.tags \in SUBSET AllTags /\ {r} \in SUBSET rows
      BY <1>1
    <2>. QED  BY <2>1, <2>2, RetagKeeps
  <1>4. CASE Notify
    <2>1. PICK mine \in SUBSET {"mine"} : Insert(mine \cup {"asked"})
      BY <1>4 DEF Notify
    <2>2. mine \cup {"asked"} \in SUBSET AllTags
      BY DEF AllTags
    <2>. QED  BY <2>1, <2>2, InsertKeeps
  <1>5. /\ {"asked"} \in SUBSET AllTags /\ {} \in SUBSET AllTags
        /\ With("mine") \cap With("asked") \in SUBSET rows
    BY DEF AllTags, With
  <1>6. CASE MarkRead
    <2>1. PICK r \in With("mine") \cap With("asked") : Retag({r}, {"asked"}, {})
      BY <1>6 DEF MarkRead
    <2>. QED  BY <1>5, <2>1, RetagKeeps
  <1>7. CASE MarkAllRead
    BY <1>5, <1>7, RetagKeeps DEF MarkAllRead
  <1>8. CASE UpdateContactStatus
    <2>1. PICK r \in rows, tags \in SUBSET {"asked"} : Retag({r}, {"asked"}, tags)
      BY <1>8 DEF UpdateContactStatus
    <2>2. tags \in SUBSET AllTags /\ {r} \in SUBSET rows
      BY <1>5
    <2>. QED  BY <1>5, <2>1, <2>2, RetagKeeps
  <1>. QED  BY <1>2, <1>3, <1>4, <1>6, <1>7, <1>8,
            MoveKeeps, DeleteKeeps, SetStandingKeeps DEF World

-----------------------------------------------------------------------------
LEMMA ListingStarts ==
  ASSUME ListInit  PROVE  ListIInv
  <1>1. PICK one \in SUBSET Tags(kind), two \in SUBSET Tags(kind), top \in {1, 2} :
          rows = {[id |-> 1, at |-> top, tags |-> one], [id |-> 2, at |-> 1, tags |-> two]}
    BY DEF ListInit
  <1>2. /\ kind \in Kinds /\ role \in Viewers(kind) /\ standing \in Standings
        /\ page = 1 /\ stage = "idle" /\ query = NoQuery /\ changes = 0 /\ fresh = FALSE
        /\ seen = {} /\ last = {} /\ steady = {} /\ causes = {}
    BY DEF ListInit
  <1>3. rows \subseteq Row /\ \A r, s \in rows : r.id = s.id => r = s
    <2>1. Tags(kind) \subseteq AllTags
      BY DEF Tags, AllTags
    <2>2. {1, 2} \subseteq Ids /\ {1, 2} \subseteq Keys
      BY ListingsAssumption DEF Ids, Keys
    <2>. QED  BY <1>1, <2>1, <2>2 DEF Row
  <1>4. ListTypeOK
    <2>1. /\ query \in [scope : Scopes \cup {"unread"}, items : Seq(Row), fetched : BOOLEAN,
                        total : -1 .. MaxRows]
          /\ Len(query.items) <= PageSize
      BY <1>2, ListingsAssumption DEF NoQuery
    <2>2. changes \in 0 .. MaxChanges
      BY <1>2, ListingsAssumption
    <2>3. page \in Nat \ {0}
      BY <1>2
    <2>4. fresh \in BOOLEAN
      BY <1>2
    <2>. QED  BY <1>2, <1>3, <2>1, <2>2, <2>3, <2>4 DEF ListTypeOK
  <1>5. WalkInStep /\ SteadyIsVisible /\ FreshIsVisible
    BY <1>2 DEF WalkInStep, SteadyIsVisible, FreshIsVisible, Serving, NoQuery
  <1>6. MissingIsAhead
    BY <1>2 DEF MissingIsAhead, Missing
  <1>. QED  BY <1>4, <1>5, <1>6 DEF ListIInv

LEMMA ListingGoesOn ==
  ASSUME ListIInv, [ListNext]_listVars  PROVE  ListIInv'
  <1>1. CASE ListNext
    BY <1>1, AskKeeps, ReadScopeKeeps, ReadPageKeeps, FetchRowsKeeps, CountRowsKeeps,
       AnswerKeeps, WorldKeeps DEF ListNext
  <1>2. CASE UNCHANGED listVars
    <2>1. /\ UNCHANGED <<kind, role, world, page, stage, query>>
          /\ UNCHANGED <<seen, last, steady, causes, fresh, changes>>
      BY <1>2 DEF listVars, walk, listHistory
    <2>2. Visible' = Visible /\ ScopeOf' = ScopeOf /\ Excuses' = Excuses
      BY <2>1, WorldStays
    <2>3. ListTypeOK' /\ WalkInStep'
      BY <2>1 DEF ListIInv, ListTypeOK, WalkInStep, world, Standings, Serving, CountedApart
    <2>4. Shown' = Shown /\ Missing' = Missing /\ Passed' = Passed
      BY <2>1 DEF Shown, Missing, Passed, IdsOf
    <2>5. SteadyIsVisible' /\ FreshIsVisible'
      BY <2>1, <2>2, <2>4 DEF ListIInv, SteadyIsVisible, FreshIsVisible, Serving
    <2>6. Clean' => MissingIsAhead'
      BY <2>1, <2>2, <2>4 DEF ListIInv, Clean, MissingIsAhead
    <2>. QED  BY <2>3, <2>5, <2>6 DEF ListIInv
  <1>. QED  BY <1>1, <1>2

(* The inductive invariant of the listings: what is missing is still ahead.  *)
THEOREM ListingInvariance == ListSpec => []ListIInv
  <1>1. ListInit => ListIInv
    BY ListingStarts
  <1>2. ListIInv /\ [ListNext]_listVars => ListIInv'
    BY ListingGoesOn
  <1>. QED  BY <1>1, <1>2, PTL DEF ListSpec

(* The rows, the request being served and the history stay within their      *)
(* types, and rows keep ids of their own.                                   *)
THEOREM ListingTyped == ListSpec => []ListTypeOK
  <1>1. ListIInv => ListTypeOK
    BY DEF ListIInv
  <1>. QED  BY <1>1, ListingInvariance, PTL

(* A walk to the last page returns every row that was visible all along,     *)
(* however many rows a page has and however long the listing is, unless one *)
(* of the excuses happened.                                                 *)
THEOREM WalksComplete == ListSpec => []WalkIsComplete
  <1>1. ListIInv => WalkIsComplete
    BY DEF ListIInv, WalkIsComplete, Clean, MissingIsAhead
  <1>. QED  BY <1>1, ListingInvariance, PTL

(* A viewer can open what any listing has shown him, as long as nothing has  *)
(* changed since.                                                           *)
THEOREM ListedIsOpen == ListSpec => []ListedCanBeOpened
  <1>1. ASSUME ListIInv  PROVE  ListedCanBeOpened
    <2>. SUFFICES ASSUME fresh, stage \in {"asked", "done"}, kind = "byRole" => role \in Elevated,
                         NEW r \in last
                  PROVE  CanOpen(r)
      BY DEF ListedCanBeOpened
    <2>1. r \in Visible /\ ListTypeOK
      BY <1>1 DEF ListIInv, FreshIsVisible
    <2>. QED  BY <2>1, VisibleCanBeOpened
  <1>. QED  BY <1>1, ListingInvariance, PTL
=============================================================================
