---------------------------- MODULE AccountsProofs ----------------------------
(* The safety of Accounts for every finite set of addresses and every set of *)
(* clients.                                                                 *)
EXTENDS Accounts, FiniteSetTheorems, TLAPS

Active(c) == req[c] # NoRequest
Holds(c) == Active(c) /\ req[c].row # NoRow
Creator(c) == Holds(c) /\ req[c].op = "create"

(* Where a request is says what it is doing and which row it has. *)
Fits(c) ==
  /\ pc[c] = "idle" <=> req[c] = NoRequest
  /\ pc[c] \in {"counting", "inserting"} =>
       /\ req[c].op = "create" /\ req[c].row = NoRow
       /\ pc[c] = "counting" => req[c].role = "SUPER_ADMIN"
  /\ pc[c] \in {"provisioning", "founding"} =>
       req[c].op \in {"create", "heal"} /\ req[c].row # NoRow
  /\ pc[c] \in {"grantcheck", "granting", "undoing"} => Creator(c)
  /\ pc[c] = "writing" =>
       /\ req[c].row # NoRow
       /\ req[c].op = "update" => ~ Promotes(req[c].row.role, req[c].role)
  /\ pc[c] = "booting" =>
       req[c].op = "boot" /\ req[c].e = BootEmail /\ req[c].role = "SUPER_ADMIN"
RequestsFit == \A c \in Clients : Fits(c)

(* A row's date is its identity.  Who read a row came after it was written;  *)
(* so once it is gone, a row written anew is younger than any that a request *)
(* still holds, and a row has one creator.                                  *)
RowsAreDated ==
  /\ \A e \in Emails : user[e] # NoRow => user[e].born <= begun
  /\ \A c \in Clients : Holds(c) =>
       /\ req[c].row.born <= begun
       /\ req[c].op # "create" \/ ~ Same(req[c].e, req[c].row) => req[c].row.born < begun
  /\ \A c, d \in Clients :
       /\ Creator(c) /\ Creator(d) /\ req[c].e = req[d].e
       /\ req[c].row.born = req[d].row.born
       => c = d

(* Academy and credits go with the user's row. *)
NothingOutlivesItsUser == \A e \in Emails : user[e] = NoRow => e \notin academy /\ granted[e] = 0

(* What the creation of an owner's account has done by the time it is where  *)
(* it is, as long as its row is there.                                      *)
CreationInOrder ==
  \A c \in Clients : Creator(c) /\ Same(req[c].e, req[c].row) =>
    /\ pc[c] \in {"provisioning", "founding", "grantcheck", "granting"} => granted[req[c].e] = 0
    /\ pc[c] \in {"grantcheck", "granting"} => req[c].e \in academy

(* Without a rival, super admins are made one at a time, and the one that is *)
(* about to be inserted finds none.                                         *)
CrownsInTurn ==
  ~ rivals =>
    /\ \A e, f \in SuperAdmins : e = f
    /\ \A c, d \in Clients : Crowning(c) /\ Crowning(d) => c = d
    /\ \A c \in Clients : Crowning(c) /\ pc[c] = "inserting" => SuperAdmins = {}

IInv == /\ TypeOK /\ RequestsFit /\ RowsAreDated /\ NothingOutlivesItsUser
        /\ CreationInOrder /\ OwnersAreProvisioned /\ CrownsInTurn

-----------------------------------------------------------------------------
LEMMA AtMostOne ==
  ASSUME NEW S, IsFiniteSet(S)
  PROVE  Cardinality(S) <= 1 <=> \A x, y \in S : x = y
  <1>1. ASSUME NEW x \in S, NEW y \in S, x # y  PROVE ~ (Cardinality(S) <= 1)
    <2>1. {x, y} \subseteq S
      BY <1>1
    <2>2. IsFiniteSet({x}) /\ Cardinality({x}) = 1
      BY FS_Singleton
    <2>3. Cardinality({x} \cup {y}) = 2
      BY <1>1, <2>2, FS_AddElement
    <2>4. Cardinality({x, y}) <= Cardinality(S) /\ {x} \cup {y} = {x, y}
      BY <2>1, FS_Subset
    <2>5. Cardinality(S) \in Nat
      BY FS_CardinalityType
    <2>. QED  BY <2>3, <2>4, <2>5
  <1>2. ASSUME \A x, y \in S : x = y  PROVE Cardinality(S) <= 1
    <2>1. CASE S = {}
      BY <2>1, FS_EmptySet
    <2>2. CASE S # {}
      <3>1. PICK x \in S : S = {x}
        BY <1>2, <2>2
      <3>. QED  BY <3>1, FS_Singleton
    <2>. QED  BY <2>1, <2>2
  <1>. QED  BY <1>1, <1>2

LEMMA SuperAdminsAreFinite == IsFiniteSet(SuperAdmins)
  <1>1. SuperAdmins \subseteq Emails
    BY DEF SuperAdmins
  <1>. QED  BY <1>1, AccountsAssumption, FS_Subset

LEMMA InitIInv == Init => IInv
  <1>. SUFFICES ASSUME Init  PROVE IInv
    OBVIOUS
  <1>1. \A r \in Roles : [role |-> r, made |-> r, born |-> 0] \in Rows
    BY DEF Rows
  <1>2. user \in [Emails -> Rows \cup {NoRow}]
    BY <1>1 DEF Init
  <1>3. \A e \in Emails : user[e] # NoRow => user[e].born = 0 /\ user[e].made = user[e].role
    BY DEF Init
  <1>4. granted \in [Emails -> Nat]
    BY AccountsAssumption DEF Init
  <1>5. TypeOK
    <2>1. academy \subseteq Emails /\ faulted \subseteq Emails /\ rivals \in BOOLEAN
      BY DEF Init
    <2>0. begun \in 0 .. MaxRequests
      BY AccountsAssumption DEF Init
    <2>2. /\ pc \in [Clients -> {"idle", "counting", "inserting", "provisioning", "founding",
                                 "grantcheck", "granting", "undoing", "writing", "booting"}]
          /\ req \in [Clients -> Requests \cup {NoRequest}]
      BY DEF Init
    <2>. QED  BY <1>2, <1>4, <2>0, <2>1, <2>2 DEF TypeOK
  <1>6. RequestsFit /\ CreationInOrder
    BY DEF Init, RequestsFit, Fits, CreationInOrder, Creator, Holds, Active
  <1>7. RowsAreDated
    BY <1>3 DEF Init, RowsAreDated, Creator, Holds, Active
  <1>8. NothingOutlivesItsUser /\ OwnersAreProvisioned
    BY <1>3 DEF Init, NothingOutlivesItsUser, OwnersAreProvisioned
  <1>9. CrownsInTurn
    BY SuperAdminsAreFinite, AtMostOne DEF Init, CrownsInTurn, Crowning
  <1>. QED  BY <1>5, <1>6, <1>7, <1>8, <1>9 DEF IInv

-----------------------------------------------------------------------------
(* A request at work, and the row it holds. *)
LEMMA AtWork ==
  ASSUME IInv, NEW c \in Clients, Active(c)
  PROVE  /\ req[c] \in Requests /\ req[c].e \in Emails /\ req[c].role \in Roles
         /\ req[c].row # NoRow => req[c].row \in Rows /\ req[c].row.born \in Nat
  BY DEF IInv, TypeOK, Requests, Rows, Active

LEMMA RowsInTable ==
  ASSUME IInv, NEW e \in Emails, user[e] # NoRow
  PROVE  user[e] \in Rows /\ user[e].born \in Nat /\ user[e].born <= begun
  BY DEF IInv, TypeOK, Rows, RowsAreDated

(* No crown is taken up and none is added, unless a rival is on record. *)
LEMMA CrownsKept ==
  ASSUME IInv, rivals' \in BOOLEAN,
         ~ rivals' => /\ ~ rivals /\ SuperAdmins' \subseteq SuperAdmins
                      /\ \A d \in Clients : Crowning(d)' =>
                           /\ Crowning(d)
                           /\ pc'[d] = "inserting" => pc[d] = "inserting" \/ SuperAdmins = {}
  PROVE  CrownsInTurn'
  <1>. SUFFICES ASSUME ~ rivals'
                PROVE  /\ \A e, f \in SuperAdmins' : e = f
                       /\ \A c, d \in Clients : Crowning(c)' /\ Crowning(d)' => c = d
                       /\ \A c \in Clients :
                            Crowning(c)' /\ pc'[c] = "inserting" => SuperAdmins' = {}
    BY DEF CrownsInTurn
  <1>. QED  BY DEF IInv, CrownsInTurn

Steps == {"idle", "inserting", "provisioning", "founding", "grantcheck", "granting", "undoing"}

(* A request goes on: whoever comes to provision an account holds its row. *)
LEMMA GotoFits ==
  ASSUME IInv, NEW c \in Clients, NEW step \in Steps, pc[c] # "idle", Goto(c, step),
         step = "inserting" => pc[c] = "counting",
         step \in {"provisioning", "founding"} => req[c].op \in {"create", "heal"} /\ Holds(c),
         step \in {"grantcheck", "granting", "undoing"} => Creator(c)
  PROVE  /\ Active(c) /\ pc'[c] = step /\ begun' = begun
         /\ req'[c] = IF step = "idle" THEN NoRequest ELSE req[c]
         /\ pc' \in [Clients -> {"idle", "counting", "inserting", "provisioning", "founding",
                                 "grantcheck", "granting", "undoing", "writing", "booting"}]
         /\ req' \in [Clients -> Requests \cup {NoRequest}]
         /\ \A d \in Clients \ {c} : pc'[d] = pc[d] /\ req'[d] = req[d]
         /\ RequestsFit'
  <1>1. Active(c)
    BY DEF IInv, RequestsFit, Fits, Active
  <1>2. /\ pc'[c] = step /\ begun' = begun
        /\ req'[c] = IF step = "idle" THEN NoRequest ELSE req[c]
        /\ \A d \in Clients \ {c} : pc'[d] = pc[d] /\ req'[d] = req[d]
    BY DEF Goto, IInv, TypeOK
  <1>3. /\ pc' \in [Clients -> {"idle", "counting", "inserting", "provisioning", "founding",
                                "grantcheck", "granting", "undoing", "writing", "booting"}]
        /\ req' \in [Clients -> Requests \cup {NoRequest}]
    BY DEF Goto, IInv, TypeOK, Steps
  <1>4. ASSUME NEW d \in Clients
        PROVE  Fits(d)'
    <2>1. CASE d = c
      BY <1>1, <1>2, <2>1 DEF IInv, RequestsFit, Fits, Creator, Holds, Active, Steps
    <2>2. CASE d # c
      BY <1>2, <2>2 DEF IInv, RequestsFit, Fits, Creator, Holds, Active
    <2>. QED  BY <2>1, <2>2
  <1>5. RequestsFit'
    BY <1>4 DEF RequestsFit
  <1>. QED  BY <1>1, <1>2, <1>3, <1>5

-----------------------------------------------------------------------------
(* What a step of the request c can do to the row of e: nothing; delete it,  *)
(* if it is the row that c holds; change its role; or write it anew.        *)
RowMoves(c, e) ==
  \/ user'[e] = user[e]
  \/ user'[e] = NoRow /\ e = req[c].e /\ Same(e, req[c].row) /\ ~ Active(c)'
  \/ /\ user[e] # NoRow /\ user'[e] # NoRow
     /\ user'[e].born = user[e].born /\ user'[e].made = user[e].made
  \/ user[e] = NoRow /\ user'[e] # NoRow /\ user'[e].born = begun

(* What is left to c: an account that it alone may give credits to, that is  *)
(* whole when it lets go of it.                                             *)
LeavesInOrder(c) ==
  LET e == req[c].e IN
  /\ (Creator(c) /\ Same(e, req[c].row))' =>
       /\ pc'[c] \in {"provisioning", "founding", "grantcheck", "granting"} => granted'[e] = 0
       /\ pc'[c] \in {"grantcheck", "granting"} => e \in academy'
  /\ Creator(c) /\ Same(e, req[c].row) /\ ~ Active(c)' /\ e \notin faulted' /\ user'[e] # NoRow =>
       e \in academy' /\ granted'[e] = InitialCredits
  /\ \A f \in Emails :
       /\ f \in academy /\ user'[f] # NoRow => f \in academy'
       /\ \/ granted'[f] = granted[f] \/ user'[f] = NoRow
          \/ f = e /\ Creator(c) /\ Same(e, req[c].row)
       /\ user[f] = NoRow /\ user'[f] # NoRow /\ user'[f].made = "ACADEMY_OWNER" =>
            Creating(f)'

LEMMA StepPreserves ==
  ASSUME IInv, NEW c \in Clients, Active(c),
         TypeOK', RequestsFit', CrownsInTurn', NothingOutlivesItsUser',
         begun' = begun, faulted \subseteq faulted',
         \A d \in Clients \ {c} : pc'[d] = pc[d] /\ req'[d] = req[d],
         \/ req'[c] = NoRequest
         \/ req'[c] = req[c]
         \/ /\ user[req[c].e] = NoRow /\ user'[req[c].e] # NoRow
            /\ req'[c].op = "create" /\ req'[c].e = req[c].e
            /\ req'[c].row = user'[req[c].e],
         \A e \in Emails : RowMoves(c, e),
         LeavesInOrder(c)
  PROVE  IInv'
  <1>1. req[c].e \in Emails
    BY AtWork
  <1>2. \A d \in Clients \ {c} : /\ Active(d)' <=> Active(d)
                                 /\ Holds(d)' <=> Holds(d)
                                 /\ Creator(d)' <=> Creator(d)
    BY DEF Creator, Holds, Active
  <1>3. begun \in Nat
    BY DEF IInv, TypeOK
  <1>4. RowsAreDated'
    <2>1. ASSUME NEW e \in Emails, user'[e] # NoRow  PROVE user'[e].born <= begun
      BY <1>3, <2>1, RowsInTable DEF RowMoves
    <2>2. ASSUME NEW d \in Clients, Holds(d), req'[d] = req[d]
          PROVE  /\ req[d].row.born <= begun
                 /\ req[d].op # "create" \/ ~ Same(req[d].e, req[d].row)' =>
                      req[d].row.born < begun
      <3>1. /\ req[d].e \in Emails /\ req[d].row.born \in Nat /\ req[d].row.born <= begun
            /\ req[d].op # "create" \/ ~ Same(req[d].e, req[d].row) => req[d].row.born < begun
        BY <2>2, AtWork DEF IInv, RowsAreDated, Holds
      <3>2. ASSUME req[d].op = "create", Same(req[d].e, req[d].row),
                   ~ Same(req[d].e, req[d].row)'
            PROVE  req[d].row.born < begun
        <4>1. /\ req[d].e = req[c].e /\ Same(req[c].e, req[c].row) /\ ~ Active(c)'
          BY <2>2, <3>1, <3>2 DEF RowMoves, Same
        <4>2. d # c /\ Holds(c) /\ req[c].row.born = req[d].row.born
          BY <2>2, <3>2, <4>1 DEF Holds, Active, Same
        <4>3. ~ Creator(c)
          BY <2>2, <3>2, <4>1, <4>2 DEF IInv, RowsAreDated, Creator
        <4>. QED  BY <4>2, <4>3 DEF IInv, RowsAreDated, Creator
      <3>. QED  BY <3>1, <3>2
    <2>3. ASSUME NEW d \in Clients, Holds(d)'
          PROVE  \/ Holds(d) /\ req'[d] = req[d]
                 \/ /\ d = c /\ req'[d].op = "create" /\ user[req'[d].e] = NoRow
                    /\ req'[d].e = req[c].e
                    /\ user'[req'[d].e] # NoRow /\ req'[d].row = user'[req'[d].e]
      BY <1>2, <2>3 DEF Holds, Active
    <2>4. ASSUME NEW d \in Clients, Holds(d)'
          PROVE  /\ req'[d].row.born <= begun'
                 /\ req'[d].op # "create" \/ ~ Same(req[d].e, req[d].row)' =>
                      req'[d].row.born < begun'
      <3>1. CASE Holds(d) /\ req'[d] = req[d]
        BY <2>2, <3>1 DEF Same
      <3>2. CASE /\ d = c /\ req'[d].op = "create" /\ user[req'[d].e] = NoRow
                 /\ req'[d].e = req[c].e
                 /\ user'[req'[d].e] # NoRow /\ req'[d].row = user'[req'[d].e]
        BY <1>1, <2>1, <3>2 DEF Same
      <3>. QED  BY <2>3, <2>4, <3>1, <3>2
    <2>5. ASSUME NEW d \in Clients, NEW b \in Clients, Creator(d)', Creator(b)',
                 req'[d].e = req'[b].e, req'[d].row.born = req'[b].row.born, b # c
          PROVE  d = b
      <3>1. Creator(b) /\ req'[b] = req[b] /\ req[b].row.born <= begun /\ req[b].row.born \in Nat
        BY <1>2, <2>5, AtWork DEF IInv, RowsAreDated, Creator, Holds
      <3>2. CASE Creator(d) /\ req'[d] = req[d]
        BY <2>5, <3>1, <3>2 DEF IInv, RowsAreDated
      <3>3. CASE /\ d = c /\ user[req[c].e] = NoRow /\ user'[req[c].e] # NoRow
                 /\ req'[d].e = req[c].e /\ req'[d].row = user'[req[c].e]
        <4>1. req'[d].row.born = begun
          BY <1>1, <3>3 DEF RowMoves
        <4>2. ~ Same(req[b].e, req[b].row)
          BY <2>5, <3>1, <3>3 DEF Same
        <4>3. req[b].row.born < begun
          BY <3>1, <4>2 DEF IInv, RowsAreDated, Creator
        <4>. QED  BY <1>3, <2>5, <3>1, <4>1, <4>3
      <3>. QED  BY <2>3, <2>5, <3>2, <3>3 DEF Creator, Holds
    <2>6. \A d, b \in Clients :
            /\ Creator(d)' /\ Creator(b)' /\ req'[d].e = req'[b].e
            /\ req'[d].row.born = req'[b].row.born
            => d = b
      BY <2>5
    <2>. QED  BY <2>1, <2>4, <2>6 DEF RowsAreDated
  <1>5. ASSUME NEW d \in Clients, d # c, Creator(d)
        PROVE  /\ Same(req[d].e, req[d].row)' => Same(req[d].e, req[d].row)
               /\ Same(req[d].e, req[d].row)' => granted'[req[d].e] = granted[req[d].e]
               /\ user'[req[d].e] # NoRow /\ Same(req[d].e, req[d].row) =>
                    Same(req[d].e, req[d].row)'
    <2>1. /\ req'[d] = req[d] /\ req[d].e \in Emails /\ req[d].row # NoRow
          /\ req[d].row.born \in Nat
      BY <1>5, AtWork DEF Creator, Holds
    <2>2. Same(req[d].e, req[d].row)' => Same(req[d].e, req[d].row)
      BY <1>3, <1>5, <2>1 DEF RowMoves, Same, IInv, RowsAreDated, Creator
    <2>3. Same(req[d].e, req[d].row)' => granted'[req[d].e] = granted[req[d].e]
      BY <1>5, <2>1, <2>2 DEF LeavesInOrder, Same, IInv, RowsAreDated
    <2>4. user'[req[d].e] # NoRow /\ Same(req[d].e, req[d].row) => Same(req[d].e, req[d].row)'
      BY <2>1 DEF RowMoves, Same
    <2>. QED  BY <2>2, <2>3, <2>4
  <1>6. CreationInOrder'
    <2>1. ASSUME NEW d \in Clients, Creator(d)', Same(req[d].e, req[d].row)'
          PROVE  /\ pc'[d] \in {"provisioning", "founding", "grantcheck", "granting"} =>
                      granted'[req'[d].e] = 0
                 /\ pc'[d] \in {"grantcheck", "granting"} => req'[d].e \in academy'
      <3>1. CASE d = c
        <4>1. req'[c].e = req[c].e
          BY <2>1, <3>1 DEF Creator, Holds, Active
        <4>. QED  BY <2>1, <3>1, <4>1 DEF LeavesInOrder
      <3>2. CASE d # c
        <4>1. Creator(d) /\ Same(req[d].e, req[d].row) /\ req[d].e \in Emails
              /\ user'[req[d].e] # NoRow
          BY <1>2, <1>5, <2>1, <3>2, AtWork DEF Creator, Holds, Same
        <4>2. req[d].e \in academy => req[d].e \in academy'
          BY <4>1 DEF LeavesInOrder
        <4>. QED  BY <1>5, <2>1, <3>2, <4>1, <4>2 DEF IInv, CreationInOrder
      <3>. QED  BY <3>1, <3>2
    <2>. QED  BY <2>1 DEF CreationInOrder
  <1>7. OwnersAreProvisioned'
    <2>1. ASSUME NEW e \in Emails, e \notin faulted', user'[e] # NoRow,
                 user'[e].made = "ACADEMY_OWNER", ~ Creating(e)'
          PROVE  e \in academy' /\ granted'[e] = InitialCredits
      <3>1. user[e] # NoRow /\ user[e].made = "ACADEMY_OWNER" /\ user'[e].born = user[e].born
        BY <2>1 DEF LeavesInOrder, RowMoves
      <3>2. CASE ~ Creating(e)
        <4>1. e \in academy /\ granted[e] = InitialCredits
          BY <2>1, <3>1, <3>2 DEF IInv, OwnersAreProvisioned
        <4>2. ~ (e = req[c].e /\ Creator(c) /\ Same(e, req[c].row))
          BY <3>2 DEF Creating, Creator, Holds, Active
        <4>. QED  BY <2>1, <4>1, <4>2 DEF LeavesInOrder
      <3>3. CASE Creating(e)
        <4>1. PICK d \in Clients : Creator(d) /\ req[d].e = e /\ Same(e, req[d].row)
          BY <3>3 DEF Creating, Creator, Holds, Active, Same
        <4>2. d = c
          <5>1. SUFFICES ASSUME d # c  PROVE FALSE
            OBVIOUS
          <5>2. Creator(d)' /\ req'[d] = req[d] /\ Same(e, req[d].row)'
            BY <1>2, <1>5, <2>1, <4>1, <5>1 DEF Same
          <5>. QED  BY <2>1, <4>1, <5>2 DEF Creating, Creator, Holds, Active
        <4>3. ~ Active(c)'
          BY <2>1, <3>1, <4>1, <4>2 DEF Creating, Creator, Holds, Active, Same
        <4>. QED  BY <2>1, <4>1, <4>2, <4>3 DEF LeavesInOrder
      <3>. QED  BY <3>2, <3>3
    <2>. QED  BY <2>1 DEF OwnersAreProvisioned
  <1>. QED  BY <1>4, <1>6, <1>7 DEF IInv

-----------------------------------------------------------------------------
(* A request that begins reads a row, if any, that was there before it.     *)
LEMMA AcceptPreserves ==
  ASSUME IInv, NEW c \in Clients, NEW r \in Requests,
         NEW step \in {"counting", "inserting", "provisioning", "writing", "booting"},
         Accept(c, r, step), UNCHANGED <<tables, faulted>>, rivals' \in BOOLEAN,
         r.row = user[r.e] \/ r.row = NoRow,
         step \in {"counting", "inserting"} => r.op = "create" /\ r.row = NoRow,
         step = "counting" => r.role = "SUPER_ADMIN",
         step = "inserting" => r.role # "SUPER_ADMIN",
         step = "provisioning" => r.op = "heal" /\ r.row # NoRow,
         step = "writing" => /\ r.op \in {"update", "remove"} /\ r.row # NoRow
                             /\ r.op = "update" => ~ Promotes(r.row.role, r.role),
         step = "booting" => r.op = "boot" /\ r.e = BootEmail /\ r.role = "SUPER_ADMIN",
         ~ rivals' => /\ ~ rivals
                      /\ step \in {"counting", "booting"} =>
                           \A d \in Clients \ {c} : ~ Crowning(d)
  PROVE  IInv'
  <1>1. /\ pc[c] = "idle" /\ begun < MaxRequests /\ begun' = begun + 1
        /\ pc' = [pc EXCEPT ![c] = step] /\ req' = [req EXCEPT ![c] = r]
        /\ UNCHANGED <<user, academy, granted, faulted>>
    BY DEF Accept, tables
  <1>2. r.e \in Emails /\ r # NoRequest /\ r.row \in Rows \cup {NoRow}
    BY NoRequestAssumption DEF Requests
  <1>3. /\ pc'[c] = step /\ req'[c] = r /\ ~ Active(c)
        /\ \A d \in Clients \ {c} : pc'[d] = pc[d] /\ req'[d] = req[d]
    BY <1>1 DEF IInv, TypeOK, RequestsFit, Fits, Active
  <1>4. begun \in Nat /\ begun' \in 0 .. MaxRequests
    BY <1>1, AccountsAssumption DEF IInv, TypeOK
  <1>5. TypeOK'
    <2>1. /\ pc' \in [Clients -> {"idle", "counting", "inserting", "provisioning", "founding",
                                  "grantcheck", "granting", "undoing", "writing", "booting"}]
          /\ req' \in [Clients -> Requests \cup {NoRequest}]
      BY <1>1 DEF IInv, TypeOK
    <2>. QED  BY <1>1, <1>4, <2>1 DEF IInv, TypeOK
  <1>6. RequestsFit'
    <2>1. ASSUME NEW d \in Clients
          PROVE  Fits(d)'
      <3>1. CASE d = c
        BY <1>2, <1>3, <3>1 DEF Fits
      <3>2. CASE d # c
        BY <1>3, <3>2 DEF IInv, RequestsFit, Fits, Creator, Holds, Active
      <3>. QED  BY <3>1, <3>2
    <2>. QED  BY <2>1 DEF RequestsFit
  <1>7. \A d \in Clients \ {c} : /\ Holds(d)' <=> Holds(d)
                                 /\ Creator(d)' <=> Creator(d)
                                 /\ Crowning(d)' <=> Crowning(d)
    BY <1>3 DEF Creator, Holds, Active, Crowning
  <1>8. /\ ~ Creator(c)'
        /\ Holds(c)' => r.row # NoRow /\ r.row = user[r.e] /\ r.op # "create"
    BY <1>3 DEF Creator, Holds, Active
  <1>9. \A e \in Emails : \A row : Same(e, row)' <=> Same(e, row)
    BY <1>1 DEF Same
  <1>10. RowsAreDated'
    <2>1. ASSUME NEW e \in Emails, user'[e] # NoRow  PROVE user'[e].born <= begun'
      BY <1>1, <1>4, <2>1, RowsInTable
    <2>2. ASSUME NEW d \in Clients, Holds(d)'
          PROVE  /\ req'[d].row.born <= begun'
                 /\ req'[d].op # "create" \/ ~ Same(req[d].e, req[d].row)' =>
                      req'[d].row.born < begun'
      <3>1. CASE d = c
        BY <1>1, <1>2, <1>3, <1>4, <1>8, <2>2, <3>1, RowsInTable
      <3>2. CASE d # c
        <4>1. Holds(d) /\ req[d].row.born \in Nat /\ req[d].row.born <= begun
          BY <1>7, <2>2, <3>2, AtWork DEF Holds, IInv, RowsAreDated
        <4>. QED  BY <1>1, <1>3, <1>4, <3>2, <4>1
      <3>. QED  BY <3>1, <3>2
    <2>3. \A d, b \in Clients :
            /\ Creator(d)' /\ Creator(b)' /\ req'[d].e = req'[b].e
            /\ req'[d].row.born = req'[b].row.born
            => d = b
      BY <1>3, <1>7, <1>8 DEF IInv, RowsAreDated
    <2>. QED  BY <2>1, <2>2, <2>3 DEF RowsAreDated
  <1>11. NothingOutlivesItsUser' /\ CreationInOrder'
    BY <1>1, <1>3, <1>7, <1>8 DEF IInv, NothingOutlivesItsUser, CreationInOrder, Same
  <1>12. OwnersAreProvisioned'
    <2>1. \A e \in Emails : Creating(e) => Creating(e)'
      BY <1>1, <1>3 DEF Creating, Same, Active
    <2>. QED  BY <1>1, <2>1 DEF IInv, OwnersAreProvisioned
  <1>13. CrownsInTurn'
    <2>1. SuperAdmins' = SuperAdmins
      BY <1>1 DEF SuperAdmins
    <2>2. Crowning(c)' => step \in {"counting", "booting"}
      BY <1>3 DEF Crowning
    <2>. QED  BY <1>3, <1>7, <2>1, <2>2 DEF IInv, CrownsInTurn
  <1>. QED  BY <1>5, <1>6, <1>10, <1>11, <1>12, <1>13 DEF IInv

LEMMA BeginPreserves ==
  ASSUME IInv, NEW c \in Clients, Begin(c)  PROVE IInv'
  <1>1. ASSUME NEW e \in Emails, NEW role \in Roles, Create(c, e, role)  PROVE IInv'
    <2>. DEFINE r == [op |-> "create", e |-> e, role |-> role, row |-> NoRow]
                step == IF role = "SUPER_ADMIN" THEN "counting" ELSE "inserting"
    <2>1. /\ r \in Requests /\ r.op = "create" /\ r.e = e /\ r.role = role /\ r.row = NoRow
      BY DEF Requests
    <2>. HIDE DEF r
    <2>2. Accept(c, r, step) /\ UNCHANGED <<tables, faulted>>
      BY <1>1 DEF Create, r
    <2>3. rivals' = IF role = "SUPER_ADMIN" THEN Rival(c) ELSE rivals
      BY <1>1 DEF Create
    <2>4. Rival(c) \in BOOLEAN /\ rivals \in BOOLEAN
      BY DEF Rival, IInv, TypeOK
    <2>. QED  BY <2>1, <2>2, <2>3, <2>4, AcceptPreserves DEF Rival
  <1>2. ASSUME NEW e \in Emails, NEW role \in Roles, Update(c, e, role)  PROVE IInv'
    <2>. DEFINE r == [op |-> "update", e |-> e, role |-> role, row |-> user[e]]
    <2>1. /\ user[e] # NoRow /\ ~ Promotes(user[e].role, role)
          /\ Accept(c, r, "writing") /\ UNCHANGED <<tables, faulted, rivals>>
      BY <1>2 DEF Update, history
    <2>2. r \in Requests /\ rivals \in BOOLEAN
      BY DEF Requests, IInv, TypeOK
    <2>. QED  BY <2>1, <2>2, AcceptPreserves
  <1>3. ASSUME NEW e \in Emails, GetAcademyForOwner(c, e)  PROVE IInv'
    <2>. DEFINE r == [op |-> "heal", e |-> e, role |-> "ACADEMY_OWNER", row |-> user[e]]
    <2>1. /\ user[e] # NoRow
          /\ Accept(c, r, "provisioning") /\ UNCHANGED <<tables, faulted, rivals>>
      BY <1>3 DEF GetAcademyForOwner, history
    <2>2. r \in Requests /\ rivals \in BOOLEAN
      BY DEF Requests, Roles, IInv, TypeOK
    <2>. QED  BY <2>1, <2>2, AcceptPreserves
  <1>4. ASSUME NEW e \in Emails, Remove(c, e)  PROVE IInv'
    <2>. DEFINE r == [op |-> "remove", e |-> e, role |-> user[e].role, row |-> user[e]]
    <2>1. /\ user[e] # NoRow
          /\ Accept(c, r, "writing") /\ UNCHANGED <<tables, faulted, rivals>>
      BY <1>4 DEF Remove, history
    <2>2. r \in Requests /\ rivals \in BOOLEAN
      BY <2>1 DEF Requests, Rows, IInv, TypeOK
    <2>. QED  BY <2>1, <2>2, AcceptPreserves
  <1>5. ASSUME Bootstrap(c)  PROVE IInv'
    <2>. DEFINE r == [op |-> "boot", e |-> BootEmail, role |-> "SUPER_ADMIN",
                      row |-> user[BootEmail]]
    <2>1. /\ Accept(c, r, "booting") /\ UNCHANGED <<tables, faulted>> /\ rivals' = Rival(c)
      BY <1>5 DEF Bootstrap
    <2>2. r \in Requests /\ Rival(c) \in BOOLEAN
      BY AccountsAssumption DEF Requests, Roles, Rival, IInv, TypeOK
    <2>. QED  BY <2>1, <2>2, AcceptPreserves DEF Rival
  <1>. QED  BY <1>1, <1>2, <1>3, <1>4, <1>5 DEF Begin

-----------------------------------------------------------------------------
(* A step that writes nothing but perhaps an academy, for a user who is there. *)
LEMMA GotoPreserves ==
  ASSUME IInv, NEW c \in Clients, NEW step \in Steps, pc[c] # "idle", Goto(c, step),
         step = "inserting" => pc[c] = "counting" /\ SuperAdmins = {},
         step \in {"provisioning", "founding"} => req[c].op \in {"create", "heal"} /\ Holds(c),
         step \in {"grantcheck", "granting", "undoing"} => Creator(c),
         step \in {"provisioning", "founding", "grantcheck", "granting"} =>
           pc[c] \in {"provisioning", "founding", "grantcheck", "granting"},
         UNCHANGED <<user, granted, rivals>>,
         academy' = academy \/ (academy' = academy \cup {req[c].e} /\ user[req[c].e] # NoRow),
         faulted \subseteq faulted', faulted' \subseteq Emails,
         Creator(c) /\ Same(req[c].e, req[c].row) =>
           /\ step \in {"grantcheck", "granting"} => req[c].e \in academy'
           /\ step = "idle" /\ req[c].e \notin faulted' =>
                req[c].e \in academy' /\ granted[req[c].e] = InitialCredits
  PROVE  IInv'
  <1>1. /\ Active(c) /\ pc'[c] = step /\ begun' = begun /\ RequestsFit'
        /\ req'[c] = IF step = "idle" THEN NoRequest ELSE req[c]
        /\ pc' \in [Clients -> {"idle", "counting", "inserting", "provisioning", "founding",
                                "grantcheck", "granting", "undoing", "writing", "booting"}]
        /\ req' \in [Clients -> Requests \cup {NoRequest}]
        /\ \A d \in Clients \ {c} : pc'[d] = pc[d] /\ req'[d] = req[d]
    BY GotoFits
  <1>2. req[c].e \in Emails
    BY <1>1, AtWork
  <1>3. TypeOK'
    BY <1>1, <1>2 DEF IInv, TypeOK
  <1>4. NothingOutlivesItsUser'
    BY <1>2 DEF IInv, NothingOutlivesItsUser
  <1>5. CrownsInTurn'
    <2>1. SuperAdmins' = SuperAdmins
      BY DEF SuperAdmins
    <2>2. \A d \in Clients : Crowning(d)' =>
            Crowning(d) /\ (pc'[d] = "inserting" => pc[d] = "inserting" \/ SuperAdmins = {})
      BY <1>1 DEF Crowning, Steps, IInv, RequestsFit, Fits
    <2>. QED  BY <2>1, <2>2, CrownsKept DEF IInv, TypeOK
  <1>6. LeavesInOrder(c)
    <2>1. (Creator(c) /\ Same(req[c].e, req[c].row))' =>
            Creator(c) /\ Same(req[c].e, req[c].row) /\ req'[c] = req[c]
      BY <1>1 DEF Same, Creator, Holds, Active
    <2>2. ~ Active(c)' => step = "idle"
      BY <1>1 DEF Active
    <2>. QED  BY <1>1, <2>1, <2>2 DEF LeavesInOrder, IInv, CreationInOrder
  <1>7. \A e \in Emails : RowMoves(c, e)
    BY DEF RowMoves
  <1>8. req'[c] = NoRequest \/ req'[c] = req[c]
    BY <1>1
  <1>. QED  BY <1>1, <1>3, <1>4, <1>5, <1>6, <1>7, <1>8, StepPreserves

LEMMA QuietPreserves ==
  ASSUME IInv, NEW c \in Clients,
         \/ CountSuperAdmins(c) \/ FindAcademy(c) \/ FoundAcademy(c) \/ FindGrant(c)
         \/ ProvisionError(c) \/ Fail(c)
  PROVE  IInv'
  <1>0. req[c] # NoRequest => req[c].e \in Emails
    BY AtWork DEF Active
  <1>1. CASE CountSuperAdmins(c)
    <2>. DEFINE step == IF SuperAdmins = {} THEN "inserting" ELSE "idle"
    <2>1. /\ pc[c] = "counting" /\ Goto(c, step)
          /\ UNCHANGED <<user, academy, granted, faulted, rivals>>
      BY <1>1 DEF CountSuperAdmins, tables, history
    <2>2. ~ Creator(c)
      BY <2>1 DEF Creator, Holds, IInv, RequestsFit, Fits
    <2>3. step \in Steps /\ (step = "inserting" => SuperAdmins = {}) /\ step \in {"inserting", "idle"}
      BY DEF Steps
    <2>. HIDE DEF step
    <2>. QED  BY <2>1, <2>2, <2>3, GotoPreserves DEF IInv, TypeOK
  <1>2. CASE FindAcademy(c)
    <2>. DEFINE step == CASE req[c].e \notin academy -> "founding"
                          [] req[c].e \in academy /\ req[c].op = "create" -> "grantcheck"
                          [] OTHER -> "idle"
    <2>1. /\ pc[c] = "provisioning" /\ Goto(c, step)
          /\ UNCHANGED <<user, academy, granted, faulted, rivals>>
      BY <1>2 DEF FindAcademy, tables, history
    <2>2. Holds(c) /\ req[c].op \in {"create", "heal"}
      BY <2>1 DEF Holds, Active, IInv, RequestsFit, Fits
    <2>3. /\ step \in {"founding", "grantcheck", "idle"}
          /\ step = "grantcheck" => req[c].e \in academy /\ req[c].op = "create"
          /\ step = "idle" => req[c].op # "create"
      <3>1. CASE req[c].e \notin academy
        BY <3>1
      <3>2. CASE req[c].e \in academy /\ req[c].op = "create"
        BY <3>2
      <3>3. CASE req[c].e \in academy /\ req[c].op # "create"
        BY <3>3
      <3>. QED  BY <3>1, <3>2, <3>3
    <2>. HIDE DEF step
    <2>4. step \in Steps /\ step # "inserting"
      BY <2>3 DEF Steps
    <2>. QED  BY <2>1, <2>2, <2>3, <2>4, GotoPreserves DEF Creator, IInv, TypeOK
  <1>3. CASE FoundAcademy(c)
    <2>. DEFINE found == IF req[c].op = "create" THEN "grantcheck" ELSE "idle"
                lost == IF req[c].op = "create" THEN "undoing" ELSE "idle"
    <2>1. pc[c] = "founding" /\ UNCHANGED <<user, granted, faulted, rivals>>
      BY <1>3 DEF FoundAcademy, history
    <2>2. Holds(c) /\ req[c].op \in {"create", "heal"}
      BY <2>1 DEF Holds, Active, IInv, RequestsFit, Fits
    <2>3. /\ found \in Steps /\ found \in {"grantcheck", "idle"}
          /\ lost \in Steps /\ lost \in {"undoing", "idle"}
          /\ found = "grantcheck" <=> req[c].op = "create"
          /\ lost = "undoing" <=> req[c].op = "create"
      BY DEF Steps
    <2>4. \/ /\ Same(req[c].e, req[c].row) /\ academy' = academy \cup {req[c].e}
             /\ Goto(c, found)
          \/ academy' = academy /\ Goto(c, lost)
      BY <1>3 DEF FoundAcademy
    <2>. HIDE DEF found, lost
    <2>5. CASE Same(req[c].e, req[c].row) /\ academy' = academy \cup {req[c].e} /\ Goto(c, found)
      BY <2>1, <2>2, <2>3, <2>5, GotoPreserves DEF Creator, Same, IInv, TypeOK
    <2>6. CASE academy' = academy /\ Goto(c, lost)
      BY <2>1, <2>2, <2>3, <2>6, GotoPreserves DEF Creator, IInv, TypeOK
    <2>. QED  BY <2>4, <2>5, <2>6
  <1>4. CASE FindGrant(c)
    <2>. DEFINE step == IF InitialCredits = 0 \/ granted[req[c].e] > 0 THEN "idle" ELSE "granting"
    <2>1. /\ pc[c] = "grantcheck" /\ Goto(c, step)
          /\ UNCHANGED <<user, academy, granted, faulted, rivals>>
      BY <1>4 DEF FindGrant, tables, history
    <2>2. Creator(c)
      BY <2>1 DEF IInv, RequestsFit, Fits
    <2>3. Same(req[c].e, req[c].row) =>
            /\ req[c].e \in academy /\ granted[req[c].e] = 0
            /\ step = "idle" => InitialCredits = 0
      BY <2>1, <2>2 DEF IInv, CreationInOrder
    <2>4. step \in Steps /\ step \in {"idle", "granting"}
      BY DEF Steps
    <2>. HIDE DEF step
    <2>. QED  BY <2>1, <2>2, <2>3, <2>4, GotoPreserves DEF IInv, TypeOK
  <1>5. CASE ProvisionError(c)
    <2>1. /\ pc[c] \in {"provisioning", "founding", "grantcheck", "granting"}
          /\ req[c].op = "create" /\ Goto(c, "undoing")
          /\ UNCHANGED <<user, academy, granted, faulted, rivals>>
      BY <1>5 DEF ProvisionError, tables, history
    <2>2. Creator(c)
      BY <2>1 DEF Creator, Holds, Active, IInv, RequestsFit, Fits
    <2>. QED  BY <2>1, <2>2, GotoPreserves DEF Steps, IInv, TypeOK
  <1>6. CASE Fail(c)
    <2>1. /\ pc[c] # "idle" /\ Goto(c, "idle")
          /\ UNCHANGED <<user, academy, granted, rivals>>
          /\ faulted' = IF req[c].op = "create" /\ req[c].row # NoRow
                        THEN faulted \cup {req[c].e} ELSE faulted
      BY <1>6 DEF Fail, tables
    <2>2. Active(c) /\ (Creator(c) => req[c].e \in faulted')
      BY <2>1 DEF Creator, Holds, Active, IInv, RequestsFit, Fits
    <2>3. faulted' \subseteq Emails /\ faulted \subseteq faulted'
      BY <1>0, <2>1, <2>2 DEF IInv, TypeOK, Active
    <2>. QED  BY <2>1, <2>2, <2>3, GotoPreserves DEF Steps
  <1>. QED  BY <1>1, <1>2, <1>3, <1>4, <1>5, <1>6

(* A request that ends; what it leaves of the tables is in order. *)
LEMMA EndPreserves ==
  ASSUME IInv, NEW c \in Clients, pc[c] # "idle", Goto(c, "idle"),
         user' \in [Emails -> Rows \cup {NoRow}], academy' \subseteq Emails,
         granted' \in [Emails -> Nat], rivals' \in BOOLEAN, UNCHANGED faulted,
         CrownsInTurn', NothingOutlivesItsUser',
         \A e \in Emails : RowMoves(c, e),
         Creator(c) /\ Same(req[c].e, req[c].row) /\ user'[req[c].e] # NoRow
           /\ req[c].e \notin faulted =>
           req[c].e \in academy' /\ granted'[req[c].e] = InitialCredits,
         \A e \in Emails :
           /\ e \in academy /\ user'[e] # NoRow => e \in academy'
           /\ \/ granted'[e] = granted[e] \/ user'[e] = NoRow
              \/ e = req[c].e /\ Creator(c) /\ Same(e, req[c].row)
           /\ user[e] = NoRow /\ user'[e] # NoRow => user'[e].made # "ACADEMY_OWNER"
  PROVE  IInv'
  <1>1. /\ Active(c) /\ pc'[c] = "idle" /\ begun' = begun /\ RequestsFit' /\ req'[c] = NoRequest
        /\ pc' \in [Clients -> {"idle", "counting", "inserting", "provisioning", "founding",
                                "grantcheck", "granting", "undoing", "writing", "booting"}]
        /\ req' \in [Clients -> Requests \cup {NoRequest}]
        /\ \A d \in Clients \ {c} : pc'[d] = pc[d] /\ req'[d] = req[d]
    BY GotoFits DEF Steps
  <1>2. TypeOK'
    BY <1>1 DEF IInv, TypeOK
  <1>3. LeavesInOrder(c)
    BY <1>1 DEF LeavesInOrder, Creator, Holds, Active
  <1>. QED  BY <1>1, <1>2, <1>3, StepPreserves

(* No request that ends takes up a crown. *)
LEMMA EndCrowns ==
  ASSUME IInv, NEW c \in Clients, pc[c] # "idle", Goto(c, "idle"), rivals' \in BOOLEAN,
         ~ rivals' => ~ rivals /\ SuperAdmins' \subseteq SuperAdmins
  PROVE  CrownsInTurn'
  <1>1. \A d \in Clients : Crowning(d)' => Crowning(d) /\ pc'[d] = pc[d]
    BY GotoFits DEF Steps, Crowning
  <1>. QED  BY <1>1, CrownsKept

LEMMA DeletePreserves ==
  ASSUME IInv, NEW c \in Clients, pc[c] # "idle", Goto(c, "idle"), UNCHANGED <<faulted, rivals>>,
         IF Same(req[c].e, req[c].row) THEN DeleteUser(req[c].e) ELSE UNCHANGED tables,
         Creator(c) => pc[c] = "undoing"
  PROVE  IInv'
  <1>1. Active(c) /\ req[c].e \in Emails
    BY AtWork DEF IInv, RequestsFit, Fits, Active
  <1>2. CASE Same(req[c].e, req[c].row)
    <2>1. DeleteUser(req[c].e)
      BY <1>2
    <2>2. /\ user' \in [Emails -> Rows \cup {NoRow}] /\ academy' \subseteq Emails
          /\ granted' \in [Emails -> Nat]
      BY <2>1 DEF DeleteUser, IInv, TypeOK
    <2>3. /\ user'[req[c].e] = NoRow /\ req[c].e \notin academy' /\ granted'[req[c].e] = 0
          /\ \A e \in Emails : e # req[c].e =>
               user'[e] = user[e] /\ (e \in academy <=> e \in academy') /\ granted'[e] = granted[e]
      BY <1>1, <2>1 DEF DeleteUser, IInv, TypeOK
    <2>4. ~ Active(c)'
      BY GotoFits DEF Active, Steps
    <2>5. \A e \in Emails : RowMoves(c, e)
      BY <1>2, <2>3, <2>4 DEF RowMoves
    <2>6. SuperAdmins' \subseteq SuperAdmins
      BY <2>3 DEF SuperAdmins
    <2>7. CrownsInTurn'
      BY <2>6, EndCrowns DEF IInv, TypeOK
    <2>8. NothingOutlivesItsUser'
      BY <2>3 DEF NothingOutlivesItsUser, IInv
    <2>. QED  BY <2>2, <2>3, <2>5, <2>7, <2>8, EndPreserves DEF IInv, TypeOK
  <1>3. CASE ~ Same(req[c].e, req[c].row)
    <2>1. UNCHANGED <<user, academy, granted>>
      BY <1>3 DEF tables
    <2>2. SuperAdmins' = SuperAdmins
      BY <2>1 DEF SuperAdmins
    <2>. QED  BY <1>3, <2>1, <2>2, EndCrowns, EndPreserves
              DEF IInv, TypeOK, RowMoves, NothingOutlivesItsUser
  <1>. QED  BY <1>2, <1>3

LEMMA GrantPreserves ==
  ASSUME IInv, NEW c \in Clients, Grant(c)  PROVE IInv'
  <1>1. pc[c] = "granting" /\ UNCHANGED <<user, academy, faulted, rivals>>
    BY DEF Grant, history
  <1>2. Creator(c) /\ Active(c) /\ req[c].e \in Emails
    BY <1>1, AtWork DEF IInv, RequestsFit, Fits, Creator, Holds
  <1>3. CASE /\ Same(req[c].e, req[c].row) /\ Goto(c, "idle")
             /\ granted' = [granted EXCEPT ![req[c].e] = @ + InitialCredits]
    <2>1. granted[req[c].e] = 0 /\ req[c].e \in academy
      BY <1>1, <1>2, <1>3 DEF IInv, CreationInOrder
    <2>2. /\ granted' \in [Emails -> Nat] /\ granted'[req[c].e] = InitialCredits
          /\ \A e \in Emails : e # req[c].e => granted'[e] = granted[e]
      BY <1>2, <1>3, <2>1, AccountsAssumption DEF IInv, TypeOK
    <2>3. SuperAdmins' = SuperAdmins
      BY <1>1 DEF SuperAdmins
    <2>4. CrownsInTurn'
      BY <1>1, <1>3, <2>3, EndCrowns DEF IInv, TypeOK
    <2>5. NothingOutlivesItsUser'
      BY <1>1, <1>3, <2>2 DEF IInv, NothingOutlivesItsUser, Same
    <2>. QED  BY <1>1, <1>2, <1>3, <2>1, <2>2, <2>4, <2>5, EndPreserves
              DEF IInv, TypeOK, RowMoves
  <1>4. CASE UNCHANGED granted /\ Goto(c, "undoing")
    BY <1>1, <1>2, <1>4, GotoPreserves DEF IInv, TypeOK, Steps
  <1>. QED  BY <1>3, <1>4 DEF Grant

(* The row that is inserted is younger than all others; an owner's leaves    *)
(* its creator to provision it.                                             *)
LEMMA InsertUserPreserves ==
  ASSUME IInv, NEW c \in Clients, InsertUser(c)  PROVE IInv'
  <1>. DEFINE e == req[c].e
              role == req[c].role
              row == [role |-> role, made |-> role, born |-> begun]
  <1>1. /\ pc[c] = "inserting" /\ UNCHANGED <<academy, granted, faulted, rivals>>
    BY DEF InsertUser, history
  <1>2. /\ Active(c) /\ ~ Creator(c) /\ e \in Emails /\ role \in Roles /\ req[c] \in Requests
        /\ req[c].op = "create"
    BY <1>1, AtWork DEF IInv, RequestsFit, Fits, Active, Creator, Holds
  <1>3. row \in Rows /\ row # NoRow /\ row.role = role /\ row.made = role /\ row.born = begun
    BY <1>2, NoRowAssumption DEF Rows, IInv, TypeOK
  <1>. HIDE DEF row
  <1>4. CASE UNCHANGED user /\ Goto(c, "idle")
    <2>1. SuperAdmins' = SuperAdmins
      BY <1>4 DEF SuperAdmins
    <2>2. CrownsInTurn'
      BY <1>1, <1>4, <2>1, EndCrowns DEF IInv, TypeOK
    <2>. QED  BY <1>1, <1>2, <1>4, <2>2, EndPreserves
              DEF IInv, TypeOK, RowMoves, NothingOutlivesItsUser
  <1>5. CASE user[e] = NoRow /\ user' = [user EXCEPT ![e] = row]
    <2>1. /\ user' \in [Emails -> Rows \cup {NoRow}] /\ user'[e] = row
          /\ \A f \in Emails : f # e => user'[f] = user[f]
      BY <1>2, <1>3, <1>5 DEF IInv, TypeOK
    <2>2. \A f \in Emails : RowMoves(c, f)
      BY <1>3, <1>5, <2>1 DEF RowMoves
    <2>3. SuperAdmins' \subseteq SuperAdmins \cup {e}
      BY <2>1 DEF SuperAdmins
    <2>4. role # "SUPER_ADMIN" => SuperAdmins' \subseteq SuperAdmins
      BY <1>3, <2>1 DEF SuperAdmins
    <2>5. NothingOutlivesItsUser'
      BY <1>1, <1>3, <2>1 DEF IInv, NothingOutlivesItsUser
    <2>6. granted[e] = 0
      BY <1>2, <1>5 DEF IInv, NothingOutlivesItsUser
    <2>7. CASE role = "ACADEMY_OWNER"
      <3>1. /\ pc' = [pc EXCEPT ![c] = "provisioning"]
            /\ req' = [req EXCEPT ![c].row = row] /\ begun' = begun
        BY <1>5, <2>7 DEF InsertUser, row
      <3>2. /\ pc'[c] = "provisioning" /\ req' \in [Clients -> Requests \cup {NoRequest}]
            /\ req'[c].op = "create" /\ req'[c].e = e /\ req'[c].row = row
            /\ req'[c].role = role /\ req'[c] # NoRequest
            /\ \A d \in Clients \ {c} : pc'[d] = pc[d] /\ req'[d] = req[d]
        BY <1>2, <1>3, <3>1, NoRequestAssumption DEF IInv, TypeOK, Requests
      <3>3. pc' \in [Clients -> {"idle", "counting", "inserting", "provisioning", "founding",
                                 "grantcheck", "granting", "undoing", "writing", "booting"}]
        BY <3>1 DEF IInv, TypeOK
      <3>4. TypeOK'
        BY <1>1, <2>1, <3>1, <3>2, <3>3 DEF IInv, TypeOK
      <3>5. RequestsFit'
        <4>1. ASSUME NEW d \in Clients
              PROVE  Fits(d)'
          <5>1. CASE d = c
            BY <1>3, <3>2, <5>1 DEF Fits
          <5>2. CASE d # c
            BY <3>2, <5>2 DEF IInv, RequestsFit, Fits, Creator, Holds, Active
          <5>. QED  BY <5>1, <5>2
        <4>. QED  BY <4>1 DEF RequestsFit
      <3>6. CrownsInTurn'
        <4>1. \A d \in Clients : Crowning(d)' => Crowning(d) /\ pc'[d] = pc[d]
          BY <3>2 DEF Crowning
        <4>. QED  BY <1>1, <2>4, <2>7, <4>1, CrownsKept DEF IInv, TypeOK
      <3>7. LeavesInOrder(c)
        <4>1. Creating(e)'
          BY <1>3, <2>1, <3>2 DEF Creating, Same
        <4>2. \A f \in Emails : user[f] = NoRow /\ user'[f] # NoRow => f = e
          BY <2>1
        <4>. QED  BY <1>1, <1>2, <2>1, <2>6, <3>2, <4>1, <4>2 DEF LeavesInOrder, Active
      <3>. QED  BY <1>1, <1>2, <1>3, <1>5, <2>1, <2>2, <2>5, <3>1, <3>2, <3>4, <3>5, <3>6, <3>7,
                   StepPreserves
    <2>8. CASE role # "ACADEMY_OWNER"
      <3>1. Goto(c, "idle")
        BY <1>5, <2>8 DEF InsertUser
      <3>2. CrownsInTurn'
        <4>1. CASE role # "SUPER_ADMIN"
          BY <1>1, <2>4, <3>1, <4>1, EndCrowns DEF IInv, TypeOK
        <4>2. CASE role = "SUPER_ADMIN"
          <5>1. Crowning(c)
            BY <1>1, <4>2 DEF Crowning
          <5>2. ~ rivals => /\ SuperAdmins' \subseteq {e}
                            /\ \A d \in Clients \ {c} : ~ Crowning(d)
            BY <1>1, <2>3, <5>1 DEF IInv, CrownsInTurn
          <5>3. ~ Crowning(c)' /\ \A d \in Clients \ {c} : Crowning(d)' <=> Crowning(d)
            BY <1>1, <3>1, GotoFits DEF Steps, Crowning
          <5>. QED  BY <1>1, <5>2, <5>3 DEF CrownsInTurn
        <4>. QED  BY <4>1, <4>2
      <3>. QED  BY <1>1, <1>2, <1>3, <2>1, <2>2, <2>5, <2>8, <3>1, <3>2, EndPreserves
                DEF IInv, TypeOK
    <2>. QED  BY <2>7, <2>8
  <1>. QED  BY <1>4, <1>5 DEF InsertUser, row

(* A role that is written: a crown is written back only to who still has it, *)
(* or a rival is on record.                                                 *)
LEMMA StoreUpdatePreserves ==
  ASSUME IInv, NEW c \in Clients, StoreUpdate(c)  PROVE IInv'
  <1>. DEFINE e == req[c].e
              role == req[c].role
  <1>1. /\ pc[c] = "writing" /\ req[c].op = "update" /\ Goto(c, "idle")
        /\ user' = IF Same(e, req[c].row) THEN [user EXCEPT ![e].role = role] ELSE user
        /\ UNCHANGED <<academy, granted, faulted>>
    BY DEF StoreUpdate
  <1>2. /\ Active(c) /\ ~ Creator(c) /\ e \in Emails /\ role \in Roles
        /\ ~ Promotes(req[c].row.role, role)
    BY <1>1, AtWork DEF IInv, RequestsFit, Fits, Active, Creator
  <1>3. rivals' \in BOOLEAN /\ (~ rivals' =>
          /\ ~ rivals
          /\ role = "SUPER_ADMIN" /\ req[c].row.role = "SUPER_ADMIN" => e \in SuperAdmins)
    BY DEF StoreUpdate, IInv, TypeOK
  <1>4. /\ user' \in [Emails -> Rows \cup {NoRow}]
        /\ \A f \in Emails : f # e => user'[f] = user[f]
        /\ user'[e] = user[e] \/ /\ user[e] # NoRow /\ user'[e] # NoRow
                                 /\ user'[e].born = user[e].born
                                 /\ user'[e].made = user[e].made /\ user'[e].role = role
    <2>1. CASE Same(e, req[c].row)
      <3>1. user[e] \in Rows /\ user[e] # NoRow
        BY <1>2, <2>1 DEF Same, IInv, TypeOK
      <3>2. /\ [user[e] EXCEPT !.role = role] \in Rows
            /\ [user[e] EXCEPT !.role = role].born = user[e].born
            /\ [user[e] EXCEPT !.role = role].made = user[e].made
            /\ [user[e] EXCEPT !.role = role].role = role
        BY <1>2, <3>1 DEF Rows
      <3>3. user' = [user EXCEPT ![e] = [user[e] EXCEPT !.role = role]]
        BY <1>1, <2>1
      <3>. QED  BY <1>2, <3>1, <3>2, <3>3, NoRowAssumption DEF IInv, TypeOK
    <2>2. CASE ~ Same(e, req[c].row)
      BY <1>1, <2>2 DEF IInv, TypeOK
    <2>. QED  BY <2>1, <2>2
  <1>5. ~ rivals' => SuperAdmins' \subseteq SuperAdmins
    BY <1>2, <1>3, <1>4 DEF SuperAdmins, Promotes
  <1>6. CrownsInTurn'
    BY <1>1, <1>3, <1>5, EndCrowns
  <1>7. NothingOutlivesItsUser'
    BY <1>1, <1>4 DEF IInv, NothingOutlivesItsUser
  <1>8. \A f \in Emails : RowMoves(c, f)
    BY <1>4 DEF RowMoves
  <1>. QED  BY <1>1, <1>2, <1>3, <1>4, <1>6, <1>7, <1>8, EndPreserves DEF IInv, TypeOK

LEMMA EnsureSuperAdminPreserves ==
  ASSUME IInv, NEW c \in Clients, EnsureSuperAdmin(c)  PROVE IInv'
  <1>. DEFINE e == BootEmail
              old == req[c].row
              row == [role |-> "SUPER_ADMIN", made |-> "SUPER_ADMIN", born |-> begun]
  <1>1. /\ pc[c] = "booting" /\ Goto(c, "idle") /\ UNCHANGED <<academy, granted, faulted>>
        /\ rivals' = (rivals \/ SuperAdmins \ {e} # {} \/ \E d \in Clients \ {c} : Crowning(d))
    BY DEF EnsureSuperAdmin
  <1>2. /\ Active(c) /\ ~ Creator(c) /\ req[c].e = e /\ e \in Emails
    BY <1>1, AccountsAssumption DEF IInv, RequestsFit, Fits, Active, Creator
  <1>3. row \in Rows /\ row # NoRow /\ row.made # "ACADEMY_OWNER" /\ row.born = begun
    BY NoRowAssumption DEF Rows, Roles, IInv, TypeOK
  <1>. HIDE DEF row
  <1>4. \/ user[e] = NoRow /\ user' = [user EXCEPT ![e] = row]
        \/ Same(e, old) /\ user' = [user EXCEPT ![e].role = "SUPER_ADMIN"]
        \/ user' = user
    BY DEF EnsureSuperAdmin, row
  <1>5. /\ user' \in [Emails -> Rows \cup {NoRow}]
        /\ \A f \in Emails : f # e => user'[f] = user[f]
        /\ \/ user'[e] = user[e]
           \/ user[e] = NoRow /\ user'[e] = row
           \/ /\ user[e] # NoRow /\ user'[e] # NoRow
              /\ user'[e].born = user[e].born /\ user'[e].made = user[e].made
    <2>1. CASE user[e] = NoRow /\ user' = [user EXCEPT ![e] = row]
      BY <1>2, <1>3, <2>1 DEF IInv, TypeOK
    <2>2. CASE Same(e, old) /\ user' = [user EXCEPT ![e].role = "SUPER_ADMIN"]
      <3>1. user[e] \in Rows /\ user[e] # NoRow
        BY <1>2, <2>2 DEF Same, IInv, TypeOK
      <3>2. /\ [user[e] EXCEPT !.role = "SUPER_ADMIN"] \in Rows
            /\ [user[e] EXCEPT !.role = "SUPER_ADMIN"].born = user[e].born
            /\ [user[e] EXCEPT !.role = "SUPER_ADMIN"].made = user[e].made
        BY <3>1 DEF Rows, Roles
      <3>3. user' = [user EXCEPT ![e] = [user[e] EXCEPT !.role = "SUPER_ADMIN"]]
        BY <2>2
      <3>. QED  BY <1>2, <3>1, <3>2, <3>3, NoRowAssumption DEF IInv, TypeOK
    <2>3. CASE user' = user
      BY <2>3 DEF IInv, TypeOK
    <2>. QED  BY <1>4, <2>1, <2>2, <2>3
  <1>6. CrownsInTurn'
    <2>1. ~ rivals' => /\ SuperAdmins' \subseteq {e}
                       /\ \A d \in Clients \ {c} : ~ Crowning(d)
      BY <1>1, <1>5 DEF SuperAdmins
    <2>2. ~ Crowning(c)' /\ \A d \in Clients \ {c} : Crowning(d)' <=> Crowning(d)
      BY <1>1, GotoFits DEF Steps, Crowning
    <2>. QED  BY <2>1, <2>2 DEF CrownsInTurn
  <1>7. NothingOutlivesItsUser'
    BY <1>1, <1>3, <1>5 DEF IInv, NothingOutlivesItsUser
  <1>8. \A f \in Emails : RowMoves(c, f)
    BY <1>3, <1>5 DEF RowMoves
  <1>9. rivals' \in BOOLEAN
    BY <1>1 DEF IInv, TypeOK
  <1>10. \A f \in Emails : user[f] = NoRow /\ user'[f] # NoRow => user'[f].made # "ACADEMY_OWNER"
    BY <1>3, <1>5
  <1>. QED  BY <1>1, <1>2, <1>5, <1>6, <1>7, <1>8, <1>9, <1>10, EndPreserves DEF IInv, TypeOK

-----------------------------------------------------------------------------
LEMMA NextPreserves == IInv /\ [Next]_vars => IInv'
  <1>. SUFFICES ASSUME IInv, [Next]_vars  PROVE IInv'
    OBVIOUS
  <1>1. ASSUME NEW c \in Clients, UndoUser(c)  PROVE IInv'
    BY <1>1, DeletePreserves DEF UndoUser, history
  <1>2. ASSUME NEW c \in Clients, StoreRemoval(c)  PROVE IInv'
    BY <1>2, DeletePreserves DEF StoreRemoval, history, Creator
  <1>3. CASE UNCHANGED vars
    <2>1. UNCHANGED <<user, academy, granted, pc, req, begun, faulted, rivals>>
      BY <1>3 DEF vars, tables, history
    <2>2. TypeOK' /\ NothingOutlivesItsUser'
      BY <2>1 DEF IInv, TypeOK, NothingOutlivesItsUser
    <2>3. RequestsFit' /\ RowsAreDated' /\ CreationInOrder'
      BY <2>1 DEF IInv, RequestsFit, Fits, RowsAreDated, CreationInOrder, Creator, Holds, Active, Same
    <2>4. OwnersAreProvisioned' /\ CrownsInTurn'
      BY <2>1 DEF IInv, OwnersAreProvisioned, Creating, Same, CrownsInTurn, Crowning, SuperAdmins
    <2>. QED  BY <2>2, <2>3, <2>4 DEF IInv
  <1>. QED
    BY <1>1, <1>2, <1>3, BeginPreserves, QuietPreserves, GrantPreserves, InsertUserPreserves,
       StoreUpdatePreserves, EnsureSuperAdminPreserves DEF Next, Proceed

-----------------------------------------------------------------------------
(* The inductive invariant, for any number of addresses and of requests that *)
(* create, provision, change and remove accounts at the same time.          *)
THEOREM Invariance == Spec => []IInv
  BY InitIInv, NextPreserves, PTL DEF Spec

(* An account made for an academy owner that nobody is still working on has  *)
(* its academy and its welcome credits, once, or was cut short by a crash.   *)
THEOREM Provisioned == Spec => []OwnersAreProvisioned
  <1>1. IInv => OwnersAreProvisioned
    BY DEF IInv
  <1>. QED  BY <1>1, Invariance, PTL

(* There is one super admin at most where none was made in a race, restored  *)
(* by a stale update or configured anew.                                    *)
THEOREM OneCrown == Spec => []OneSuperAdmin
  <1>1. IInv => OneSuperAdmin
    BY SuperAdminsAreFinite, AtMostOne DEF IInv, CrownsInTurn, OneSuperAdmin
  <1>. QED  BY <1>1, Invariance, PTL
=============================================================================
