----------------------- MODULE AcademyMembershipProofs -----------------------
(* The safety of AcademyMembership for every finite set of academies, and    *)
(* every set of members, clients, settings and credit limits.               *)
EXTENDS AcademyMembership, FiniteSetTheorems, TLAPS

Active(c) == pc[c] # "idle"

(* Where a request is says what it is doing; who asks to join, or is being   *)
(* enrolled, has an account.                                                *)
Fits(c) ==
  /\ Active(c) => req[c] \in Requests
  /\ pc[c] \in {"counting", "finding"} => req[c].op = "request"
  /\ pc[c] = "writing" => req[c].op \in {"request", "withdraw", "decide"}
  /\ pc[c] = "linking" => req[c].op = "enroll"
  /\ pc[c] \in {"deciding", "spreading"} => req[c].op = "status" /\ req[c].to \in Reviews
  /\ pc[c] \in {"reading", "limiting"} => req[c].op = "limit" /\ req[c].to \in CreditLimits
  /\ pc[c] = "submitting" => req[c].op = "onboard"
  /\ Busy(c, "decide") => req[c].to \in Statuses \ {"PENDING"}
  /\ Busy(c, "request") \/ Busy(c, "enroll") => user[req[c].m] # NoRow
RequestsFit == \A c \in Clients : Fits(c)

(* Unless two changes of a limit overlapped, a member has one in progress at *)
(* most, and the old limit it has read is the one in force.                 *)
LimitsInTurn ==
  \A c \in Clients : Busy(c, "limit") /\ req[c].m \notin raced =>
    /\ \A d \in Clients : Busy(d, "limit") /\ req[d].m = req[c].m => d = c
    /\ pc[c] = "limiting" => req[c].old = creditLimit[req[c].m]

(* Unless he was waived, a member joins one academy at a time, and after the *)
(* count there is room for the membership that will be written.             *)
Joining(c) == Busy(c, "request") \/ Busy(c, "enroll")
JoinsInTurn ==
  \A c \in Clients : Joining(c) /\ req[c].m \notin waived =>
    /\ \A d \in Clients : Joining(d) /\ req[d].m = req[c].m => d = c
    /\ Busy(c, "request") /\ pc[c] # "counting" =>
         limit <= 0 \/ Cardinality(Open(req[c].m)) < limit

(* Two decisions about a membership in progress at a time are on record, and *)
(* until then what is to be approved is still pending, if it is there.      *)
Decides(d, m, a) == /\ Active(d) /\ req[d].m = m
                    /\ req[d].op = "status" \/ (req[d].op \in {"decide", "withdraw"} /\ req[d].a = a)
DecisionsInTurn ==
  \A c \in Clients : Busy(c, "decide") /\ <<req[c].m, req[c].a>> \notin contested =>
    /\ \A d \in Clients : Decides(d, req[c].m, req[c].a) => d = c
    /\ req[c].to = "APPROVED" /\ Same(member[req[c].m][req[c].a], req[c].row) =>
         member[req[c].m][req[c].a].status = "PENDING"

IInv == /\ TypeOK /\ RequestsFit
        /\ LimitHistoryChains /\ LimitsInTurn
        /\ WithinLimit /\ JoinsInTurn
        /\ DecisionsInTurn

-----------------------------------------------------------------------------
LEMMA OpenIsFinite == \A m : IsFiniteSet(Open(m)) /\ Cardinality(Open(m)) \in Nat
  <1>1. \A m : Open(m) \subseteq Academies
    BY DEF Open
  <1>. QED  BY <1>1, MembershipAssumption, FS_Subset, FS_CardinalityType

LEMMA InitIInv == Init => IInv
  <1>. SUFFICES ASSUME Init  PROVE IInv
    OBVIOUS
  <1>1. member \in [Members -> [Academies -> Rows \cup {NoRow}]]
    <2>1. [status : Statuses \ {"REJECTED"}, born : {0}] \subseteq Rows
      BY DEF Rows
    <2>. QED  BY <2>1 DEF Init
  <1>2. /\ academy \in [Academies -> Reviews] /\ user \in [Members -> Reviews \cup {NoRow}]
        /\ creditLimit \in [Members -> CreditLimits] /\ limit \in Limits
        /\ begun \in 0 .. MaxRequests
    BY MembershipAssumption DEF Init, Reviews
  <1>3. TypeOK
    BY <1>1, <1>2 DEF Init, TypeOK
  <1>4. RequestsFit /\ LimitsInTurn /\ JoinsInTurn /\ DecisionsInTurn
    BY DEF Init, RequestsFit, Fits, LimitsInTurn, JoinsInTurn, DecisionsInTurn, Joining, Busy, Active
  <1>5. LimitHistoryChains /\ WithinLimit
    BY DEF Init, LimitHistoryChains, WithinLimit
  <1>. QED  BY <1>3, <1>4, <1>5 DEF IInv

-----------------------------------------------------------------------------
(* The histories only grow, and accounts are not taken back. *)
Grows ==
  /\ waived \subseteq waived' /\ waived' \subseteq Members
  /\ contested \subseteq contested' /\ contested' \subseteq Members \X Academies
  /\ raced \subseteq raced' /\ raced' \subseteq Members
  /\ \A m \in Members : user[m] # NoRow => user'[m] # NoRow

(* A request that begins: what it could come in the way of is on record. *)
LEMMA AcceptPreserves ==
  ASSUME IInv, NEW c \in Clients, NEW r \in Requests,
         NEW step \in {"counting", "writing", "linking", "deciding", "reading", "submitting"},
         Accept(c, r, step), Grows, user' \in [Members -> Reviews \cup {NoRow}],
         UNCHANGED <<academy, member, limit, creditLimit, gaps>>,
         step = "counting" <=> r.op = "request",
         step = "writing" <=> r.op \in {"withdraw", "decide"},
         step = "linking" <=> r.op = "enroll",
         step = "deciding" <=> r.op = "status",
         step = "reading" <=> r.op = "limit",
         step = "submitting" <=> r.op = "onboard",
         r.op = "decide" => r.to \in Statuses \ {"PENDING"},
         r.op = "status" => r.to \in Reviews,
         r.op = "limit" => r.to \in CreditLimits,
         r.op \in {"request", "enroll"} =>
           /\ user'[r.m] # NoRow
           /\ r.m \notin waived' =>
                \A d \in Clients \ {c} : ~ (Joining(d) /\ req[d].m = r.m),
         r.op = "limit" /\ r.m \notin raced' =>
           \A d \in Clients \ {c} : ~ (Busy(d, "limit") /\ req[d].m = r.m),
         r.op = "decide" =>
           /\ r.row = member[r.m][r.a]
           /\ r.to = "APPROVED" => r.row.status = "PENDING"
           /\ <<r.m, r.a>> \notin contested' =>
                \A d \in Clients \ {c} : ~ Decides(d, r.m, r.a),
         \A d \in Clients \ {c} :
           /\ Busy(d, "decide") /\ req[d].m = r.m
           /\ r.op = "status" \/ (r.op \in {"decide", "withdraw"} /\ r.a = req[d].a)
           => <<req[d].m, req[d].a>> \in contested'
  PROVE  IInv'
  <1>1. /\ pc[c] = "idle" /\ begun < MaxRequests /\ begun' = begun + 1
        /\ pc' = [pc EXCEPT ![c] = step] /\ req' = [req EXCEPT ![c] = r]
    BY DEF Accept
  <1>2. /\ pc'[c] = step /\ req'[c] = r /\ ~ Active(c) /\ Active(c)'
        /\ \A d \in Clients \ {c} : pc'[d] = pc[d] /\ req'[d] = req[d]
    BY <1>1 DEF IInv, TypeOK, Active
  <1>3. begun' \in 0 .. MaxRequests
    BY <1>1, MembershipAssumption DEF IInv, TypeOK
  <1>4. r.m \in Members /\ r.a \in Academies
    BY DEF Requests
  <1>5. TypeOK'
    <2>1. /\ pc' \in [Clients -> {"idle", "counting", "finding", "writing", "linking", "deciding",
                                  "spreading", "reading", "limiting", "submitting"}]
          /\ req' \in [Clients -> Requests \cup {NoRequest}]
      BY <1>1 DEF IInv, TypeOK
    <2>. QED  BY <1>3, <2>1 DEF IInv, TypeOK, Grows
  <1>6. RequestsFit'
    <2>1. Fits(c)'
      BY <1>2 DEF Fits, Busy, Active
    <2>2. ASSUME NEW d \in Clients \ {c}  PROVE Fits(d)'
      <3>1. Fits(d) /\ (Active(d) => req[d].m \in Members)
        BY DEF IInv, RequestsFit, Fits, Requests
      <3>. QED  BY <1>2, <3>1 DEF Fits, Busy, Active, Grows
    <2>. QED  BY <2>1, <2>2 DEF RequestsFit
  <1>7. \A d \in Clients \ {c} :
          /\ \A op \in Ops : Busy(d, op)' <=> Busy(d, op)
          /\ Joining(d)' <=> Joining(d)
          /\ \A m \in Members, a \in Academies : Decides(d, m, a)' <=> Decides(d, m, a)
    BY <1>2 DEF Busy, Joining, Decides, Active
  <1>8. /\ \A op \in Ops : Busy(c, op)' <=> r.op = op
        /\ Joining(c)' <=> r.op \in {"request", "enroll"}
    BY <1>2 DEF Busy, Joining, Active
  <1>9. \A m : Open(m)' = Open(m)
    BY DEF Open
  <1>10. LimitHistoryChains' /\ WithinLimit'
    BY <1>9 DEF IInv, LimitHistoryChains, WithinLimit, Grows
  <1>11. LimitsInTurn'
    <2>1. \A d \in Clients : Busy(d, "limit")' =>
            /\ d # c => Busy(d, "limit") /\ req'[d] = req[d]
            /\ d = c => r.op = "limit"
      BY <1>2, <1>7, <1>8 DEF Ops
    <2>. QED  BY <1>2, <2>1 DEF IInv, LimitsInTurn, Grows
  <1>12. JoinsInTurn'
    <2>1. ASSUME NEW d \in Clients, Joining(d)', req'[d].m \notin waived'
          PROVE  /\ \A e \in Clients : Joining(e)' /\ req'[e].m = req'[d].m => e = d
                 /\ Busy(d, "request")' /\ pc'[d] # "counting" =>
                      limit' <= 0 \/ Cardinality(Open(req[d].m)') < limit'
      BY <1>2, <1>7, <1>8, <1>9, <2>1 DEF IInv, JoinsInTurn, Grows, Ops
    <2>2. \A d \in Clients : pc'[d] # "counting" /\ Busy(d, "request")' => req'[d] = req[d]
      BY <1>2, <1>8 DEF Ops
    <2>. QED  BY <1>9, <2>1, <2>2 DEF JoinsInTurn
  <1>13. DecisionsInTurn'
    <2>1. ASSUME NEW d \in Clients, Busy(d, "decide")',
                 <<req'[d].m, req'[d].a>> \notin contested'
          PROVE  /\ \A e \in Clients : Decides(e, req[d].m, req[d].a)' => e = d
                 /\ req'[d].to = "APPROVED"
                      /\ Same(member'[req'[d].m][req'[d].a], req'[d].row) =>
                      member'[req'[d].m][req'[d].a].status = "PENDING"
      <3>1. CASE d = c
        BY <1>2, <1>4, <1>8, <2>1, <3>1 DEF Ops, Decides, Same, Active
      <3>2. CASE d # c
        <4>1. /\ Busy(d, "decide") /\ req'[d] = req[d]
              /\ <<req[d].m, req[d].a>> \notin contested
          BY <1>2, <1>7, <2>1, <3>2 DEF Ops, Grows
        <4>2. ~ Decides(c, req[d].m, req[d].a)'
          BY <1>2, <2>1, <3>2, <4>1 DEF Decides
        <4>3. \A e \in Clients \ {c} : Decides(e, req[d].m, req[d].a)' => Decides(e, req[d].m, req[d].a)
          BY <1>2, <4>1 DEF Decides, Active
        <4>. QED  BY <4>1, <4>2, <4>3 DEF IInv, DecisionsInTurn
      <3>. QED  BY <3>1, <3>2
    <2>. QED  BY <2>1 DEF DecisionsInTurn
  <1>. QED  BY <1>5, <1>6, <1>10, <1>11, <1>12, <1>13 DEF IInv

-----------------------------------------------------------------------------
(* What a step of the request c can do to a membership: nothing, delete it,  *)
(* ask for it, or what a decision of c about it says.                       *)
MembershipMoves(c) ==
  \A m \in Members, a \in Academies :
    \/ member'[m][a] = member[m][a]
    \/ member'[m][a] = NoRow
    \/ member'[m][a] # NoRow /\ member'[m][a].status = "PENDING"
    \/ Decides(c, m, a)

(* ... and to a member's open memberships: they are no more than before, or  *)
(* c, joining, ends with them within the limit.                             *)
OpensInTurn(c, step) ==
  \A m \in Members \ waived' :
    \/ Open(m)' \subseteq Open(m)
    \/ /\ Joining(c) /\ m = req[c].m /\ step = "idle"
       /\ limit <= 0 \/ Cardinality(Open(m)') <= limit

(* A request goes on: it keeps what it was asked for, and a decision, having *)
(* read its row at once, ends with the step that writes it.                 *)
LEMMA GotoPreserves ==
  ASSUME IInv, NEW c \in Clients,
         NEW step \in {"idle", "finding", "writing", "spreading", "limiting"},
         Active(c), Grows, TypeOK', Fits(c)', LimitHistoryChains',
         UNCHANGED limit,
         pc'[c] = step,
         \A d \in Clients \ {c} : pc'[d] = pc[d] /\ req'[d] = req[d],
         step # "idle" => /\ req'[c].op = req[c].op /\ req'[c].m = req[c].m
                          /\ req'[c].a = req[c].a /\ req'[c].to = req[c].to,
         Busy(c, "decide") => step = "idle",
         step = "limiting" => req'[c].old = creditLimit[req[c].m],
         step = "finding" => pc[c] = "counting" /\ EnforceMembershipLimit(req[c].m),
         step = "writing" => pc[c] = "finding",
         \A m \in Members : \/ creditLimit'[m] = creditLimit[m]
                            \/ step = "idle" /\ Busy(c, "limit") /\ m = req[c].m,
         MembershipMoves(c), OpensInTurn(c, step)
  PROVE  IInv'
  <1>1. \A d \in Clients : Active(d) => req[d].m \in Members /\ req[d].a \in Academies
    BY DEF IInv, RequestsFit, Fits, Requests
  <1>2. \A d \in Clients :
          /\ Active(d)' => Active(d) /\ req'[d].m = req[d].m /\ req'[d].a = req[d].a
          /\ \A op \in Ops : Busy(d, op)' => Busy(d, op)
          /\ Joining(d)' => Joining(d)
          /\ \A m \in Members, a \in Academies : Decides(d, m, a)' => Decides(d, m, a)
    BY DEF Busy, Joining, Decides, Active
  <1>3. RequestsFit'
    <2>1. ASSUME NEW d \in Clients \ {c}  PROVE Fits(d)'
      BY <1>1 DEF IInv, RequestsFit, Fits, Busy, Active, Grows
    <2>. QED  BY <2>1 DEF RequestsFit
  <1>4. LimitsInTurn'
    <2>1. ASSUME NEW d \in Clients, Busy(d, "limit")', req'[d].m \notin raced'
          PROVE  /\ Busy(d, "limit") /\ req'[d].m = req[d].m /\ req[d].m \notin raced
                 /\ \A e \in Clients : Busy(e, "limit")' /\ req'[e].m = req[d].m => e = d
                 /\ pc'[d] = "limiting" => req'[d].old = creditLimit'[req[d].m]
      <3>1. Busy(d, "limit") /\ Active(d)' /\ req'[d].m = req[d].m
        BY <1>2, <2>1 DEF Ops, Busy, Active
      <3>2. \A e \in Clients : Busy(e, "limit")' /\ req'[e].m = req[d].m => e = d
        BY <1>2, <2>1, <3>1 DEF IInv, LimitsInTurn, Ops, Busy, Active, Grows
      <3>3. pc'[d] = "limiting" => req'[d].old = creditLimit'[req[d].m]
        <4>1. CASE d = c
          BY <1>1, <3>1, <4>1 DEF Busy, Active
        <4>2. CASE d # c
          <5>1. ~ (Busy(c, "limit") /\ req[c].m = req[d].m)
            BY <2>1, <3>1, <4>2 DEF IInv, LimitsInTurn, Grows
          <5>. QED  BY <1>1, <2>1, <3>1, <4>2, <5>1 DEF IInv, LimitsInTurn, Grows, Busy, Active
        <4>. QED  BY <4>1, <4>2
      <3>. QED  BY <2>1, <3>1, <3>2, <3>3 DEF Grows
    <2>. QED  BY <2>1 DEF LimitsInTurn
  <1>5. \A m \in Members : Open(m)' \subseteq Open(m) => Cardinality(Open(m)') <= Cardinality(Open(m))
    BY OpenIsFinite, FS_Subset
  <1>6. \A m \in Members : Cardinality(Open(m)') \in Nat /\ Cardinality(Open(m)) \in Nat
    <2>1. \A m : Open(m)' \subseteq Academies
      BY DEF Open
    <2>. QED  BY <2>1, OpenIsFinite, MembershipAssumption, FS_Subset, FS_CardinalityType
  <1>7. limit \in Int
    BY MembershipAssumption DEF IInv, TypeOK
  <1>8. WithinLimit'
    <2>1. ASSUME NEW m \in Members, m \notin waived'
          PROVE  limit <= 0 \/ Cardinality(Open(m)') <= limit
      BY <1>5, <1>6, <1>7, <2>1 DEF OpensInTurn, IInv, WithinLimit, Grows
    <2>. QED  BY <2>1 DEF WithinLimit
  <1>9. JoinsInTurn'
    <2>1. ASSUME NEW d \in Clients, Joining(d)', req'[d].m \notin waived'
          PROVE  /\ req'[d].m = req[d].m
                 /\ \A e \in Clients : Joining(e)' /\ req'[e].m = req[d].m => e = d
                 /\ Busy(d, "request")' /\ pc'[d] # "counting" =>
                      limit <= 0 \/ Cardinality(Open(req[d].m)') < limit
      <3>1. Joining(d) /\ Active(d)' /\ req'[d].m = req[d].m /\ req[d].m \in Members
        BY <1>1, <1>2, <2>1 DEF Joining, Busy, Active
      <3>2. req[d].m \notin waived
        BY <2>1, <3>1 DEF Grows
      <3>3. \A e \in Clients : Joining(e)' /\ req'[e].m = req[d].m => e = d
        BY <1>2, <3>1, <3>2 DEF IInv, JoinsInTurn, Joining, Busy, Active
      <3>4. Open(req[d].m)' \subseteq Open(req[d].m)
        <4>1. CASE d = c
          BY <2>1, <3>1, <4>1 DEF OpensInTurn, Active
        <4>2. CASE d # c
          BY <2>1, <3>1, <3>2, <4>2 DEF OpensInTurn, IInv, JoinsInTurn
        <4>. QED  BY <4>1, <4>2
      <3>5. ASSUME Busy(d, "request")', pc'[d] # "counting"
            PROVE  limit <= 0 \/ Cardinality(Open(req[d].m)) < limit
        <4>0. Busy(d, "request")
          BY <1>2, <3>5 DEF Ops
        <4>1. CASE pc[d] # "counting"
          BY <3>1, <3>2, <4>0, <4>1 DEF IInv, JoinsInTurn
        <4>2. CASE pc[d] = "counting"
          BY <3>5, <4>2 DEF EnforceMembershipLimit, IInv, RequestsFit, Fits, Busy
        <4>. QED  BY <4>1, <4>2
      <3>. QED  BY <1>5, <1>6, <1>7, <3>1, <3>3, <3>4, <3>5
    <2>. QED  BY <2>1 DEF JoinsInTurn
  <1>10. DecisionsInTurn'
    <2>1. ASSUME NEW d \in Clients, Busy(d, "decide")',
                 <<req'[d].m, req'[d].a>> \notin contested'
          PROVE  /\ req'[d] = req[d]
                 /\ \A e \in Clients : Decides(e, req[d].m, req[d].a)' => e = d
                 /\ req[d].to = "APPROVED"
                      /\ Same(member'[req[d].m][req[d].a], req[d].row) =>
                      member'[req[d].m][req[d].a].status = "PENDING"
      <3>1. Busy(d, "decide") /\ d # c /\ req'[d] = req[d]
        BY <1>2, <2>1 DEF Ops, Busy, Active
      <3>2. req[d].m \in Members /\ req[d].a \in Academies
        BY <1>1, <3>1 DEF Busy, Active
      <3>3. <<req[d].m, req[d].a>> \notin contested
        BY <2>1, <3>1 DEF Grows
      <3>4. \A e \in Clients : Decides(e, req[d].m, req[d].a)' => e = d
        BY <1>2, <3>1, <3>2, <3>3 DEF IInv, DecisionsInTurn
      <3>5. ~ Decides(c, req[d].m, req[d].a)
        BY <3>1, <3>3 DEF IInv, DecisionsInTurn
      <3>6. \/ member'[req[d].m][req[d].a] = member[req[d].m][req[d].a]
            \/ member'[req[d].m][req[d].a] = NoRow
            \/ member'[req[d].m][req[d].a].status = "PENDING"
        BY <3>2, <3>5 DEF MembershipMoves
      <3>. QED  BY <3>1, <3>3, <3>4, <3>6 DEF IInv, DecisionsInTurn, Same
    <2>. QED  BY <2>1 DEF DecisionsInTurn
  <1>. QED  BY <1>3, <1>4, <1>8, <1>9, <1>10 DEF IInv

-----------------------------------------------------------------------------
LEMMA GotoMoves ==
  ASSUME IInv, NEW c \in Clients, NEW step \in {"idle", "finding", "spreading"},
         Active(c), Goto(c, step)
  PROVE  /\ pc'[c] = step /\ begun' = begun
         /\ step # "idle" => req'[c] = req[c]
         /\ pc' \in [Clients -> {"idle", "counting", "finding", "writing", "linking", "deciding",
                                 "spreading", "reading", "limiting", "submitting"}]
         /\ req' \in [Clients -> Requests \cup {NoRequest}]
         /\ \A d \in Clients \ {c} : pc'[d] = pc[d] /\ req'[d] = req[d]
  BY DEF Goto, IInv, TypeOK

(* A request that ends. *)
LEMMA EndPreserves ==
  ASSUME IInv, NEW c \in Clients, Active(c), Goto(c, "idle"), Grows,
         academy' \in [Academies -> Reviews],
         member' \in [Members -> [Academies -> Rows \cup {NoRow}]],
         creditLimit' \in [Members -> CreditLimits],
         UNCHANGED <<user, limit>>, gaps' \subseteq Members, LimitHistoryChains',
         \A m \in Members : \/ creditLimit'[m] = creditLimit[m]
                            \/ Busy(c, "limit") /\ m = req[c].m,
         MembershipMoves(c), OpensInTurn(c, "idle")
  PROVE  IInv'
  <1>1. /\ pc'[c] = "idle" /\ begun' = begun
        /\ pc' \in [Clients -> {"idle", "counting", "finding", "writing", "linking", "deciding",
                                "spreading", "reading", "limiting", "submitting"}]
        /\ req' \in [Clients -> Requests \cup {NoRequest}]
        /\ \A d \in Clients \ {c} : pc'[d] = pc[d] /\ req'[d] = req[d]
    BY GotoMoves
  <1>2. TypeOK'
    BY <1>1 DEF IInv, TypeOK, Grows
  <1>3. Fits(c)'
    BY <1>1 DEF Fits, Busy, Active
  <1>. QED  BY <1>1, <1>2, <1>3, GotoPreserves

(* A request that ends and leaves the tables as they are. *)
LEMMA GiveUpPreserves ==
  ASSUME IInv, NEW c \in Clients, Active(c), Goto(c, "idle"), UNCHANGED <<tables, history>>
  PROVE  IInv'
  <1>1. UNCHANGED <<academy, user, member, limit, creditLimit, waived, contested, gaps, raced>>
    BY DEF tables, history
  <1>2. Grows /\ LimitHistoryChains'
    BY <1>1 DEF Grows, IInv, TypeOK, LimitHistoryChains
  <1>3. MembershipMoves(c) /\ OpensInTurn(c, "idle")
    BY <1>1 DEF MembershipMoves, OpensInTurn, Open
  <1>. QED  BY <1>1, <1>2, <1>3, EndPreserves DEF IInv, TypeOK

(* One membership written. *)
LEMMA SetOneMembership ==
  ASSUME TypeOK, NEW m \in Members, NEW a \in Academies, NEW x \in Rows \cup {NoRow},
         member' = [member EXCEPT ![m][a] = x]
  PROVE  /\ member' \in [Members -> [Academies -> Rows \cup {NoRow}]]
         /\ member'[m][a] = x
         /\ \A n \in Members, b \in Academies :
              n # m \/ b # a => member'[n][b] = member[n][b]
  <1>1. member[m] \in [Academies -> Rows \cup {NoRow}]
    BY DEF TypeOK
  <1>2. [member[m] EXCEPT ![a] = x] \in [Academies -> Rows \cup {NoRow}]
    BY <1>1
  <1>3. member' = [member EXCEPT ![m] = [member[m] EXCEPT ![a] = x]]
    OBVIOUS
  <1>. QED  BY <1>1, <1>2, <1>3 DEF TypeOK

LEMMA CountOpenPreserves ==
  ASSUME IInv, NEW c \in Clients, CountOpen(c)  PROVE IInv'
  <1>1. /\ pc[c] = "counting" /\ Active(c) /\ UNCHANGED <<tables, history>>
    BY DEF CountOpen, Active
  <1>2. CASE ~ EnforceMembershipLimit(req[c].m)
    BY <1>1, <1>2, GiveUpPreserves DEF CountOpen
  <1>3. CASE EnforceMembershipLimit(req[c].m)
    <2>1. Goto(c, "finding")
      BY <1>3 DEF CountOpen
    <2>2. UNCHANGED <<academy, user, member, limit, creditLimit, waived, contested, gaps, raced>>
      BY <1>1 DEF tables, history
    <2>3. /\ pc'[c] = "finding" /\ begun' = begun /\ req'[c] = req[c]
          /\ pc' \in [Clients -> {"idle", "counting", "finding", "writing", "linking", "deciding",
                                  "spreading", "reading", "limiting", "submitting"}]
          /\ req' \in [Clients -> Requests \cup {NoRequest}]
          /\ \A d \in Clients \ {c} : pc'[d] = pc[d] /\ req'[d] = req[d]
      BY <1>1, <2>1, GotoMoves
    <2>4. Grows /\ LimitHistoryChains' /\ TypeOK'
      BY <2>2, <2>3 DEF Grows, IInv, TypeOK, LimitHistoryChains
    <2>5. MembershipMoves(c) /\ OpensInTurn(c, "finding")
      BY <2>2 DEF MembershipMoves, OpensInTurn, Open
    <2>6. Fits(c)' /\ ~ Busy(c, "decide")
      BY <1>1, <2>2, <2>3 DEF IInv, RequestsFit, Fits, Busy, Active
    <2>. QED  BY <1>1, <1>3, <2>2, <2>3, <2>4, <2>5, <2>6, GotoPreserves
  <1>. QED  BY <1>2, <1>3

LEMMA FindMembershipPreserves ==
  ASSUME IInv, NEW c \in Clients, FindMembership(c)  PROVE IInv'
  <1>. DEFINE row == member[req[c].m][req[c].a]
  <1>1. /\ pc[c] = "finding" /\ Active(c) /\ UNCHANGED <<tables, history>>
    BY DEF FindMembership, Active
  <1>2. CASE Goto(c, "idle")
    BY <1>1, <1>2, GiveUpPreserves
  <1>3. CASE /\ pc' = [pc EXCEPT ![c] = "writing"] /\ req' = [req EXCEPT ![c].row = row]
             /\ UNCHANGED begun
    <2>1. UNCHANGED <<academy, user, member, limit, creditLimit, waived, contested, gaps, raced>>
      BY <1>1 DEF tables, history
    <2>2. /\ req[c] \in Requests /\ req[c].op = "request" /\ row \in Rows \cup {NoRow}
          /\ user[req[c].m] # NoRow
      BY <1>1 DEF IInv, TypeOK, RequestsFit, Fits, Requests, Busy, Active
    <2>. HIDE DEF row
    <2>3. /\ [req[c] EXCEPT !.row = row] \in Requests
          /\ [req[c] EXCEPT !.row = row].op = req[c].op /\ [req[c] EXCEPT !.row = row].m = req[c].m
          /\ [req[c] EXCEPT !.row = row].a = req[c].a /\ [req[c] EXCEPT !.row = row].to = req[c].to
      BY <2>2 DEF Requests
    <2>4. /\ pc'[c] = "writing" /\ req'[c] = [req[c] EXCEPT !.row = row]
          /\ pc' \in [Clients -> {"idle", "counting", "finding", "writing", "linking", "deciding",
                                  "spreading", "reading", "limiting", "submitting"}]
          /\ req' \in [Clients -> Requests \cup {NoRequest}]
          /\ \A d \in Clients \ {c} : pc'[d] = pc[d] /\ req'[d] = req[d]
      BY <1>3, <2>3 DEF IInv, TypeOK
    <2>5. Grows /\ LimitHistoryChains' /\ TypeOK'
      BY <1>3, <2>1, <2>4 DEF Grows, IInv, TypeOK, LimitHistoryChains
    <2>6. MembershipMoves(c) /\ OpensInTurn(c, "writing")
      BY <2>1 DEF MembershipMoves, OpensInTurn, Open
    <2>7. Fits(c)' /\ ~ Busy(c, "decide")
      BY <2>1, <2>2, <2>3, <2>4 DEF Fits, Busy, Active
    <2>. QED  BY <1>1, <2>1, <2>3, <2>4, <2>5, <2>6, <2>7, GotoPreserves
  <1>. QED  BY <1>2, <1>3 DEF FindMembership

(* What is written: one membership, asked for. *)
LEMMA StoreRequestWrites ==
  ASSUME IInv, NEW c \in Clients, StoreRequest(c)
  PROVE  /\ member' \in [Members -> [Academies -> Rows \cup {NoRow}]]
         /\ \A n \in Members, b \in Academies :
             \/ member'[n][b] = member[n][b]
             \/ n = req[c].m /\ b = req[c].a /\ member'[n][b] \in Rows /\ member'[n][b].status = "PENDING"
  <1>. DEFINE m == req[c].m
              a == req[c].a
              row == member[m][a]
              new == [status |-> "PENDING", born |-> begun]
              again == [row EXCEPT !.status = "PENDING"]
  <1>1. /\ pc[c] = "writing" /\ req[c].op = "request" /\ Active(c) /\ Goto(c, "idle")
        /\ UNCHANGED <<academy, user, limit, creditLimit, waived, contested, gaps, raced>>
    BY DEF StoreRequest, history, Active
  <1>2. m \in Members /\ a \in Academies /\ row \in Rows \cup {NoRow}
    BY <1>1 DEF IInv, TypeOK, RequestsFit, Fits, Requests
  <1>3. new \in Rows /\ new.status = "PENDING"
    BY DEF Rows, Statuses, Reviews, IInv, TypeOK
  <1>4. row # NoRow => again \in Rows /\ again.status = "PENDING"
    BY <1>2 DEF Rows, Statuses, Reviews
  <1>5. \/ member' = member
        \/ member' = [member EXCEPT ![m][a] = new]
        \/ row # NoRow /\ member' = [member EXCEPT ![m][a] = again]
    <2>1. CASE req[c].row = NoRow /\ row = NoRow
      BY <2>1 DEF StoreRequest, Same
    <2>2. CASE Same(row, req[c].row)
      BY <2>2 DEF StoreRequest, Same
    <2>3. CASE ~ (req[c].row = NoRow /\ row = NoRow) /\ ~ Same(row, req[c].row)
      BY <2>3 DEF StoreRequest
    <2>. QED  BY <2>1, <2>2, <2>3
  <1>. HIDE DEF new, again
  <1>6. /\ member' \in [Members -> [Academies -> Rows \cup {NoRow}]]
        /\ \A n \in Members, b \in Academies :
             \/ member'[n][b] = member[n][b]
             \/ n = m /\ b = a /\ member'[n][b] \in Rows /\ member'[n][b].status = "PENDING"
    <2>1. ASSUME NEW x \in Rows, x.status = "PENDING", member' = [member EXCEPT ![m][a] = x]
          PROVE  /\ member' \in [Members -> [Academies -> Rows \cup {NoRow}]]
                 /\ \A n \in Members, b \in Academies :
                      \/ member'[n][b] = member[n][b]
                      \/ n = m /\ b = a /\ member'[n][b] \in Rows /\ member'[n][b].status = "PENDING"
      BY <1>2, <2>1, SetOneMembership DEF IInv, TypeOK
    <2>2. CASE member' = member
      BY <2>2 DEF IInv, TypeOK
    <2>. QED  BY <1>3, <1>4, <1>5, <2>1, <2>2
  <1>. QED  BY <1>6

(* The membership that is written fits: there was room after the count, and  *)
(* nobody else has taken it.                                                *)
LEMMA StoreRequestPreserves ==
  ASSUME IInv, NEW c \in Clients, StoreRequest(c)  PROVE IInv'
  <1>. DEFINE m == req[c].m
              a == req[c].a
  <1>1. /\ pc[c] = "writing" /\ req[c].op = "request" /\ Active(c) /\ Goto(c, "idle")
        /\ UNCHANGED <<academy, user, limit, creditLimit, waived, contested, gaps, raced>>
    BY DEF StoreRequest, history, Active
  <1>2. m \in Members /\ a \in Academies
    BY <1>1 DEF IInv, TypeOK, RequestsFit, Fits, Requests
  <1>3. /\ member' \in [Members -> [Academies -> Rows \cup {NoRow}]]
        /\ \A n \in Members, b \in Academies :
             \/ member'[n][b] = member[n][b]
             \/ n = m /\ b = a /\ member'[n][b] \in Rows /\ member'[n][b].status = "PENDING"
    BY StoreRequestWrites
  <1>4. MembershipMoves(c)
    BY <1>3, NoRowAssumption DEF MembershipMoves
  <1>5. OpensInTurn(c, "idle")
    <2>1. \A n \in Members : n # m => Open(n)' \subseteq Open(n)
      BY <1>3 DEF Open
    <2>2. \A n \in Members : Open(n)' \subseteq Open(n) \cup {a}
      BY <1>3 DEF Open
    <2>3. ASSUME NEW n \in Members, n = m, n \notin waived
          PROVE  limit <= 0 \/ Cardinality(Open(n)') <= limit
      <3>1. limit <= 0 \/ Cardinality(Open(n)) < limit
        BY <1>1, <2>3 DEF IInv, JoinsInTurn, Joining, Busy, Active
      <3>2. /\ IsFiniteSet(Open(n) \cup {a}) /\ Cardinality(Open(n)) \in Nat
            /\ Cardinality(Open(n) \cup {a}) <= Cardinality(Open(n)) + 1
        BY OpenIsFinite, FS_AddElement
      <3>3. Cardinality(Open(n)') <= Cardinality(Open(n) \cup {a})
        BY <2>2, <3>2, FS_Subset
      <3>4. /\ Cardinality(Open(n)') \in Nat /\ Cardinality(Open(n) \cup {a}) \in Nat
            /\ limit \in Int
        BY <2>2, <3>2, FS_Subset, FS_CardinalityType, MembershipAssumption DEF IInv, TypeOK
      <3>. QED  BY <3>1, <3>2, <3>3, <3>4
    <2>4. Joining(c)
      BY <1>1 DEF Joining, Busy, Active
    <2>. QED  BY <1>1, <2>1, <2>3, <2>4 DEF OpensInTurn
  <1>6. Grows /\ LimitHistoryChains'
    BY <1>1 DEF Grows, IInv, TypeOK, LimitHistoryChains
  <1>. QED  BY <1>1, <1>3, <1>4, <1>5, <1>6, EndPreserves DEF IInv, TypeOK

-----------------------------------------------------------------------------
(* The requests, as they begin. *)
LEMMA RequestMembershipPreserves ==
  ASSUME IInv, NEW c \in Clients, NEW m \in Members, NEW a \in Academies,
         RequestMembership(c, m, a)
  PROVE  IInv'
  <1>. DEFINE r == [op |-> "request", m |-> m, a |-> a, to |-> "PENDING",
                    row |-> NoRow, old |-> NoRow]
  <1>1. r \in Requests
    BY DEF Requests, Ops, Statuses, Reviews
  <1>2. r.op = "request" /\ r.m = m /\ r.a = a
    OBVIOUS
  <1>3. /\ user[m] # NoRow /\ Accept(c, r, "counting")
        /\ waived' = IF Others(c, "request", m) \cup Others(c, "enroll", m) # {}
                     THEN waived \cup {m} ELSE waived
        /\ UNCHANGED <<academy, user, member, limit, creditLimit, contested, gaps, raced>>
    BY NoRowAssumption DEF RequestMembership, tables, Reviews
  <1>. HIDE DEF r
  <1>4. Grows
    BY <1>3 DEF Grows, IInv, TypeOK
  <1>5. m \notin waived' => \A d \in Clients \ {c} : ~ (Joining(d) /\ req[d].m = m)
    BY <1>3 DEF Others, Joining
  <1>. QED  BY <1>1, <1>2, <1>3, <1>4, <1>5, AcceptPreserves DEF IInv, TypeOK

LEMMA WithdrawMembershipPreserves ==
  ASSUME IInv, NEW c \in Clients, NEW m \in Members, NEW a \in Academies,
         WithdrawMembership(c, m, a)
  PROVE  IInv'
  <1>. DEFINE r == [op |-> "withdraw", m |-> m, a |-> a, to |-> "REVOKED",
                    row |-> member[m][a], old |-> NoRow]
  <1>1. r \in Requests
    BY DEF Requests, Ops, Statuses, Reviews, IInv, TypeOK
  <1>2. r.op = "withdraw" /\ r.m = m /\ r.a = a
    OBVIOUS
  <1>3. /\ Accept(c, r, "writing") /\ contested' = Contest(c, m, a)
        /\ UNCHANGED <<academy, user, member, limit, creditLimit, waived, gaps, raced>>
    BY DEF WithdrawMembership, tables
  <1>. HIDE DEF r
  <1>4. Grows
    BY <1>3 DEF Grows, IInv, TypeOK, Contest
  <1>5. \A d \in Clients \ {c} : Busy(d, "decide") /\ req[d].m = m /\ req[d].a = a
                                   => <<m, a>> \in contested'
    BY <1>3 DEF Contest, Busy
  <1>. QED  BY <1>1, <1>2, <1>3, <1>4, <1>5, AcceptPreserves DEF IInv, TypeOK

LEMMA UpdateMembershipStatusPreserves ==
  ASSUME IInv, NEW c \in Clients, NEW m \in Members, NEW a \in Academies,
         NEW to \in Statuses, UpdateMembershipStatus(c, m, a, to)
  PROVE  IInv'
  <1>. DEFINE r == [op |-> "decide", m |-> m, a |-> a, to |-> to,
                    row |-> member[m][a], old |-> NoRow]
  <1>1. r \in Requests
    BY DEF Requests, Ops, IInv, TypeOK
  <1>2. r.op = "decide" /\ r.m = m /\ r.a = a /\ r.to = to /\ r.row = member[m][a]
    OBVIOUS
  <1>3. /\ Accept(c, r, "writing") /\ contested' = Contest(c, m, a)
        /\ to # "PENDING" /\ (to = "APPROVED" => member[m][a].status = "PENDING")
        /\ UNCHANGED <<academy, user, member, limit, creditLimit, waived, gaps, raced>>
    BY DEF UpdateMembershipStatus, Decidable, tables
  <1>. HIDE DEF r
  <1>4. Grows
    BY <1>3 DEF Grows, IInv, TypeOK, Contest
  <1>5. \A d \in Clients \ {c} : Decides(d, m, a) => <<m, a>> \in contested'
    BY <1>3 DEF Contest, Decides, Active
  <1>6. \A d \in Clients \ {c} : Busy(d, "decide") /\ req[d].m = m /\ req[d].a = a
                                   => <<m, a>> \in contested'
    BY <1>5 DEF Decides, Busy, Active
  <1>. QED  BY <1>1, <1>2, <1>3, <1>4, <1>5, <1>6, AcceptPreserves DEF IInv, TypeOK

LEMMA EnrollMemberPreserves ==
  ASSUME IInv, NEW c \in Clients, NEW m \in Members, NEW a \in Academies,
         EnrollMember(c, m, a)
  PROVE  IInv'
  <1>. DEFINE r == [op |-> "enroll", m |-> m, a |-> a, to |-> "PENDING",
                    row |-> NoRow, old |-> NoRow]
  <1>1. r \in Requests
    BY DEF Requests, Ops, Statuses, Reviews
  <1>2. r.op = "enroll" /\ r.m = m /\ r.a = a
    OBVIOUS
  <1>3. /\ user[m] = NoRow /\ user' = [user EXCEPT ![m] = "PENDING"]
        /\ Accept(c, r, "linking")
        /\ UNCHANGED <<academy, member, limit, creditLimit, waived, contested, gaps, raced>>
    BY DEF EnrollMember, history
  <1>. HIDE DEF r
  <1>4. Grows /\ user' \in [Members -> Reviews \cup {NoRow}] /\ user'[m] # NoRow
    BY <1>3, NoRowAssumption DEF Grows, IInv, TypeOK, Reviews
  <1>5. \A d \in Clients \ {c} : ~ (Joining(d) /\ req[d].m = m)
    BY <1>3 DEF IInv, RequestsFit, Fits, Joining
  <1>. QED  BY <1>1, <1>2, <1>3, <1>4, <1>5, AcceptPreserves

LEMMA UpdateStatusPreserves ==
  ASSUME IInv, NEW c \in Clients, NEW m \in Members, NEW a \in Academies,
         NEW to \in Reviews, UpdateStatus(c, m, a, to)
  PROVE  IInv'
  <1>. DEFINE r == [op |-> "status", m |-> m, a |-> a, to |-> to,
                    row |-> NoRow, old |-> user[m]]
  <1>1. r \in Requests
    BY DEF Requests, Ops, Statuses, Reviews, UpdateStatus, IInv, TypeOK
  <1>2. r.op = "status" /\ r.m = m /\ r.a = a /\ r.to = to
    OBVIOUS
  <1>3. /\ Accept(c, r, "deciding")
        /\ contested' = IF Others(c, "decide", m) \cup Others(c, "withdraw", m) # {}
                        THEN contested \cup ({m} \X Academies) ELSE contested
        /\ UNCHANGED <<academy, user, member, limit, creditLimit, waived, gaps, raced>>
    BY DEF UpdateStatus, tables
  <1>. HIDE DEF r
  <1>4. Grows
    BY <1>3 DEF Grows, IInv, TypeOK
  <1>5. \A d \in Clients \ {c} : Busy(d, "decide") /\ req[d].m = m
                                   => <<m, req[d].a>> \in contested'
    BY <1>3 DEF Others, Busy, Active, IInv, RequestsFit, Fits, Requests
  <1>. QED  BY <1>1, <1>2, <1>3, <1>4, <1>5, AcceptPreserves DEF IInv, TypeOK

LEMMA SetTeacherCreditLimitPreserves ==
  ASSUME IInv, NEW c \in Clients, NEW m \in Members, NEW a \in Academies,
         NEW to \in CreditLimits, SetTeacherCreditLimit(c, m, a, to)
  PROVE  IInv'
  <1>. DEFINE r == [op |-> "limit", m |-> m, a |-> a, to |-> to,
                    row |-> NoRow, old |-> NoRow]
  <1>1. r \in Requests
    BY DEF Requests, Ops
  <1>2. r.op = "limit" /\ r.m = m /\ r.a = a /\ r.to = to
    OBVIOUS
  <1>3. /\ Accept(c, r, "reading")
        /\ raced' = IF Others(c, "limit", m) # {} THEN raced \cup {m} ELSE raced
        /\ UNCHANGED <<academy, user, member, limit, creditLimit, waived, contested, gaps>>
    BY DEF SetTeacherCreditLimit, tables
  <1>. HIDE DEF r
  <1>4. Grows
    BY <1>3 DEF Grows, IInv, TypeOK
  <1>5. m \notin raced' => \A d \in Clients \ {c} : ~ (Busy(d, "limit") /\ req[d].m = m)
    BY <1>3 DEF Others
  <1>. QED  BY <1>1, <1>2, <1>3, <1>4, <1>5, AcceptPreserves DEF IInv, TypeOK

LEMMA SubmitOwnerOnboardingPreserves ==
  ASSUME IInv, NEW c \in Clients, NEW m \in Members, NEW a \in Academies,
         SubmitOwnerOnboarding(c, m, a)
  PROVE  IInv'
  <1>. DEFINE r == [op |-> "onboard", m |-> m, a |-> a, to |-> "PENDING",
                    row |-> NoRow, old |-> academy[a]]
  <1>1. r \in Requests
    BY DEF Requests, Ops, Statuses, Reviews, IInv, TypeOK
  <1>2. r.op = "onboard" /\ r.m = m /\ r.a = a
    OBVIOUS
  <1>3. /\ Accept(c, r, "submitting")
        /\ UNCHANGED <<academy, user, member, limit, creditLimit, waived, contested, gaps, raced>>
    BY DEF SubmitOwnerOnboarding, tables, history
  <1>. HIDE DEF r
  <1>4. Grows
    BY <1>3 DEF Grows, IInv, TypeOK
  <1>. QED  BY <1>1, <1>2, <1>3, <1>4, AcceptPreserves DEF IInv, TypeOK

-----------------------------------------------------------------------------
(* The writes. *)
(* What is written: one membership, left or deleted. *)
LEMMA StoreWithdrawalWrites ==
  ASSUME IInv, NEW c \in Clients, StoreWithdrawal(c)
  PROVE  /\ member' \in [Members -> [Academies -> Rows \cup {NoRow}]]
         /\ \A n \in Members, b \in Academies :
             \/ member'[n][b] = member[n][b]
             \/ n = req[c].m /\ b = req[c].a /\ member'[n][b] = NoRow
             \/ n = req[c].m /\ b = req[c].a /\ member'[n][b].status = "REVOKED"
  <1>. DEFINE m == req[c].m
              a == req[c].a
              row == member[m][a]
              left == [row EXCEPT !.status = "REVOKED"]
  <1>1. /\ pc[c] = "writing" /\ req[c].op = "withdraw" /\ Active(c) /\ Goto(c, "idle")
        /\ UNCHANGED <<academy, user, limit, creditLimit, waived, contested, gaps, raced>>
    BY DEF StoreWithdrawal, history, Active
  <1>2. m \in Members /\ a \in Academies /\ row \in Rows \cup {NoRow}
    BY <1>1 DEF IInv, TypeOK, RequestsFit, Fits, Requests
  <1>3. row # NoRow => left \in Rows /\ left.status = "REVOKED"
    BY <1>2 DEF Rows, Statuses
  <1>4. \/ member' = member
        \/ member' = [member EXCEPT ![m][a] = NoRow]
        \/ row # NoRow /\ member' = [member EXCEPT ![m][a] = left]
    <2>1. CASE ~ Same(row, req[c].row)
      BY <2>1 DEF StoreWithdrawal
    <2>2. CASE Same(row, req[c].row) /\ req[c].row.status = "APPROVED"
      BY <1>2, <2>2 DEF StoreWithdrawal, Same, IInv, TypeOK
    <2>3. CASE Same(row, req[c].row) /\ req[c].row.status # "APPROVED"
      BY <1>2, <2>3 DEF StoreWithdrawal, IInv, TypeOK
    <2>. QED  BY <2>1, <2>2, <2>3
  <1>. HIDE DEF left
  <1>5. /\ member' \in [Members -> [Academies -> Rows \cup {NoRow}]]
        /\ \A n \in Members, b \in Academies :
             \/ member'[n][b] = member[n][b]
             \/ /\ n = m /\ b = a
                /\ member'[n][b] = NoRow \/ member'[n][b].status = "REVOKED"
    <2>1. ASSUME NEW x \in Rows \cup {NoRow}, x = NoRow \/ x.status = "REVOKED",
                 member' = [member EXCEPT ![m][a] = x]
          PROVE  /\ member' \in [Members -> [Academies -> Rows \cup {NoRow}]]
                 /\ \A n \in Members, b \in Academies :
                      \/ member'[n][b] = member[n][b]
                      \/ /\ n = m /\ b = a
                         /\ member'[n][b] = NoRow \/ member'[n][b].status = "REVOKED"
      BY <1>2, <2>1, SetOneMembership DEF IInv, TypeOK
    <2>2. CASE member' = member
      BY <2>2 DEF IInv, TypeOK
    <2>. QED  BY <1>3, <1>4, <2>1, <2>2
  <1>. QED  BY <1>5

LEMMA StoreWithdrawalPreserves ==
  ASSUME IInv, NEW c \in Clients, StoreWithdrawal(c)  PROVE IInv'
  <1>. DEFINE m == req[c].m
              a == req[c].a
  <1>1. /\ pc[c] = "writing" /\ req[c].op = "withdraw" /\ Active(c) /\ Goto(c, "idle")
        /\ UNCHANGED <<academy, user, limit, creditLimit, waived, contested, gaps, raced>>
    BY DEF StoreWithdrawal, history, Active
  <1>2. m \in Members /\ a \in Academies
    BY <1>1 DEF IInv, TypeOK, RequestsFit, Fits, Requests
  <1>3. /\ member' \in [Members -> [Academies -> Rows \cup {NoRow}]]
        /\ \A n \in Members, b \in Academies :
             \/ member'[n][b] = member[n][b]
             \/ n = m /\ b = a /\ member'[n][b] = NoRow
             \/ n = m /\ b = a /\ member'[n][b].status = "REVOKED"
    BY StoreWithdrawalWrites
  <1>4. MembershipMoves(c)
    BY <1>1, <1>3 DEF MembershipMoves, Decides
  <1>5. OpensInTurn(c, "idle")
    BY <1>3 DEF OpensInTurn, Open
  <1>6. Grows /\ LimitHistoryChains'
    BY <1>1 DEF Grows, IInv, TypeOK, LimitHistoryChains
  <1>. QED  BY <1>1, <1>3, <1>4, <1>5, <1>6, EndPreserves DEF IInv, TypeOK

(* What is written: the decision, to the membership it was taken about. *)
LEMMA StoreDecisionWrites ==
  ASSUME IInv, NEW c \in Clients, StoreDecision(c)
  PROVE  /\ req[c].m \in Members /\ req[c].a \in Academies
         /\ req[c].to \in Statuses \ {"PENDING"}
         /\ member' \in [Members -> [Academies -> Rows \cup {NoRow}]]
         /\ \A n \in Members, b \in Academies :
              \/ member'[n][b] = member[n][b]
              \/ /\ n = req[c].m /\ b = req[c].a
                 /\ Same(member[n][b], req[c].row) /\ member'[n][b].status = req[c].to
  <1>. DEFINE m == req[c].m
              a == req[c].a
              row == member[m][a]
              decided == [row EXCEPT !.status = req[c].to]
  <1>1. /\ m \in Members /\ a \in Academies /\ row \in Rows \cup {NoRow}
        /\ req[c].to \in Statuses \ {"PENDING"}
    BY DEF StoreDecision, IInv, TypeOK, RequestsFit, Fits, Requests, Busy, Active
  <1>2. row # NoRow => decided \in Rows /\ decided.status = req[c].to
    BY <1>1 DEF Rows
  <1>3. \/ member' = member
        \/ Same(row, req[c].row) /\ member' = [member EXCEPT ![m][a] = decided]
    BY <1>1 DEF StoreDecision, Same, IInv, TypeOK
  <1>. HIDE DEF decided
  <1>4. ASSUME Same(row, req[c].row), member' = [member EXCEPT ![m][a] = decided]
        PROVE  /\ member' \in [Members -> [Academies -> Rows \cup {NoRow}]]
               /\ \A n \in Members, b \in Academies :
                    \/ member'[n][b] = member[n][b]
                    \/ n = m /\ b = a /\ member'[n][b].status = req[c].to
    <2>1. TypeOK /\ row # NoRow
      BY <1>4 DEF IInv, Same
    <2>2. decided \in Rows \cup {NoRow} /\ decided.status = req[c].to
      BY <1>2, <2>1
    <2>. HIDE DEF m, a, row
    <2>3. /\ member' \in [Members -> [Academies -> Rows \cup {NoRow}]]
          /\ member'[m][a] = decided
          /\ \A n \in Members, b \in Academies :
               n # m \/ b # a => member'[n][b] = member[n][b]
      BY <1>1, <1>4, <2>1, <2>2, SetOneMembership DEF TypeOK
    <2>. QED  BY <2>2, <2>3 DEF m, a
  <1>5. CASE member' = member
    BY <1>1, <1>5 DEF IInv, TypeOK
  <1>. QED  BY <1>1, <1>3, <1>4, <1>5

(* A decision that opens a membership that was closed is on record. *)
LEMMA StoreDecisionPreserves ==
  ASSUME IInv, NEW c \in Clients, StoreDecision(c)  PROVE IInv'
  <1>. DEFINE m == req[c].m
              a == req[c].a
  <1>1. /\ pc[c] = "writing" /\ req[c].op = "decide" /\ Active(c) /\ Goto(c, "idle")
        /\ waived' = IF req[c].to = "APPROVED" /\ a \notin Open(m)
                     THEN waived \cup {m} ELSE waived
        /\ UNCHANGED <<academy, user, limit, creditLimit, contested, gaps, raced>>
    BY DEF StoreDecision, Active
  <1>2. /\ m \in Members /\ a \in Academies /\ req[c].to \in Statuses \ {"PENDING"}
        /\ member' \in [Members -> [Academies -> Rows \cup {NoRow}]]
        /\ \A n \in Members, b \in Academies :
             \/ member'[n][b] = member[n][b]
             \/ n = m /\ b = a /\ member'[n][b].status = req[c].to
    BY StoreDecisionWrites
  <1>3. MembershipMoves(c)
    BY <1>1, <1>2 DEF MembershipMoves, Decides
  <1>4. OpensInTurn(c, "idle")
    <2>1. ASSUME NEW n \in Members, n \notin waived'  PROVE Open(n)' \subseteq Open(n)
      <3>1. CASE n # m
        BY <1>2, <3>1 DEF Open
      <3>2. CASE n = m /\ req[c].to # "APPROVED"
        BY <1>2, <3>2 DEF Open
      <3>3. CASE n = m /\ req[c].to = "APPROVED"
        <4>1. a \in Open(n)
          BY <1>1, <2>1, <3>3
        <4>. QED  BY <1>2, <3>3, <4>1 DEF Open
      <3>. QED  BY <3>1, <3>2, <3>3
    <2>. QED  BY <2>1 DEF OpensInTurn
  <1>5. Grows /\ LimitHistoryChains'
    BY <1>1, <1>2 DEF Grows, IInv, TypeOK, LimitHistoryChains
  <1>. QED  BY <1>1, <1>2, <1>3, <1>4, <1>5, EndPreserves DEF IInv, TypeOK

(* What is written: one membership, asked for. *)
LEMMA LinkToOwnerAcademyWrites ==
  ASSUME IInv, NEW c \in Clients, LinkToOwnerAcademy(c)
  PROVE  /\ member' \in [Members -> [Academies -> Rows \cup {NoRow}]]
         /\ \A n \in Members, b \in Academies :
             \/ member'[n][b] = member[n][b]
             \/ n = req[c].m /\ b = req[c].a /\ member'[n][b] \in Rows /\ member'[n][b].status = "PENDING"
  <1>. DEFINE m == req[c].m
              a == req[c].a
              row == member[m][a]
              new == [status |-> "PENDING", born |-> begun]
  <1>1. /\ pc[c] = "linking" /\ Active(c) /\ Goto(c, "idle")
        /\ waived' = IF Open(m) # {} THEN waived \cup {m} ELSE waived
        /\ UNCHANGED <<academy, user, limit, creditLimit, contested, gaps, raced>>
    BY DEF LinkToOwnerAcademy, Active
  <1>2. m \in Members /\ a \in Academies /\ req[c].op = "enroll"
    BY <1>1 DEF IInv, RequestsFit, Fits, Requests
  <1>3. new \in Rows /\ new.status = "PENDING"
    BY DEF Rows, Statuses, Reviews, IInv, TypeOK
  <1>4. member' = member \/ member' = [member EXCEPT ![m][a] = new]
    BY DEF LinkToOwnerAcademy
  <1>. HIDE DEF new
  <1>5. /\ member' \in [Members -> [Academies -> Rows \cup {NoRow}]]
        /\ \A n \in Members, b \in Academies :
             \/ member'[n][b] = member[n][b]
             \/ n = m /\ b = a /\ member'[n][b] \in Rows /\ member'[n][b].status = "PENDING"
    <2>1. CASE member' = [member EXCEPT ![m][a] = new]
      BY <1>2, <1>3, <2>1, SetOneMembership DEF IInv, TypeOK
    <2>2. CASE member' = member
      BY <2>2 DEF IInv, TypeOK
    <2>. QED  BY <1>4, <2>1, <2>2
  <1>. QED  BY <1>5

(* An enrolment is counted by nobody: unless it is the first, it is on record. *)
LEMMA LinkToOwnerAcademyPreserves ==
  ASSUME IInv, NEW c \in Clients, LinkToOwnerAcademy(c)  PROVE IInv'
  <1>. DEFINE m == req[c].m
              a == req[c].a
  <1>1. /\ pc[c] = "linking" /\ Active(c) /\ Goto(c, "idle")
        /\ waived' = IF Open(m) # {} THEN waived \cup {m} ELSE waived
        /\ UNCHANGED <<academy, user, limit, creditLimit, contested, gaps, raced>>
    BY DEF LinkToOwnerAcademy, Active
  <1>2. m \in Members /\ a \in Academies /\ req[c].op = "enroll"
    BY <1>1 DEF IInv, RequestsFit, Fits, Requests
  <1>3. /\ member' \in [Members -> [Academies -> Rows \cup {NoRow}]]
        /\ \A n \in Members, b \in Academies :
             \/ member'[n][b] = member[n][b]
             \/ n = m /\ b = a /\ member'[n][b] \in Rows /\ member'[n][b].status = "PENDING"
    BY LinkToOwnerAcademyWrites
  <1>4. MembershipMoves(c)
    BY <1>3, NoRowAssumption DEF MembershipMoves
  <1>5. OpensInTurn(c, "idle")
    <2>1. \A n \in Members : n # m => Open(n)' \subseteq Open(n)
      BY <1>3 DEF Open
    <2>2. ASSUME NEW n \in Members, n = m, n \notin waived'
          PROVE  limit <= 0 \/ Cardinality(Open(n)') <= limit
      <3>1. Open(n) = {}
        BY <1>1, <2>2
      <3>2. Open(n)' \subseteq {a}
        BY <1>3, <3>1 DEF Open
      <3>3. Cardinality(Open(n)') \in Nat /\ Cardinality(Open(n)') <= 1
        <4>1. IsFiniteSet({a}) /\ Cardinality({a}) = 1
          BY FS_Singleton
        <4>. QED  BY <3>2, <4>1, FS_Subset, FS_CardinalityType
      <3>4. limit \in Int
        BY MembershipAssumption DEF IInv, TypeOK
      <3>. QED  BY <3>3, <3>4
    <2>3. Joining(c)
      BY <1>1, <1>2 DEF Joining, Busy
    <2>. QED  BY <2>1, <2>2, <2>3 DEF OpensInTurn
  <1>6. Grows /\ LimitHistoryChains'
    BY <1>1, <1>2 DEF Grows, IInv, TypeOK, LimitHistoryChains
  <1>. QED  BY <1>1, <1>3, <1>4, <1>5, <1>6, EndPreserves DEF IInv, TypeOK

LEMMA StoreStatusPreserves ==
  ASSUME IInv, NEW c \in Clients, StoreStatus(c)  PROVE IInv'
  <1>1. /\ pc[c] = "deciding" /\ Active(c) /\ Goto(c, "spreading")
        /\ user' = [user EXCEPT ![req[c].m] = req[c].to]
        /\ UNCHANGED <<academy, member, limit, creditLimit, waived, contested, gaps, raced>>
    BY DEF StoreStatus, history, Active
  <1>2. req[c] \in Requests /\ req[c].op = "status" /\ req[c].to \in Reviews
    BY <1>1 DEF IInv, RequestsFit, Fits
  <1>3. /\ pc'[c] = "spreading" /\ begun' = begun /\ req'[c] = req[c]
        /\ pc' \in [Clients -> {"idle", "counting", "finding", "writing", "linking", "deciding",
                                "spreading", "reading", "limiting", "submitting"}]
        /\ req' \in [Clients -> Requests \cup {NoRequest}]
        /\ \A d \in Clients \ {c} : pc'[d] = pc[d] /\ req'[d] = req[d]
    BY <1>1, GotoMoves
  <1>4. /\ user' \in [Members -> Reviews \cup {NoRow}]
        /\ \A m \in Members : user[m] # NoRow => user'[m] # NoRow
    BY <1>1, <1>2, NoRowAssumption DEF IInv, TypeOK
  <1>5. Grows /\ LimitHistoryChains' /\ TypeOK'
    BY <1>1, <1>3, <1>4 DEF Grows, IInv, TypeOK, LimitHistoryChains
  <1>6. MembershipMoves(c) /\ OpensInTurn(c, "spreading")
    BY <1>1 DEF MembershipMoves, OpensInTurn, Open
  <1>7. Fits(c)' /\ ~ Busy(c, "decide")
    BY <1>2, <1>3 DEF Fits, Busy, Active
  <1>. QED  BY <1>1, <1>3, <1>5, <1>6, <1>7, GotoPreserves

(* A status that leaves memberships open is on record; the other closes all. *)
LEMMA SpreadStatusPreserves ==
  ASSUME IInv, NEW c \in Clients, SpreadStatus(c)  PROVE IInv'
  <1>. DEFINE m == req[c].m
              spread == [a \in Academies |->
                           IF member[m][a] = NoRow THEN NoRow
                           ELSE [member[m][a] EXCEPT !.status = req[c].to]]
  <1>1. /\ pc[c] = "spreading" /\ Active(c) /\ Goto(c, "idle")
        /\ waived' = IF req[c].to # "REJECTED" THEN waived \cup {m} ELSE waived
        /\ UNCHANGED <<academy, user, limit, creditLimit, contested, gaps, raced>>
    BY DEF SpreadStatus, Active
  <1>2. m \in Members /\ req[c].op = "status" /\ req[c].to \in Reviews
    BY <1>1 DEF IInv, RequestsFit, Fits, Requests
  <1>3. member' = [member EXCEPT ![m] = spread]
    BY <1>2 DEF SpreadStatus, IInv, TypeOK
  <1>4. /\ spread \in [Academies -> Rows \cup {NoRow}]
        /\ \A a \in Academies : spread[a] = NoRow \/ spread[a].status = req[c].to
    BY <1>2 DEF IInv, TypeOK, Rows, Statuses
  <1>. HIDE DEF spread
  <1>5. /\ member' \in [Members -> [Academies -> Rows \cup {NoRow}]]
        /\ \A n \in Members : n # m => member'[n] = member[n]
        /\ \A a \in Academies : member'[m][a] = NoRow \/ member'[m][a].status = req[c].to
    BY <1>2, <1>3, <1>4 DEF IInv, TypeOK
  <1>6. MembershipMoves(c)
    BY <1>1, <1>2, <1>5 DEF MembershipMoves, Decides
  <1>7. OpensInTurn(c, "idle")
    <2>1. ASSUME NEW n \in Members, n \notin waived'  PROVE Open(n)' \subseteq Open(n)
      <3>1. CASE n # m
        BY <1>5, <3>1 DEF Open
      <3>2. CASE n = m
        BY <1>1, <1>5, <2>1, <3>2 DEF Open
      <3>. QED  BY <3>1, <3>2
    <2>. QED  BY <2>1 DEF OpensInTurn
  <1>8. Grows /\ LimitHistoryChains'
    BY <1>1, <1>2 DEF Grows, IInv, TypeOK, LimitHistoryChains
  <1>. QED  BY <1>1, <1>5, <1>6, <1>7, <1>8, EndPreserves DEF IInv, TypeOK

LEMMA ReadOldLimitPreserves ==
  ASSUME IInv, NEW c \in Clients, ReadOldLimit(c)  PROVE IInv'
  <1>. DEFINE now == creditLimit[req[c].m]
              next == [req[c] EXCEPT !.old = now]
  <1>1. /\ pc[c] = "reading" /\ Active(c)
        /\ pc' = [pc EXCEPT ![c] = "limiting"] /\ req' = [req EXCEPT ![c] = next]
        /\ UNCHANGED <<academy, user, member, limit, creditLimit, begun,
                       waived, contested, gaps, raced>>
    BY DEF ReadOldLimit, tables, history, Active
  <1>2. /\ req[c] \in Requests /\ req[c].op = "limit" /\ req[c].to \in CreditLimits
        /\ now \in CreditLimits
    BY <1>1 DEF IInv, TypeOK, RequestsFit, Fits, Requests
  <1>3. /\ next \in Requests /\ next.old = now /\ next.op = req[c].op /\ next.m = req[c].m
        /\ next.a = req[c].a /\ next.to = req[c].to
    BY <1>2 DEF Requests
  <1>. HIDE DEF next
  <1>4. /\ pc'[c] = "limiting" /\ req'[c] = next
        /\ pc' \in [Clients -> {"idle", "counting", "finding", "writing", "linking", "deciding",
                                "spreading", "reading", "limiting", "submitting"}]
        /\ req' \in [Clients -> Requests \cup {NoRequest}]
        /\ \A d \in Clients \ {c} : pc'[d] = pc[d] /\ req'[d] = req[d]
    BY <1>1, <1>3 DEF IInv, TypeOK
  <1>5. Grows /\ LimitHistoryChains' /\ TypeOK'
    BY <1>1, <1>4 DEF Grows, IInv, TypeOK, LimitHistoryChains
  <1>6. MembershipMoves(c) /\ OpensInTurn(c, "limiting")
    BY <1>1 DEF MembershipMoves, OpensInTurn, Open
  <1>7. Fits(c)' /\ ~ Busy(c, "decide")
    BY <1>2, <1>3, <1>4 DEF Fits, Busy, Active
  <1>. QED  BY <1>1, <1>3, <1>4, <1>5, <1>6, <1>7, GotoPreserves

(* The history row's old limit is the one in force, or two changes overlapped. *)
LEMMA CommitLimitPreserves ==
  ASSUME IInv, NEW c \in Clients, CommitLimit(c)  PROVE IInv'
  <1>. DEFINE m == req[c].m
  <1>1. /\ pc[c] = "limiting" /\ Active(c) /\ Goto(c, "idle")
        /\ gaps' = IF req[c].old # creditLimit[m] THEN gaps \cup {m} ELSE gaps
        /\ creditLimit' = [creditLimit EXCEPT ![m] = req[c].to]
        /\ UNCHANGED <<academy, user, member, limit, waived, contested, raced>>
    BY DEF CommitLimit, Active
  <1>2. m \in Members /\ req[c].op = "limit" /\ req[c].to \in CreditLimits
    BY <1>1 DEF IInv, RequestsFit, Fits, Requests
  <1>3. m \in raced \/ req[c].old = creditLimit[m]
    BY <1>1, <1>2 DEF IInv, LimitsInTurn, Busy
  <1>4. LimitHistoryChains' /\ gaps' \subseteq Members
    BY <1>1, <1>2, <1>3 DEF IInv, TypeOK, LimitHistoryChains
  <1>5. /\ creditLimit' \in [Members -> CreditLimits]
        /\ \A n \in Members : creditLimit'[n] = creditLimit[n] \/ n = m
    BY <1>1, <1>2 DEF IInv, TypeOK
  <1>6. MembershipMoves(c) /\ OpensInTurn(c, "idle")
    BY <1>1 DEF MembershipMoves, OpensInTurn, Open
  <1>7. Grows /\ Busy(c, "limit")
    BY <1>1, <1>2 DEF Grows, IInv, TypeOK, Busy
  <1>. QED  BY <1>1, <1>4, <1>5, <1>6, <1>7, EndPreserves DEF IInv, TypeOK

LEMMA StoreOnboardingPreserves ==
  ASSUME IInv, NEW c \in Clients, StoreOnboarding(c)  PROVE IInv'
  <1>1. /\ pc[c] = "submitting" /\ Active(c) /\ Goto(c, "idle")
        /\ UNCHANGED <<user, member, limit, creditLimit, waived, contested, gaps, raced>>
    BY DEF StoreOnboarding, history, Active
  <1>2. academy' \in [Academies -> Reviews]
    BY DEF StoreOnboarding, IInv, TypeOK, Reviews
  <1>3. MembershipMoves(c) /\ OpensInTurn(c, "idle")
    BY <1>1 DEF MembershipMoves, OpensInTurn, Open
  <1>4. Grows /\ LimitHistoryChains'
    BY <1>1 DEF Grows, IInv, TypeOK, LimitHistoryChains
  <1>. QED  BY <1>1, <1>2, <1>3, <1>4, EndPreserves DEF IInv, TypeOK

LEMMA FailPreserves ==
  ASSUME IInv, NEW c \in Clients, Fail(c)  PROVE IInv'
  BY GiveUpPreserves DEF Fail, Active

(* Statements of an administrator, between those of the requests. *)
LEMMA ReviewAcademyPreserves ==
  ASSUME IInv, NEW a \in Academies, NEW to \in Reviews, ReviewAcademy(a, to)  PROVE IInv'
  <1>1. /\ academy' = [academy EXCEPT ![a] = to] /\ begun < MaxRequests /\ begun' = begun + 1
        /\ UNCHANGED <<user, member, limit, creditLimit, pc, req, waived, contested, gaps, raced>>
    BY DEF ReviewAcademy, history
  <1>2. begun' \in 0 .. MaxRequests /\ academy' \in [Academies -> Reviews]
    BY <1>1, MembershipAssumption DEF IInv, TypeOK
  <1>3. TypeOK'
    BY <1>1, <1>2 DEF IInv, TypeOK
  <1>4. RequestsFit' /\ LimitHistoryChains' /\ LimitsInTurn'
    BY <1>1 DEF IInv, RequestsFit, Fits, LimitHistoryChains, LimitsInTurn, Busy, Active
  <1>5. WithinLimit' /\ JoinsInTurn'
    BY <1>1 DEF IInv, WithinLimit, JoinsInTurn, Joining, Busy, Open
  <1>6. DecisionsInTurn'
    BY <1>1 DEF IInv, DecisionsInTurn, Decides, Busy, Active, Same
  <1>. QED  BY <1>3, <1>4, <1>5, <1>6 DEF IInv

(* A new limit: whoever is beyond it, or may get there, is on record. *)
LEMMA UpdateSettingsPreserves ==
  ASSUME IInv, NEW l \in Limits, UpdateSettings(l)  PROVE IInv'
  <1>1. /\ limit' = l /\ begun < MaxRequests /\ begun' = begun + 1
        /\ waived' = waived \cup {m \in Members : \/ l > 0 /\ Cardinality(Open(m)) > l
                                                  \/ \E c \in Clients : Busy(c, "request")
                                                                        /\ req[c].m = m}
        /\ UNCHANGED <<academy, user, member, creditLimit, pc, req, contested, gaps, raced>>
    BY DEF UpdateSettings
  <1>2. begun' \in 0 .. MaxRequests
    BY <1>1, MembershipAssumption DEF IInv, TypeOK
  <1>3. TypeOK'
    BY <1>1, <1>2 DEF IInv, TypeOK
  <1>4. RequestsFit' /\ LimitHistoryChains' /\ LimitsInTurn'
    BY <1>1 DEF IInv, RequestsFit, Fits, LimitHistoryChains, LimitsInTurn, Busy, Active
  <1>5. \A m : Open(m)' = Open(m)
    BY <1>1 DEF Open
  <1>6. WithinLimit'
    <2>1. ASSUME NEW m \in Members, m \notin waived'  PROVE l <= 0 \/ Cardinality(Open(m)) <= l
      <3>1. ~ (l > 0 /\ Cardinality(Open(m)) > l)
        BY <1>1, <2>1
      <3>. QED  BY <3>1, OpenIsFinite, MembershipAssumption
    <2>. QED  BY <1>1, <1>5, <2>1 DEF WithinLimit
  <1>7. JoinsInTurn'
    <2>1. ASSUME NEW d \in Clients, Joining(d), req[d].m \notin waived'
          PROVE  ~ Busy(d, "request") /\ req[d].m \notin waived
      BY <1>1, <2>1 DEF Joining, Busy, IInv, RequestsFit, Fits, Active, Requests
    <2>. QED  BY <1>1, <2>1 DEF IInv, JoinsInTurn, Joining, Busy
  <1>8. DecisionsInTurn'
    BY <1>1 DEF IInv, DecisionsInTurn, Decides, Busy, Active, Same
  <1>. QED  BY <1>3, <1>4, <1>6, <1>7, <1>8 DEF IInv

-----------------------------------------------------------------------------
LEMMA BeginPreserves ==
  ASSUME IInv, NEW c \in Clients, Begin(c)  PROVE IInv'
  BY RequestMembershipPreserves, WithdrawMembershipPreserves, EnrollMemberPreserves,
     SubmitOwnerOnboardingPreserves, UpdateMembershipStatusPreserves, UpdateStatusPreserves,
     SetTeacherCreditLimitPreserves
     DEF Begin

LEMMA ProceedPreserves ==
  ASSUME IInv, NEW c \in Clients, Proceed(c)  PROVE IInv'
  BY CountOpenPreserves, FindMembershipPreserves, StoreRequestPreserves,
     StoreWithdrawalPreserves, StoreDecisionPreserves, LinkToOwnerAcademyPreserves,
     StoreStatusPreserves, SpreadStatusPreserves, ReadOldLimitPreserves,
     CommitLimitPreserves, StoreOnboardingPreserves
     DEF Proceed

LEMMA NextPreserves == IInv /\ [Next]_vars => IInv'
  <1>. SUFFICES ASSUME IInv, [Next]_vars  PROVE IInv'
    OBVIOUS
  <1>1. ASSUME NEW c \in Clients, Begin(c) \/ Proceed(c) \/ Fail(c)  PROVE IInv'
    BY <1>1, BeginPreserves, ProceedPreserves, FailPreserves
  <1>2. ASSUME NEW a \in Academies, NEW to \in Reviews, ReviewAcademy(a, to)  PROVE IInv'
    BY <1>2, ReviewAcademyPreserves
  <1>3. ASSUME NEW l \in Limits, UpdateSettings(l)  PROVE IInv'
    BY <1>3, UpdateSettingsPreserves
  <1>4. CASE UNCHANGED vars
    <2>1. UNCHANGED <<academy, user, member, limit, creditLimit, pc, req, begun,
                      waived, contested, gaps, raced>>
      BY <1>4 DEF vars, tables, history
    <2>2. TypeOK' /\ RequestsFit' /\ LimitHistoryChains' /\ LimitsInTurn'
      BY <2>1 DEF IInv, TypeOK, RequestsFit, Fits, LimitHistoryChains, LimitsInTurn, Busy, Active
    <2>3. WithinLimit' /\ JoinsInTurn'
      BY <2>1 DEF IInv, WithinLimit, JoinsInTurn, Joining, Busy, Open
    <2>4. DecisionsInTurn'
      BY <2>1 DEF IInv, DecisionsInTurn, Decides, Busy, Active, Same
    <2>. QED  BY <2>2, <2>3, <2>4 DEF IInv
  <1>. QED  BY <1>1, <1>2, <1>3, <1>4 DEF Next

(* AcademiesService, UsersService: the inductive invariant. *)
THEOREM Invariance == Spec => []IInv
  BY InitIInv, NextPreserves, PTL DEF Spec

(* The tables and the requests hold what they should. *)
THEOREM Typed == Spec => []TypeOK
  <1>1. IInv => TypeOK
    BY DEF IInv
  <1>. QED  BY <1>1, Invariance, PTL

(* enforceMembershipLimit: the count that is not taken with the write is     *)
(* enough for everybody who asks for one membership at a time.              *)
THEOREM Limited == Spec => []WithinLimit
  <1>1. IInv => WithinLimit
    BY DEF IInv
  <1>. QED  BY <1>1, Invariance, PTL

(* setTeacherCreditLimit: the rows of the history follow on one another.    *)
THEOREM Chained == Spec => []LimitHistoryChains
  <1>1. IInv => LimitHistoryChains
    BY DEF IInv
  <1>. QED  BY <1>1, Invariance, PTL

-----------------------------------------------------------------------------
(* Who has left or was rejected comes back by what he asks for himself, or   *)
(* by an update of his status: a decision that could let him in was taken on *)
(* the request he made, which is pending still.                             *)
LEMMA StoreDecisionLeavesForGood ==
  ASSUME IInv, NEW c \in Clients, StoreDecision(c)  PROVE LeavesForGood
  <1>1. Busy(c, "decide")
    BY DEF StoreDecision, Busy
  <1>2. /\ <<req[c].m, req[c].a>> \notin contested /\ req[c].to = "APPROVED"
        /\ Same(member[req[c].m][req[c].a], req[c].row)
        => member[req[c].m][req[c].a].status = "PENDING"
    BY <1>1 DEF IInv, DecisionsInTurn
  <1>. QED  BY <1>2, StoreDecisionWrites DEF LeavesForGood

LEMMA NextLeavesForGood == IInv /\ [Next]_vars => [LeavesForGood]_vars
  <1>. SUFFICES ASSUME IInv, Next  PROVE LeavesForGood
    BY DEF vars, tables
  <1>1. CASE UNCHANGED member
    BY <1>1 DEF LeavesForGood
  <1>2. ASSUME NEW c \in Clients, SpreadStatus(c)  PROVE LeavesForGood
    <2>1. pc[c] = "spreading" /\ pc'[c] = "idle"
      BY <1>2 DEF SpreadStatus, Goto, IInv, TypeOK
    <2>. QED  BY <2>1 DEF LeavesForGood
  <1>3. ASSUME NEW c \in Clients,
               StoreRequest(c) \/ StoreWithdrawal(c) \/ LinkToOwnerAcademy(c)
        PROVE  LeavesForGood
    <2>1. \A n \in Members, b \in Academies :
            \/ member'[n][b] = member[n][b]
            \/ member'[n][b] = NoRow
            \/ member'[n][b].status # "APPROVED"
      BY <1>3, StoreRequestWrites, StoreWithdrawalWrites, LinkToOwnerAcademyWrites
    <2>. QED  BY <2>1 DEF LeavesForGood
  <1>4. ASSUME NEW c \in Clients, Begin(c)  PROVE UNCHANGED member
    <2>1. ASSUME NEW m \in Members, NEW a \in Academies,
                 \/ RequestMembership(c, m, a) \/ WithdrawMembership(c, m, a)
                 \/ EnrollMember(c, m, a) \/ SubmitOwnerOnboarding(c, m, a)
          PROVE  UNCHANGED member
      BY <2>1 DEF tables, RequestMembership, WithdrawMembership, EnrollMember,
                  SubmitOwnerOnboarding
    <2>2. ASSUME NEW m \in Members, NEW a \in Academies, NEW to \in Statuses,
                 UpdateMembershipStatus(c, m, a, to)
          PROVE  UNCHANGED member
      BY <2>2 DEF tables, UpdateMembershipStatus
    <2>3. ASSUME NEW m \in Members, NEW a \in Academies, NEW to \in Reviews,
                 UpdateStatus(c, m, a, to)
          PROVE  UNCHANGED member
      BY <2>3 DEF tables, UpdateStatus
    <2>4. ASSUME NEW m \in Members, NEW a \in Academies, NEW to \in CreditLimits,
                 SetTeacherCreditLimit(c, m, a, to)
          PROVE  UNCHANGED member
      BY <2>4 DEF tables, SetTeacherCreditLimit
    <2>. QED  BY <1>4, <2>1, <2>2, <2>3, <2>4 DEF Begin
  <1>5. ASSUME NEW c \in Clients,
               \/ CountOpen(c) \/ FindMembership(c) \/ StoreStatus(c) \/ ReadOldLimit(c)
               \/ CommitLimit(c) \/ StoreOnboarding(c) \/ Fail(c)
        PROVE  UNCHANGED member
    BY <1>5 DEF tables, CountOpen, FindMembership, StoreStatus, ReadOldLimit, CommitLimit,
                StoreOnboarding, Fail
  <1>6. ASSUME NEW a \in Academies, NEW to \in Reviews, ReviewAcademy(a, to)
        PROVE  UNCHANGED member
    BY <1>6 DEF ReviewAcademy
  <1>7. ASSUME NEW l \in Limits, UpdateSettings(l)  PROVE UNCHANGED member
    BY <1>7 DEF UpdateSettings
  <1>8. ASSUME NEW c \in Clients, Begin(c) \/ Proceed(c) \/ Fail(c)  PROVE LeavesForGood
    BY <1>1, <1>2, <1>3, <1>4, <1>5, <1>8, StoreDecisionLeavesForGood DEF Proceed
  <1>. QED  BY <1>1, <1>6, <1>7, <1>8 DEF Next

(* updateMembershipStatus, withdrawMembership: no late decision brings back  *)
(* who has left.                                                            *)
THEOREM NoWayBack == Spec => ReentryNeedsRequest
  <1>1. IInv /\ [Next]_vars => [LeavesForGood]_vars
    BY NextLeavesForGood
  <1>. QED  BY <1>1, Invariance, PTL DEF Spec, ReentryNeedsRequest
=============================================================================
