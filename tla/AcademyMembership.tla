-------------------------- MODULE AcademyMembership --------------------------
(***************************************************************************)
(* Who belongs to which academy: AcademiesService, the status updates of   *)
(* UsersService that reach memberships, the platform setting that limits   *)
(* them, and the credit limit an owner sets for a teacher.                 *)
(*                                                                         *)
(* Every handler reads, checks and then writes a row by its id in a later  *)
(* statement, without a transaction.  A row that was deleted and made      *)
(* again has another id (`born`): an UPDATE or DELETE of the old id fails. *)
(* An academy is identified with its owner (ownerId is unique).  What a    *)
(* membership says of the member's role is the role of the user.           *)
(***************************************************************************)
EXTENDS Integers, FiniteSets

CONSTANTS
  Academies,
  Members,       \* teachers and students
  Clients,       \* requests the servers run concurrently
  Limits,        \* values of maxAcademiesPerTeacher / -Student
  CreditLimits,  \* values an owner may give teacherLimit
  MaxRequests,   \* bound: requests begun in a behavior
  NoRow, NoRequest

ASSUME MembershipAssumption ==
  /\ IsFiniteSet(Academies)
  /\ Limits \subseteq Int /\ CreditLimits # {}
  /\ MaxRequests \in Nat

Reviews == {"PENDING", "APPROVED", "REJECTED"}      \* AcademyStatus, UserStatus
Statuses == Reviews \cup {"REVOKED"}                \* AcademyMembershipStatus
Rows == [status : Statuses, born : Nat]

ASSUME NoRowAssumption == NoRow \notin Rows /\ NoRow \notin Reviews

VARIABLES
  academy,      \* the status of each academy
  user,         \* the status of each member, NoRow before the account exists
  member,       \* the AcademyMembership table
  limit,        \* the platform setting in force
  creditLimit,  \* teacherLimit of each member
  pc, req,      \* each client's position and request
  begun,        \* requests begun so far (bounds the model, dates rows)
  waived,       \* history: members whose memberships were opened uncounted
  contested,    \* history: memberships with two decisions in progress at a time
  gaps,         \* history: members with a limit change that records another old limit
  raced         \* history: members with two limit changes in progress at a time

tables == <<academy, user, member, limit, creditLimit>>
history == <<waived, contested, gaps, raced>>
vars == <<tables, pc, req, begun, history>>

Ops == {"request", "withdraw", "decide", "enroll", "status", "limit", "onboard"}
Requests ==
  [op : Ops, m : Members, a : Academies,
   to : Statuses \cup CreditLimits,                \* what the request asks for
   row : Rows \cup {NoRow},                        \* the membership it has read
   old : Reviews \cup CreditLimits \cup {NoRow}]   \* the status or limit it has read

Open(m) == {a \in Academies : /\ member[m][a] # NoRow
                              /\ member[m][a].status \in {"PENDING", "APPROVED"}}
Busy(c, op) == pc[c] # "idle" /\ req[c].op = op

-----------------------------------------------------------------------------
(* Any database a quiet moment may leave: rows made before the behavior      *)
(* began are `born` at 0, within the limit in force.                        *)
Init ==
  /\ academy \in [Academies -> Reviews]
  /\ user \in [Members -> {"PENDING", "APPROVED", NoRow}]
  /\ limit \in Limits
  /\ member \in [Members -> [Academies -> [status : Statuses \ {"REJECTED"}, born : {0}]
                                     \cup {NoRow}]]
  /\ \A m \in Members : /\ limit <= 0 \/ Cardinality(Open(m)) <= limit
                        /\ user[m] = NoRow => \A a \in Academies : member[m][a] = NoRow
  /\ \E l \in CreditLimits : creditLimit = [m \in Members |-> l]
  /\ pc = [c \in Clients |-> "idle"]
  /\ req = [c \in Clients |-> NoRequest]
  /\ begun = 0
  /\ waived = {} /\ contested = {} /\ gaps = {} /\ raced = {}

Accept(c, r, step) ==
  /\ pc[c] = "idle" /\ begun < MaxRequests
  /\ begun' = begun + 1
  /\ pc' = [pc EXCEPT ![c] = step]
  /\ req' = [req EXCEPT ![c] = r]

Goto(c, step) ==
  /\ pc' = [pc EXCEPT ![c] = step]
  /\ req' = IF step = "idle" THEN [req EXCEPT ![c] = NoRequest] ELSE req
  /\ UNCHANGED begun

Others(c, op, m) == {d \in Clients \ {c} : Busy(d, op) /\ req[d].m = m}

(* The row a request read is still there, under the same id.               *)
Same(row, old) == row # NoRow /\ old # NoRow /\ row.born = old.born

-----------------------------------------------------------------------------
(* requestMembership: the user and the academy, the setting and the count  *)
(* of open memberships, the membership, and the write, each a statement.   *)
RequestMembership(c, m, a) ==
  /\ user[m] = "APPROVED" /\ academy[a] = "APPROVED"
  /\ Accept(c, [op |-> "request", m |-> m, a |-> a, to |-> "PENDING",
                row |-> NoRow, old |-> NoRow], "counting")
  /\ waived' = IF Others(c, "request", m) \cup Others(c, "enroll", m) # {}
               THEN waived \cup {m} ELSE waived
  /\ UNCHANGED <<tables, contested, gaps, raced>>

(* Mutation: one membership more than the limit passes. *)
EnforceMembershipLimit_offByOne(m) == limit <= 0 \/ Cardinality(Open(m)) <= limit
EnforceMembershipLimit(m) == limit <= 0 \/ Cardinality(Open(m)) < limit

CountOpen(c) ==
  /\ pc[c] = "counting"
  /\ Goto(c, IF EnforceMembershipLimit(req[c].m) THEN "finding" ELSE "idle")
  /\ UNCHANGED <<tables, history>>

FindMembership(c) ==
  /\ pc[c] = "finding"
  /\ LET row == member[req[c].m][req[c].a] IN
       IF row # NoRow /\ row.status \in {"APPROVED", "PENDING"}
       THEN Goto(c, "idle")
       ELSE /\ pc' = [pc EXCEPT ![c] = "writing"]
            /\ req' = [req EXCEPT ![c].row = row]
            /\ UNCHANGED begun
  /\ UNCHANGED <<tables, history>>

(* A new row (the unique key refuses a second one), or the old row reopened. *)
StoreRequest(c) ==
  LET m == req[c].m  a == req[c].a  row == member[m][a] IN
  /\ pc[c] = "writing" /\ req[c].op = "request"
  /\ member' = CASE req[c].row = NoRow /\ row = NoRow ->
                      [member EXCEPT ![m][a] = [status |-> "PENDING", born |-> begun]]
                 [] Same(row, req[c].row) ->
                      [member EXCEPT ![m][a].status = "PENDING"]
                 [] OTHER -> member
  /\ Goto(c, "idle")
  /\ UNCHANGED <<academy, user, limit, creditLimit, history>>

-----------------------------------------------------------------------------
Contest(c, m, a) ==
  IF \E d \in Clients \ {c} : /\ pc[d] # "idle" /\ req[d].m = m
                              /\ req[d].a = a \/ req[d].op = "status"
                              /\ req[d].op \in {"decide", "withdraw", "request", "status"}
  THEN contested \cup {<<m, a>>} ELSE contested

WithdrawMembership(c, m, a) ==
  /\ a \in Open(m)
  /\ Accept(c, [op |-> "withdraw", m |-> m, a |-> a, to |-> "REVOKED",
                row |-> member[m][a], old |-> NoRow], "writing")
  /\ contested' = Contest(c, m, a)
  /\ UNCHANGED <<tables, waived, gaps, raced>>

(* Mutation: a withdrawn request is kept, with a status of its own. *)
StoreWithdrawal_cancelled(c) ==
  LET m == req[c].m  a == req[c].a IN
  /\ pc[c] = "writing" /\ req[c].op = "withdraw"
  /\ member' = IF Same(member[m][a], req[c].row)
               THEN [member EXCEPT ![m][a] =
                       [@ EXCEPT !.status = "CANCELLED"]]
               ELSE member
  /\ Goto(c, "idle")
  /\ UNCHANGED <<academy, user, limit, creditLimit, history>>
(* What an approved member leaves is REVOKED, a pending request is deleted: *)
(* whichever it was when it was read.                                      *)
StoreWithdrawal(c) ==
  LET m == req[c].m  a == req[c].a IN
  /\ pc[c] = "writing" /\ req[c].op = "withdraw"
  /\ member' = IF Same(member[m][a], req[c].row)
               THEN [member EXCEPT ![m][a] =
                       IF req[c].row.status = "APPROVED"
                       THEN [@ EXCEPT !.status = "REVOKED"] ELSE NoRow]
               ELSE member
  /\ Goto(c, "idle")
  /\ UNCHANGED <<academy, user, limit, creditLimit, history>>

(* Mutation: a request that was rejected or revoked can be approved. *)
Decidable_any(to, status) == status # to
(* APPROVE and REJECT a pending request, REVOKE an approved membership.     *)
Decidable(to, status) ==
  \/ to \in {"APPROVED", "REJECTED"} /\ status = "PENDING"
  \/ to = "REVOKED" /\ status = "APPROVED"

UpdateMembershipStatus(c, m, a, to) ==
  /\ member[m][a] # NoRow /\ academy[a] = "APPROVED"
  /\ Decidable(to, member[m][a].status)
  /\ Accept(c, [op |-> "decide", m |-> m, a |-> a, to |-> to,
                row |-> member[m][a], old |-> NoRow], "writing")
  /\ contested' = Contest(c, m, a)
  /\ UNCHANGED <<tables, waived, gaps, raced>>

StoreDecision(c) ==
  LET m == req[c].m  a == req[c].a IN
  /\ pc[c] = "writing" /\ req[c].op = "decide"
  /\ member' = IF Same(member[m][a], req[c].row)
               THEN [member EXCEPT ![m][a].status = req[c].to] ELSE member
  /\ waived' = IF req[c].to = "APPROVED" /\ a \notin Open(m)
               THEN waived \cup {m} ELSE waived
  /\ Goto(c, "idle")
  /\ UNCHANGED <<academy, user, limit, creditLimit, contested, gaps, raced>>

-----------------------------------------------------------------------------
(* createTeacher and createStudent by an owner: the account, then a         *)
(* membership in the owner's academy that no limit is checked for.          *)
EnrollMember(c, m, a) ==
  /\ user[m] = NoRow
  /\ user' = [user EXCEPT ![m] = "PENDING"]
  /\ Accept(c, [op |-> "enroll", m |-> m, a |-> a, to |-> "PENDING",
                row |-> NoRow, old |-> NoRow], "linking")
  /\ UNCHANGED <<academy, member, limit, creditLimit, history>>

LinkToOwnerAcademy(c) ==
  LET m == req[c].m  a == req[c].a IN
  /\ pc[c] = "linking"
  /\ member' = IF member[m][a] = NoRow
               THEN [member EXCEPT ![m][a] = [status |-> "PENDING", born |-> begun]]
               ELSE member
  /\ waived' = IF Open(m) # {} THEN waived \cup {m} ELSE waived
  /\ Goto(c, "idle")
  /\ UNCHANGED <<academy, user, limit, creditLimit, contested, gaps, raced>>

(* updateStatus by an administrator, or by an owner the user has any kind   *)
(* of membership with: the user's row, and then all his memberships.        *)
UpdateStatus(c, m, a, to) ==
  /\ user[m] # NoRow
  /\ Accept(c, [op |-> "status", m |-> m, a |-> a, to |-> to,
                row |-> NoRow, old |-> user[m]], "deciding")
  /\ contested' = IF Others(c, "decide", m) \cup Others(c, "withdraw", m) # {}
                  THEN contested \cup ({m} \X Academies) ELSE contested
  /\ UNCHANGED <<tables, waived, gaps, raced>>

StoreStatus(c) ==
  /\ pc[c] = "deciding"
  /\ user' = [user EXCEPT ![req[c].m] = req[c].to]
  /\ Goto(c, "spreading")
  /\ UNCHANGED <<academy, member, limit, creditLimit, history>>

SpreadStatus(c) ==
  LET m == req[c].m IN
  /\ pc[c] = "spreading"
  /\ member' = [member EXCEPT ![m] = [a \in Academies |->
                  IF @[a] = NoRow THEN NoRow ELSE [@[a] EXCEPT !.status = req[c].to]]]
  /\ waived' = IF req[c].to # "REJECTED" THEN waived \cup {m} ELSE waived
  /\ Goto(c, "idle")
  /\ UNCHANGED <<academy, user, limit, creditLimit, contested, gaps, raced>>

-----------------------------------------------------------------------------
(* setTeacherCreditLimit: the checks, the old limit, and a transaction that *)
(* writes the new one with a history row.                                  *)
SetTeacherCreditLimit(c, m, a, to) ==
  /\ member[m][a] # NoRow /\ member[m][a].status = "APPROVED"
  /\ Accept(c, [op |-> "limit", m |-> m, a |-> a, to |-> to,
                row |-> NoRow, old |-> NoRow], "reading")
  /\ raced' = IF Others(c, "limit", m) # {} THEN raced \cup {m} ELSE raced
  /\ UNCHANGED <<tables, waived, contested, gaps>>

(* Mutation: the limit is read from the request. *)
ReadOldLimit_new(c) ==
  /\ pc[c] = "reading"
  /\ pc' = [pc EXCEPT ![c] = "limiting"]
  /\ req' = [req EXCEPT ![c].old = req[c].to]
  /\ UNCHANGED <<tables, begun, history>>
ReadOldLimit(c) ==
  /\ pc[c] = "reading"
  /\ pc' = [pc EXCEPT ![c] = "limiting"]
  /\ req' = [req EXCEPT ![c].old = creditLimit[req[c].m]]
  /\ UNCHANGED <<tables, begun, history>>

CommitLimit(c) ==
  LET m == req[c].m IN
  /\ pc[c] = "limiting"
  /\ gaps' = IF req[c].old # creditLimit[m] THEN gaps \cup {m} ELSE gaps
  /\ creditLimit' = [creditLimit EXCEPT ![m] = req[c].to]
  /\ Goto(c, "idle")
  /\ UNCHANGED <<academy, user, member, limit, waived, contested, raced>>

-----------------------------------------------------------------------------
(* reviewAcademy decides on an academy in any state; submitOwnerOnboarding  *)
(* sends one it has read as not approved back to PENDING.                   *)
ReviewAcademy(a, to) ==
  /\ to # "PENDING" /\ begun < MaxRequests
  /\ academy' = [academy EXCEPT ![a] = to]
  /\ begun' = begun + 1
  /\ UNCHANGED <<user, member, limit, creditLimit, pc, req, history>>

SubmitOwnerOnboarding(c, m, a) ==
  /\ Accept(c, [op |-> "onboard", m |-> m, a |-> a, to |-> "PENDING",
                row |-> NoRow, old |-> academy[a]], "submitting")
  /\ UNCHANGED <<tables, history>>

StoreOnboarding(c) ==
  /\ pc[c] = "submitting"
  /\ academy' = IF req[c].old # "APPROVED"
                THEN [academy EXCEPT ![req[c].a] = "PENDING"] ELSE academy
  /\ Goto(c, "idle")
  /\ UNCHANGED <<user, member, limit, creditLimit, history>>

(* updateSettings: a new limit removes nobody who is beyond it.             *)
UpdateSettings(l) ==
  /\ begun < MaxRequests /\ begun' = begun + 1
  /\ limit' = l
  /\ waived' = waived \cup {m \in Members : \/ l > 0 /\ Cardinality(Open(m)) > l
                                            \/ \E c \in Clients : Busy(c, "request")
                                                                  /\ req[c].m = m}
  /\ UNCHANGED <<academy, user, member, creditLimit, pc, req, contested, gaps, raced>>

(* An error or a crash between two statements.                             *)
Fail(c) == pc[c] # "idle" /\ Goto(c, "idle") /\ UNCHANGED <<tables, history>>

-----------------------------------------------------------------------------
Begin(c) ==
  \E m \in Members, a \in Academies :
    \/ RequestMembership(c, m, a) \/ WithdrawMembership(c, m, a)
    \/ EnrollMember(c, m, a) \/ SubmitOwnerOnboarding(c, m, a)
    \/ \E to \in Statuses : UpdateMembershipStatus(c, m, a, to)
    \/ \E to \in Reviews : UpdateStatus(c, m, a, to)
    \/ \E to \in CreditLimits : SetTeacherCreditLimit(c, m, a, to)

Proceed(c) ==
  \/ CountOpen(c) \/ FindMembership(c) \/ StoreRequest(c)
  \/ StoreWithdrawal(c) \/ StoreDecision(c) \/ LinkToOwnerAcademy(c)
  \/ StoreStatus(c) \/ SpreadStatus(c)
  \/ ReadOldLimit(c) \/ CommitLimit(c) \/ StoreOnboarding(c)

Next ==
  \/ \E c \in Clients : Begin(c) \/ Proceed(c) \/ Fail(c)
  \/ \E a \in Academies, to \in Reviews : ReviewAcademy(a, to)
  \/ \E l \in Limits : UpdateSettings(l)

Spec == Init /\ [][Next]_vars

-----------------------------------------------------------------------------
(* What the tables and the requests in progress hold. *)
TypeOK ==
  /\ academy \in [Academies -> Reviews]
  /\ user \in [Members -> Reviews \cup {NoRow}]
  /\ member \in [Members -> [Academies -> Rows \cup {NoRow}]]
  /\ limit \in Limits
  /\ creditLimit \in [Members -> CreditLimits]
  /\ pc \in [Clients -> {"idle", "counting", "finding", "writing", "linking", "deciding",
                         "spreading", "reading", "limiting", "submitting"}]
  /\ req \in [Clients -> Requests \cup {NoRequest}]
  /\ begun \in 0 .. MaxRequests
  /\ waived \subseteq Members /\ gaps \subseteq Members /\ raced \subseteq Members
  /\ contested \subseteq Members \X Academies

(* A member is in, or waiting for, at most as many academies as the setting *)
(* allows, whatever withdrawals, decisions and failures come between the    *)
(* count and the write: only two requests at a time, an owner's enrolment,  *)
(* an update of the user's status or a lowered setting take him beyond.     *)
WithinLimit ==
  \A m \in Members \ waived : limit <= 0 \/ Cardinality(Open(m)) <= limit

(* One who was rejected or has left becomes a member again only through a   *)
(* new request, or because updateStatus approves everything the user ever   *)
(* had; a decision on the old request never lets him back in, unless it was *)
(* taken while he was leaving or another decision was on its way.           *)
LeavesForGood ==
  \A m \in Members, a \in Academies :
    /\ <<m, a>> \notin contested
    /\ member[m][a] # NoRow /\ member[m][a].status \in {"REJECTED", "REVOKED"}
    => \/ member'[m][a] # NoRow => member'[m][a].status # "APPROVED"
       \/ \E c \in Clients : pc[c] = "spreading" /\ pc'[c] = "idle"
ReentryNeedsRequest == [][LeavesForGood]_vars

(* The history of a teacher's credit limit is a chain: each row starts from *)
(* the limit the row before it set, whatever else happens to the teacher    *)
(* and his membership, unless two changes overlapped.                       *)
LimitHistoryChains == gaps \subseteq raced
=============================================================================
