------------------------------ MODULE Accounts ------------------------------
(***************************************************************************)
(* The User table: UsersService.create with what it provisions for an      *)
(* academy owner, update, remove, and the super admin made at start-up.    *)
(*                                                                         *)
(* The account of an owner is three writes - user, academy, welcome        *)
(* credits - and a compensation: an error in the second or third deletes   *)
(* the first.  Nothing spans them, so other requests see the account half  *)
(* made, may complete it (the owner's own endpoints make a missing         *)
(* academy), change it or remove it; a removal cascades.  Accounts are     *)
(* named by their e-mail address; a row made anew has another id (`born`). *)
(***************************************************************************)
EXTENDS Integers, FiniteSets

CONSTANTS
  Emails,
  BootEmail,       \* SUPER_ADMIN_EMAIL
  Clients,         \* requests (and starting servers) that run concurrently
  InitialCredits,  \* academyOwnerInitialFreeCredits
  MaxRequests,     \* bound: requests begun in a behavior
  NoRow, NoRequest

ASSUME AccountsAssumption ==
  /\ IsFiniteSet(Emails) /\ BootEmail \in Emails
  /\ InitialCredits \in Nat /\ MaxRequests \in Nat

Roles == {"SUPER_ADMIN", "ACADEMY_OWNER", "MEMBER"}  \* MEMBER: teacher or student
Rows == [role : Roles, made : Roles, born : Nat]     \* made: the role it was created with

ASSUME NoRowAssumption == NoRow \notin Rows

VARIABLES
  user,      \* the User table
  academy,   \* e-mail addresses whose user owns an academy
  granted,   \* welcome credits each user has been granted
  pc, req,   \* each client's position and request
  begun,     \* requests begun so far (bounds the model, dates rows)
  faulted,   \* history: accounts whose creation or compensation was cut short
  rivals     \* history: a second super admin came from a race or from start-up

tables == <<user, academy, granted>>
history == <<faulted, rivals>>
vars == <<tables, pc, req, begun, history>>

Requests == [op : {"create", "update", "remove", "heal", "boot"}, e : Emails, role : Roles,
             row : Rows \cup {NoRow}]   \* the row it has read or made

ASSUME NoRequestAssumption == NoRequest \notin Requests

SuperAdmins == {e \in Emails : user[e] # NoRow /\ user[e].role = "SUPER_ADMIN"}
Same(e, row) == user[e] # NoRow /\ row # NoRow /\ user[e].born = row.born

-----------------------------------------------------------------------------
(* The accounts there are when the behavior begins are complete.           *)
Init ==
  /\ user \in [Emails -> {[role |-> r, made |-> r, born |-> 0] : r \in Roles} \cup {NoRow}]
  /\ Cardinality(SuperAdmins) <= 1
  /\ academy = {e \in Emails : user[e] # NoRow /\ user[e].role = "ACADEMY_OWNER"}
  /\ granted = [e \in Emails |-> IF e \in academy THEN InitialCredits ELSE 0]
  /\ pc = [c \in Clients |-> "idle"]
  /\ req = [c \in Clients |-> NoRequest]
  /\ begun = 0
  /\ faulted = {} /\ rivals = FALSE

Accept(c, r, step) ==
  /\ pc[c] = "idle" /\ begun < MaxRequests
  /\ begun' = begun + 1
  /\ pc' = [pc EXCEPT ![c] = step]
  /\ req' = [req EXCEPT ![c] = r]

Goto(c, step) ==
  /\ pc' = [pc EXCEPT ![c] = step]
  /\ req' = IF step = "idle" THEN [req EXCEPT ![c] = NoRequest] ELSE req
  /\ UNCHANGED begun

(* A request on its way to make a super admin. *)
Crowning(c) == /\ pc[c] \in {"counting", "inserting", "booting"}
               /\ req[c].role = "SUPER_ADMIN"
Rival(c) == rivals \/ \E d \in Clients \ {c} : Crowning(d)

-----------------------------------------------------------------------------
(* create, behind register, createAdmin, createTeacher and createStudent.  *)
(* The address must be free ...                                            *)
Create(c, e, role) ==
  /\ user[e] = NoRow
  /\ Accept(c, [op |-> "create", e |-> e, role |-> role, row |-> NoRow],
            IF role = "SUPER_ADMIN" THEN "counting" ELSE "inserting")
  /\ rivals' = IF role = "SUPER_ADMIN" THEN Rival(c) ELSE rivals
  /\ UNCHANGED <<tables, faulted>>

(* Mutation: the count is not looked at. *)
CountSuperAdmins_ignored(c) ==
  /\ pc[c] = "counting"
  /\ Goto(c, "inserting")
  /\ UNCHANGED <<tables, history>>
(* ... and a super admin must be the only one.                             *)
CountSuperAdmins(c) ==
  /\ pc[c] = "counting"
  /\ Goto(c, IF SuperAdmins = {} THEN "inserting" ELSE "idle")
  /\ UNCHANGED <<tables, history>>

(* The unique key on the address decides between two that found it free.    *)
InsertUser(c) ==
  LET e == req[c].e  role == req[c].role
      row == [role |-> role, made |-> role, born |-> begun] IN
  /\ pc[c] = "inserting"
  /\ IF user[e] = NoRow
     THEN /\ user' = [user EXCEPT ![e] = row]
          /\ IF role = "ACADEMY_OWNER"
             THEN /\ pc' = [pc EXCEPT ![c] = "provisioning"]
                  /\ req' = [req EXCEPT ![c].row = row]
                  /\ UNCHANGED begun
             ELSE Goto(c, "idle")
     ELSE Goto(c, "idle") /\ UNCHANGED user
  /\ UNCHANGED <<academy, granted, history>>

(* ensureAcademyForOwner: an academy found is kept, a missing one is made   *)
(* in a later transaction, which the unique ownerId or a removed user fails. *)
FindAcademy(c) ==
  /\ pc[c] = "provisioning"
  /\ Goto(c, CASE req[c].e \notin academy -> "founding"
               [] req[c].e \in academy /\ req[c].op = "create" -> "grantcheck"
               [] OTHER -> "idle")
  /\ UNCHANGED <<tables, history>>

FoundAcademy(c) ==
  LET e == req[c].e IN
  /\ pc[c] = "founding"
  /\ IF e \notin academy /\ Same(e, req[c].row)
     THEN /\ academy' = academy \cup {e}
          /\ Goto(c, IF req[c].op = "create" THEN "grantcheck" ELSE "idle")
     ELSE /\ UNCHANGED academy
          /\ Goto(c, IF req[c].op = "create" THEN "undoing" ELSE "idle")
  /\ UNCHANGED <<user, granted, history>>

(* grantInitialAcademyOwnerCredits: one grant per user, if any is configured. *)
FindGrant(c) ==
  /\ pc[c] = "grantcheck"
  /\ Goto(c, IF InitialCredits = 0 \/ granted[req[c].e] > 0 THEN "idle" ELSE "granting")
  /\ UNCHANGED <<tables, history>>

Grant(c) ==
  LET e == req[c].e IN
  /\ pc[c] = "granting"
  /\ IF Same(e, req[c].row)
     THEN granted' = [granted EXCEPT ![e] = @ + InitialCredits] /\ Goto(c, "idle")
     ELSE UNCHANGED granted /\ Goto(c, "undoing")
  /\ UNCHANGED <<user, academy, history>>

(* Mutation: an error leaves the user there. *)
ProvisionError_kept(c) ==
  /\ pc[c] \in {"provisioning", "founding", "grantcheck", "granting"}
  /\ req[c].op = "create"
  /\ Goto(c, "idle")
  /\ UNCHANGED <<tables, history>>
(* Any error of these steps (no free slug, a deadlock, the database) is     *)
(* answered by deleting the user.                                          *)
ProvisionError(c) ==
  /\ pc[c] \in {"provisioning", "founding", "grantcheck", "granting"}
  /\ req[c].op = "create"
  /\ Goto(c, "undoing")
  /\ UNCHANGED <<tables, history>>

(* DELETE of a user, with the rows that cascade. *)
DeleteUser(e) ==
  /\ user' = [user EXCEPT ![e] = NoRow]
  /\ academy' = academy \ {e}
  /\ granted' = [granted EXCEPT ![e] = 0]

UndoUser(c) ==
  /\ pc[c] = "undoing"
  /\ IF Same(req[c].e, req[c].row) THEN DeleteUser(req[c].e) ELSE UNCHANGED tables
  /\ Goto(c, "idle")
  /\ UNCHANGED history

-----------------------------------------------------------------------------
(* getAcademyForOwner and submitOwnerOnboarding make an academy that is     *)
(* missing; the onboarding of an existing one is in AcademyMembership.      *)
GetAcademyForOwner(c, e) ==
  /\ user[e] # NoRow /\ user[e].role = "ACADEMY_OWNER" /\ e \notin academy
  /\ Accept(c, [op |-> "heal", e |-> e, role |-> "ACADEMY_OWNER", row |-> user[e]],
            "provisioning")
  /\ UNCHANGED <<tables, history>>

Promotes(old, role) == role = "SUPER_ADMIN" /\ old # "SUPER_ADMIN"

(* update writes the role it was given, or back the role it read.          *)
Update(c, e, role) ==
  /\ user[e] # NoRow /\ ~ Promotes(user[e].role, role)
  /\ Accept(c, [op |-> "update", e |-> e, role |-> role, row |-> user[e]], "writing")
  /\ UNCHANGED <<tables, history>>

StoreUpdate(c) ==
  LET e == req[c].e  role == req[c].role IN
  /\ pc[c] = "writing" /\ req[c].op = "update"
  /\ user' = IF Same(e, req[c].row) THEN [user EXCEPT ![e].role = role] ELSE user
  /\ rivals' = (rivals \/ /\ role = "SUPER_ADMIN" /\ req[c].row.role = "SUPER_ADMIN"
                          /\ \/ e \notin SuperAdmins
                             \/ \E d \in Clients : Crowning(d))
  /\ Goto(c, "idle")
  /\ UNCHANGED <<academy, granted, faulted>>

Remove(c, e) ==
  /\ user[e] # NoRow
  /\ Accept(c, [op |-> "remove", e |-> e, role |-> user[e].role, row |-> user[e]], "writing")
  /\ UNCHANGED <<tables, history>>

StoreRemoval(c) ==
  /\ pc[c] = "writing" /\ req[c].op = "remove"
  /\ IF Same(req[c].e, req[c].row) THEN DeleteUser(req[c].e) ELSE UNCHANGED tables
  /\ Goto(c, "idle")
  /\ UNCHANGED history

(* A server starts: the configured super admin is made, or made one again. *)
Bootstrap(c) ==
  /\ Accept(c, [op |-> "boot", e |-> BootEmail, role |-> "SUPER_ADMIN",
                row |-> user[BootEmail]], "booting")
  /\ rivals' = Rival(c)
  /\ UNCHANGED <<tables, faulted>>

(* An account read as a super admin's is written, too, if it was inactive or *)
(* not approved then: this takes back a demotion since.                     *)
EnsureSuperAdmin(c) ==
  LET e == BootEmail  old == req[c].row IN
  /\ pc[c] = "booting"
  /\ \/ /\ old = NoRow /\ user[e] = NoRow
        /\ user' = [user EXCEPT ![e] = [role |-> "SUPER_ADMIN", made |-> "SUPER_ADMIN",
                                       born |-> begun]]
     \/ Same(e, old) /\ user' = [user EXCEPT ![e].role = "SUPER_ADMIN"]
     \/ /\ IF Same(e, old) THEN old.role = "SUPER_ADMIN" ELSE old # NoRow \/ user[e] # NoRow
        /\ UNCHANGED user
  /\ rivals' = (rivals \/ SuperAdmins \ {e} # {} \/ \E d \in Clients \ {c} : Crowning(d))
  /\ Goto(c, "idle")
  /\ UNCHANGED <<academy, granted, faulted>>

(* A crash, or an error of a statement whose error nothing compensates.     *)
Fail(c) ==
  /\ pc[c] # "idle"
  /\ faulted' = IF req[c].op = "create" /\ req[c].row # NoRow
                THEN faulted \cup {req[c].e} ELSE faulted
  /\ Goto(c, "idle")
  /\ UNCHANGED <<tables, rivals>>

-----------------------------------------------------------------------------
Begin(c) ==
  \/ \E e \in Emails, role \in Roles : Create(c, e, role) \/ Update(c, e, role)
  \/ \E e \in Emails : GetAcademyForOwner(c, e) \/ Remove(c, e)
  \/ Bootstrap(c)

Proceed(c) ==
  \/ CountSuperAdmins(c) \/ InsertUser(c) \/ FindAcademy(c) \/ FoundAcademy(c)
  \/ FindGrant(c) \/ Grant(c) \/ UndoUser(c)
  \/ StoreUpdate(c) \/ StoreRemoval(c) \/ EnsureSuperAdmin(c)

Next == \E c \in Clients : Begin(c) \/ Proceed(c) \/ ProvisionError(c) \/ Fail(c)

Spec == Init /\ [][Next]_vars

-----------------------------------------------------------------------------
(* What the tables and the requests in progress hold. *)
TypeOK ==
  /\ user \in [Emails -> Rows \cup {NoRow}]
  /\ academy \subseteq Emails
  /\ granted \in [Emails -> Nat]
  /\ pc \in [Clients -> {"idle", "counting", "inserting", "provisioning", "founding",
                         "grantcheck", "granting", "undoing", "writing", "booting"}]
  /\ req \in [Clients -> Requests \cup {NoRequest}]
  /\ begun \in 0 .. MaxRequests
  /\ faulted \subseteq Emails
  /\ rivals \in BOOLEAN

Creating(e) == \E c \in Clients : /\ req[c] # NoRequest /\ req[c].op = "create"
                                  /\ req[c].e = e /\ Same(e, req[c].row)

(* An account that was created for an academy owner and is nobody's work in *)
(* progress has its academy and its welcome credits, exactly once; or a     *)
(* crash cut its creation or its compensation short.  Errors, a race for    *)
(* the academy with the owner's own requests, removals and re-registrations *)
(* of the address leave it whole or gone.                                  *)
OwnersAreProvisioned ==
  \A e \in Emails \ faulted :
    /\ user[e] # NoRow /\ user[e].made = "ACADEMY_OWNER" /\ ~ Creating(e)
    => e \in academy /\ granted[e] = InitialCredits

(* There is at most one super admin, unless two were made at the same time, *)
(* a stale update restored one, or a server started with another configured. *)
OneSuperAdmin == rivals \/ Cardinality(SuperAdmins) <= 1
=============================================================================
