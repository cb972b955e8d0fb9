----------------------------- MODULE AuthSessions -----------------------------
(***************************************************************************)
(* Sessions and one-time codes: AuthService, with the decisions of an      *)
(* administrator on the account.                                           *)
(*                                                                         *)
(* login and refresh check an account they have read and insert a refresh  *)
(* token some statements later; a password change or reset, a verification *)
(* and a logout delete every token of the user in between.  The password   *)
(* is its version: pw[u] counts the changes.  Time is the expiry of a      *)
(* token or a code, which may come at any moment.  A JWT is valid while    *)
(* the account is active and approved (JwtStrategy.validate).              *)
(***************************************************************************)
EXTENDS Integers, FiniteSets

CONSTANTS
  Users,
  Owners,        \* the users verification approves (SUPER_ADMIN, ACADEMY_OWNER)
  Clients,       \* requests the servers run concurrently
  MaxRequests,   \* bound: requests begun in a behavior
  NoCode, NoRequest

ASSUME SessionsAssumption == Owners \subseteq Users /\ MaxRequests \in Nat

Statuses == {"PENDING", "APPROVED", "REJECTED"}
Tokens == [id : Nat, user : Users, expired : BOOLEAN,
           pw : Nat,          \* history: the password its first login was checked with
           late : BOOLEAN]    \* history: issued by a request a password change overtook
Codes == [id : Nat, used : BOOLEAN, expired : BOOLEAN]

ASSUME NoCodeAssumption == NoCode \notin Codes

VARIABLES
  status, active,  \* of each user
  pw,              \* version of each user's password
  sessions,        \* the RefreshToken table
  reset,           \* the PasswordResetToken rows of each user
  verify,          \* the EmailVerificationToken row of each user
  pc, req,         \* each client's position and request
  begun,           \* requests begun so far (bounds the model)
  issued,          \* tokens and codes made so far (names them)
  heirs,           \* history: tokens exchanged for a new one
  twice            \* history: a token was exchanged a second time

account == <<status, active, pw>>
codes == <<reset, verify>>
history == <<heirs, twice>>
vars == <<account, sessions, codes, pc, req, begun, issued, history>>

Ops == {"login", "refresh", "change", "forgot", "reset", "resend", "verify"}
Requests == [op : Ops, user : Users,
             token : Nat,            \* the row read: a refresh token or a code, or 0
             pw : Nat, late : BOOLEAN]

ASSUME NoRequestAssumption == NoRequest \notin Requests

Approved(u) == active[u] /\ status[u] = "APPROVED"
Session(u) == {t \in sessions : t.user = u}

-----------------------------------------------------------------------------
(* Accounts as registered, verified or in use, with a session or none.      *)
Init ==
  /\ status \in [Users -> {"PENDING", "APPROVED"}]
  /\ active \in [Users -> BOOLEAN]
  /\ pw = [u \in Users |-> 1]
  /\ sessions \in {{}} \cup {{[id |-> 0, user |-> u, expired |-> FALSE, pw |-> 1,
                              late |-> FALSE]} : u \in {v \in Users : Approved(v)}}
  /\ reset = [u \in Users |-> {}]
  /\ verify = [u \in Users |-> [id |-> 0, used |-> active[u], expired |-> FALSE]]
  /\ pc = [c \in Clients |-> "idle"]
  /\ req = [c \in Clients |-> NoRequest]
  /\ begun = 0 /\ issued = 0
  /\ heirs = {} /\ twice = FALSE

Accept(c, op, u, token, version, late, step) ==
  /\ pc[c] = "idle" /\ begun < MaxRequests
  /\ begun' = begun + 1
  /\ pc' = [pc EXCEPT ![c] = step]
  /\ req' = [req EXCEPT ![c] = [op |-> op, user |-> u, token |-> token,
                                pw |-> version, late |-> late]]
  /\ UNCHANGED <<account, sessions, codes, issued, history>>

Goto(c, step) ==
  /\ pc' = [pc EXCEPT ![c] = step]
  /\ req' = IF step = "idle" THEN [req EXCEPT ![c] = NoRequest] ELSE req
  /\ UNCHANGED begun

Name(n) == issued' = issued + n

-----------------------------------------------------------------------------
(* login: the user and his password hash are read once and compared.       *)
Login(c, u) == Approved(u) /\ Accept(c, "login", u, 0, pw[u], FALSE, "purging")

(* refresh reads the token with its user; one that may not go on is deleted. *)
Refresh(c, t) ==
  /\ t \in sessions
  /\ Accept(c, "refresh", t.user, t.id, t.pw, t.late,
            IF t.expired \/ ~ Approved(t.user) THEN "refusing" ELSE "rotating")

Held(c) == {t \in sessions : t.user = req[c].user /\ t.id = req[c].token}

(* Mutation: a token that is gone is nothing to complain about. *)
InvalidateToken_deleteMany(c) ==
  /\ pc[c] \in {"refusing", "rotating"}
  /\ sessions' = sessions \ Held(c)
  /\ Goto(c, IF pc[c] = "rotating" THEN "purging" ELSE "idle")
  /\ UNCHANGED <<account, codes, issued, history>>
(* invalidateToken: the DELETE by id fails if the row is gone.             *)
InvalidateToken(c) ==
  /\ pc[c] \in {"refusing", "rotating"}
  /\ sessions' = sessions \ Held(c)
  /\ Goto(c, IF pc[c] = "rotating" /\ Held(c) # {} THEN "purging" ELSE "idle")
  /\ UNCHANGED <<account, codes, issued, history>>

(* createRefreshToken: the user's expired tokens go, a new one comes.      *)
PurgeExpired(c) ==
  /\ pc[c] = "purging"
  /\ sessions' = {t \in sessions : t.user = req[c].user => ~ t.expired}
  /\ Goto(c, "issuing")
  /\ UNCHANGED <<account, codes, issued, history>>

IssueToken(c) ==
  LET r == req[c] IN
  /\ pc[c] = "issuing"
  /\ sessions' = sessions \cup {[id |-> issued + 1, user |-> r.user, expired |-> FALSE,
                                 pw |-> r.pw, late |-> r.late]}
  /\ Name(1)
  /\ heirs' = IF r.op = "refresh" THEN heirs \cup {r.token} ELSE heirs
  /\ twice' = (twice \/ (r.op = "refresh" /\ r.token \in heirs))
  /\ Goto(c, "idle")
  /\ UNCHANGED <<account, codes>>

(* logout: one token, or all of the user's, in one statement.              *)
Logout(c, u, t) ==
  /\ pc[c] = "idle" /\ begun < MaxRequests /\ Approved(u)
  /\ begun' = begun + 1
  /\ sessions' = sessions \ (IF t \in Session(u) THEN {t} ELSE Session(u))
  /\ UNCHANGED <<account, codes, pc, req, issued, history>>

-----------------------------------------------------------------------------
(* changePassword and resetPassword end in one transaction: the password,   *)
(* the code and the tokens of the user.  Requests in progress are overtaken. *)
ChangePassword(c, u) == Approved(u) /\ Accept(c, "change", u, 0, pw[u], FALSE, "hashing")

ResetPassword(c, u, code) ==
  /\ code \in reset[u] /\ ~ code.used
  /\ Accept(c, "reset", u, code.id, pw[u], FALSE,
            IF code.expired THEN "expiring" ELSE "hashing")

Spend(c) == {[k EXCEPT !.used = (@ \/ k.id = req[c].token)] : k \in reset[req[c].user]}
CodeThere(c) == \E k \in reset[req[c].user] : k.id = req[c].token

(* Mutation: sessions are kept. *)
CommitPassword_keepsSessions(c) ==
  LET u == req[c].user IN
  /\ pc[c] = "hashing"
  /\ IF req[c].op = "change" \/ CodeThere(c)
     THEN /\ pw' = [pw EXCEPT ![u] = @ + 1]
          /\ reset' = IF req[c].op = "reset" THEN [reset EXCEPT ![u] = Spend(c)] ELSE reset
          /\ req' = [d \in Clients |->
                       IF d = c THEN NoRequest
                       ELSE IF req[d] # NoRequest /\ req[d].user = u
                            THEN [req[d] EXCEPT !.late = TRUE] ELSE req[d]]
          /\ pc' = [pc EXCEPT ![c] = "idle"]
          /\ UNCHANGED begun
     ELSE Goto(c, "idle") /\ UNCHANGED <<pw, reset>>
  /\ UNCHANGED <<status, active, verify, sessions, issued, history>>
CommitPassword(c) ==
  LET u == req[c].user IN
  /\ pc[c] = "hashing"
  /\ IF req[c].op = "change" \/ CodeThere(c)
     THEN /\ pw' = [pw EXCEPT ![u] = @ + 1]
          /\ reset' = IF req[c].op = "reset" THEN [reset EXCEPT ![u] = Spend(c)] ELSE reset
          /\ sessions' = sessions \ Session(u)
          /\ req' = [d \in Clients |->
                       IF d = c THEN NoRequest
                       ELSE IF req[d] # NoRequest /\ req[d].user = u
                            THEN [req[d] EXCEPT !.late = TRUE] ELSE req[d]]
          /\ pc' = [pc EXCEPT ![c] = "idle"]
          /\ UNCHANGED begun
     ELSE Goto(c, "idle") /\ UNCHANGED <<pw, reset, sessions>>
  /\ UNCHANGED <<status, active, verify, issued, history>>

(* A code found expired is marked used.                                    *)
ExpireCode(c) ==
  /\ pc[c] = "expiring"
  /\ reset' = [reset EXCEPT ![req[c].user] = Spend(c)]
  /\ Goto(c, "idle")
  /\ UNCHANGED <<account, sessions, verify, issued, history>>

(* forgotPassword: the user's codes go, and then a new one comes.          *)
ForgotPassword(c, u) == active[u] /\ Accept(c, "forgot", u, 0, pw[u], FALSE, "clearing")

ClearCodes(c) ==
  LET u == req[c].user IN
  /\ pc[c] = "clearing"
  /\ IF req[c].op = "forgot"
     THEN reset' = [reset EXCEPT ![u] = {}] /\ UNCHANGED verify
     ELSE verify' = [verify EXCEPT ![u] = NoCode] /\ UNCHANGED reset
  /\ Goto(c, "sending")
  /\ UNCHANGED <<account, sessions, issued, history>>

(* The row of a verification code is unique to the user: a second INSERT fails. *)
SendCode(c) ==
  LET u == req[c].user
      code == [id |-> issued + 1, used |-> FALSE, expired |-> FALSE] IN
  /\ pc[c] = "sending"
  /\ IF req[c].op = "forgot"
     THEN reset' = [reset EXCEPT ![u] = @ \cup {code}] /\ UNCHANGED verify
     ELSE /\ verify' = IF verify[u] = NoCode THEN [verify EXCEPT ![u] = code] ELSE verify
          /\ UNCHANGED reset
  /\ Name(1)
  /\ Goto(c, "idle")
  /\ UNCHANGED <<account, sessions, history>>

-----------------------------------------------------------------------------
(* resendRegistrationOtp, with a code that is missing or older than the     *)
(* resend window: the old row is deleted (a failure if it is gone), and     *)
(* createEmailVerificationToken - also the end of register - goes on.       *)
ResendRegistrationOtp(c, u) ==
  /\ ~ active[u]
  /\ Accept(c, "resend", u, 0, pw[u], FALSE,
            IF verify[u] = NoCode THEN "clearing" ELSE "replacing")

ReplaceCode(c) ==
  LET u == req[c].user IN
  /\ pc[c] = "replacing"
  /\ verify' = [verify EXCEPT ![u] = NoCode]
  /\ Goto(c, IF verify[u] = NoCode THEN "idle" ELSE "clearing")
  /\ UNCHANGED <<account, sessions, reset, issued, history>>

VerifyRegistrationOtp(c, u) ==
  /\ verify[u] # NoCode /\ ~ verify[u].used
  /\ Accept(c, "verify", u, verify[u].id, pw[u], FALSE,
            IF verify[u].expired THEN "dropping" ELSE "activating")

DropCode(c) ==
  /\ pc[c] = "dropping"
  /\ verify' = [verify EXCEPT ![req[c].user] = NoCode]
  /\ Goto(c, "idle")
  /\ UNCHANGED <<account, sessions, reset, issued, history>>

(* One transaction, which fails if the user has no code by now; a newer     *)
(* code than the one that was compared is used up in its place.            *)
Activate(c) ==
  LET u == req[c].user IN
  /\ pc[c] = "activating"
  /\ IF verify[u] # NoCode
     THEN /\ active' = [active EXCEPT ![u] = TRUE]
          /\ status' = IF u \in Owners THEN [status EXCEPT ![u] = "APPROVED"] ELSE status
          /\ verify' = [verify EXCEPT ![u].used = TRUE]
          /\ sessions' = sessions \ Session(u)
     ELSE UNCHANGED <<active, status, verify, sessions>>
  /\ Goto(c, "idle")
  /\ UNCHANGED <<pw, reset, issued, history>>

-----------------------------------------------------------------------------
(* updateStatus by an administrator: sessions stay until they are used.     *)
UpdateStatus(u, to) ==
  /\ begun < MaxRequests /\ begun' = begun + 1
  /\ status' = [status EXCEPT ![u] = to]
  /\ active' = [active EXCEPT ![u] = CASE to = "APPROVED" -> TRUE
                                       [] to = "REJECTED" -> FALSE
                                       [] OTHER -> @]
  /\ UNCHANGED <<pw, sessions, codes, pc, req, issued, history>>

Expire ==
  /\ \/ \E t \in sessions : /\ ~ t.expired
                            /\ sessions' = (sessions \ {t}) \cup {[t EXCEPT !.expired = TRUE]}
                            /\ UNCHANGED codes
     \/ \E u \in Users : \E k \in reset[u] :
          /\ ~ k.expired
          /\ reset' = [reset EXCEPT ![u] = (@ \ {k}) \cup {[k EXCEPT !.expired = TRUE]}]
          /\ UNCHANGED <<sessions, verify>>
     \/ \E u \in Users : /\ verify[u] # NoCode /\ ~ verify[u].expired
                         /\ verify' = [verify EXCEPT ![u].expired = TRUE]
                         /\ UNCHANGED <<sessions, reset>>
  /\ UNCHANGED <<account, pc, req, begun, issued, history>>

Fail(c) ==
  /\ pc[c] # "idle" /\ Goto(c, "idle")
  /\ UNCHANGED <<account, sessions, codes, issued, history>>

-----------------------------------------------------------------------------
Begin(c) ==
  \/ \E t \in sessions : Refresh(c, t)
  \/ \E u \in Users :
       \/ Login(c, u) \/ ChangePassword(c, u) \/ ForgotPassword(c, u)
       \/ ResendRegistrationOtp(c, u) \/ VerifyRegistrationOtp(c, u)
       \/ \E t \in Session(u) \cup {NoCode} : Logout(c, u, t)
       \/ \E code \in reset[u] : ResetPassword(c, u, code)

Proceed(c) ==
  \/ InvalidateToken(c) \/ PurgeExpired(c) \/ IssueToken(c)
  \/ CommitPassword(c) \/ ExpireCode(c) \/ ClearCodes(c) \/ SendCode(c)
  \/ ReplaceCode(c) \/ DropCode(c) \/ Activate(c)

Next ==
  \/ \E c \in Clients : Begin(c) \/ Proceed(c) \/ Fail(c)
  \/ \E u \in Users, to \in Statuses : UpdateStatus(u, to)
  \/ Expire

Spec == Init /\ [][Next]_vars

-----------------------------------------------------------------------------
(* What the tables and the requests in progress hold. *)
TypeOK ==
  /\ status \in [Users -> Statuses] /\ active \in [Users -> BOOLEAN]
  /\ pw \in [Users -> Nat]
  /\ sessions \subseteq Tokens
  /\ reset \in [Users -> SUBSET Codes]
  /\ verify \in [Users -> Codes \cup {NoCode}]
  /\ pc \in [Clients -> {"idle", "refusing", "rotating", "purging", "issuing", "hashing",
                         "expiring", "clearing", "sending", "replacing", "dropping",
                         "activating"}]
  /\ req \in [Clients -> Requests \cup {NoRequest}]
  /\ begun \in 0 .. MaxRequests
  /\ issued \in Nat /\ heirs \subseteq Nat /\ twice \in BOOLEAN

(* A refresh token is exchanged once: of several requests that present it   *)
(* at the same time and find it valid, one gets a new token.                *)
RotatedOnce == ~ twice

(* After a password change or reset the sessions that are left, or made      *)
(* later, were opened with the new password - along any chain of refreshes - *)
(* except what a login or refresh issues that was already checked when the   *)
(* change was committed.                                                    *)
SessionsFollowPassword == \A t \in sessions : t.pw = pw[t.user] \/ t.late
=============================================================================
