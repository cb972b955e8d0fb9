-------------------------- MODULE AuthSessionsProofs --------------------------
(* The safety of AuthSessions for every set of users and clients.           *)
EXTENDS AuthSessions, TLAPS

(* A client is idle exactly when it has no request. *)
RequestsHeld == \A c \in Clients : pc[c] = "idle" <=> req[c] = NoRequest

(* A token's id is never given twice: ids are at most `issued`, and those   *)
(* exchanged for a new token are in no row any more.                       *)
IdsAreUnique ==
  /\ \A s, t \in sessions : s.id = t.id => s = t
  /\ \A t \in sessions : t.id <= issued /\ t.id \notin heirs
  /\ \A n \in heirs : n <= issued

Refreshing(c) == req[c] # NoRequest /\ req[c].op = "refresh"
Rotated(c) == Refreshing(c) /\ pc[c] \in {"purging", "issuing"}

(* While a refresh has its token's id, the row of that id is its user's; and *)
(* from the DELETE that found the row on, the id is the request's alone: no  *)
(* row has it, it was not exchanged, and no other request deleted it too.    *)
Alone(c) ==
  /\ req[c].token \notin heirs
  /\ \A t \in sessions : t.id # req[c].token
  /\ \A d \in Clients \ {c} : Rotated(d) => req[d].token # req[c].token
RefreshesOwnTheirToken ==
  \A c \in Clients :
    /\ Refreshing(c) => /\ req[c].token <= issued
                        /\ \A t \in sessions : t.id = req[c].token => t.user = req[c].user
    /\ Rotated(c) => Alone(c)

(* What a request was checked with is the user's password, or a change has  *)
(* overtaken it.                                                            *)
RequestsFollowPassword ==
  \A c \in Clients : req[c] # NoRequest => req[c].pw = pw[req[c].user] \/ req[c].late

IInv == /\ TypeOK /\ RequestsHeld
        /\ RotatedOnce /\ IdsAreUnique /\ RefreshesOwnTheirToken
        /\ SessionsFollowPassword /\ RequestsFollowPassword

-----------------------------------------------------------------------------
LEMMA InitIInv == Init => IInv
  <1>. SUFFICES ASSUME Init  PROVE IInv
    OBVIOUS
  <1>1. sessions \subseteq Tokens /\ \A s, t \in sessions : s = t
    <2>1. CASE sessions = {}
      BY <2>1
    <2>2. ASSUME NEW u \in Users,
                 sessions = {[id |-> 0, user |-> u, expired |-> FALSE, pw |-> 1, late |-> FALSE]}
          PROVE  sessions \subseteq Tokens /\ \A s, t \in sessions : s = t
      BY <2>2 DEF Tokens
    <2>. QED  BY <2>1, <2>2 DEF Init
  <1>2. \A t \in sessions : t.id = 0 /\ t.pw = 1 /\ t.user \in Users
    BY DEF Init
  <1>3. verify \in [Users -> Codes]
    <2>1. \A u \in Users : [id |-> 0, used |-> active[u], expired |-> FALSE] \in Codes
      BY DEF Init, Codes
    <2>. QED  BY <2>1 DEF Init
  <1>4. TypeOK
    <2>1. /\ status \in [Users -> Statuses] /\ active \in [Users -> BOOLEAN]
          /\ pw \in [Users -> Nat] /\ reset \in [Users -> SUBSET Codes]
      BY DEF Init, Statuses
    <2>2. begun \in 0 .. MaxRequests /\ issued \in Nat
      BY SessionsAssumption DEF Init
    <2>3. heirs \subseteq Nat /\ twice \in BOOLEAN
      BY DEF Init
    <2>. QED  BY <1>1, <1>3, <2>1, <2>2, <2>3 DEF Init, TypeOK
  <1>5. RequestsHeld /\ RotatedOnce /\ RequestsFollowPassword /\ RefreshesOwnTheirToken
    BY DEF Init, RequestsHeld, RotatedOnce, RequestsFollowPassword, RefreshesOwnTheirToken,
           Refreshing, Rotated
  <1>6. IdsAreUnique /\ SessionsFollowPassword
    BY <1>1, <1>2 DEF Init, IdsAreUnique, SessionsFollowPassword
  <1>. QED  BY <1>4, <1>5, <1>6 DEF IInv

-----------------------------------------------------------------------------
(* A request that begins with the password as it is, or with a row's token  *)
(* and what that row was issued for.                                        *)
LEMMA AcceptPreserves ==
  ASSUME IInv, NEW c \in Clients, NEW op \in Ops, NEW u \in Users, NEW token \in Nat,
         NEW version \in Nat, NEW late \in BOOLEAN,
         NEW step \in {"refusing", "rotating", "purging", "hashing", "expiring", "clearing",
                       "replacing", "dropping", "activating"},
         Accept(c, op, u, token, version, late, step),
         version = pw[u] \/ late,
         op = "refresh" => /\ step \notin {"purging", "issuing"}
                           /\ token <= issued
                           /\ \A t \in sessions : t.id = token => t.user = u
  PROVE  IInv'
  <1>. DEFINE r == [op |-> op, user |-> u, token |-> token, pw |-> version, late |-> late]
  <1>1. /\ pc' = [pc EXCEPT ![c] = step] /\ req' = [req EXCEPT ![c] = r]
        /\ begun < MaxRequests /\ begun' = begun + 1
        /\ UNCHANGED <<status, active, pw, sessions, reset, verify, issued, heirs, twice>>
    BY DEF Accept, account, codes, history
  <1>2. r \in Requests /\ r # NoRequest
    BY NoRequestAssumption DEF Requests
  <1>3. TypeOK' /\ RequestsHeld'
    BY <1>1, <1>2, SessionsAssumption DEF IInv, TypeOK, RequestsHeld
  <1>4. RotatedOnce' /\ IdsAreUnique' /\ SessionsFollowPassword'
    BY <1>1 DEF IInv, RotatedOnce, IdsAreUnique, SessionsFollowPassword
  <1>5. /\ req'[c] = r /\ pc'[c] = step
        /\ \A d \in Clients \ {c} : req'[d] = req[d] /\ pc'[d] = pc[d]
    BY <1>1 DEF IInv, TypeOK
  <1>6. RequestsFollowPassword'
    BY <1>1, <1>5 DEF IInv, RequestsFollowPassword
  <1>7. ~ Rotated(c)' /\ \A d \in Clients \ {c} : Rotated(d)' <=> Rotated(d)
    BY <1>5 DEF Rotated, Refreshing
  <1>8. RefreshesOwnTheirToken'
    BY <1>1, <1>5, <1>7 DEF IInv, RefreshesOwnTheirToken, Alone, Refreshing
  <1>. QED  BY <1>3, <1>4, <1>6, <1>8 DEF IInv

Steps == {"idle", "refusing", "rotating", "purging", "issuing", "hashing", "expiring",
          "clearing", "sending", "replacing", "dropping", "activating"}

(* A later step of a request that adds no session: it may delete some, and  *)
(* it comes to issue a token only for a row that it deleted itself.         *)
LEMMA GotoPreserves ==
  ASSUME IInv, NEW c \in Clients, NEW step \in Steps,
         pc[c] # "idle", Goto(c, step),
         status' \in [Users -> Statuses], active' \in [Users -> BOOLEAN],
         reset' \in [Users -> SUBSET Codes], verify' \in [Users -> Codes \cup {NoCode}],
         sessions' \subseteq sessions,
         issued' \in Nat, issued' >= issued,
         UNCHANGED <<pw, heirs, twice>>,
         Refreshing(c) /\ step \in {"purging", "issuing"} =>
           \/ Rotated(c)
           \/ /\ req[c].token \notin heirs
              /\ \A t \in sessions' : t.id # req[c].token
              /\ \A d \in Clients \ {c} : Rotated(d) => req[d].token # req[c].token
  PROVE  IInv'
  <1>1. /\ pc' = [pc EXCEPT ![c] = step]
        /\ req' = IF step = "idle" THEN [req EXCEPT ![c] = NoRequest] ELSE req
        /\ begun' = begun
    BY DEF Goto
  <1>2. req[c] # NoRequest
    BY DEF IInv, RequestsHeld
  <1>3. TypeOK' /\ RequestsHeld'
    BY <1>1, <1>2 DEF IInv, TypeOK, RequestsHeld, Steps
  <1>4. RotatedOnce' /\ SessionsFollowPassword'
    BY DEF IInv, RotatedOnce, SessionsFollowPassword
  <1>5. IdsAreUnique'
    BY DEF IInv, TypeOK, Tokens, IdsAreUnique
  <1>6. /\ pc'[c] = step /\ (step # "idle" => req'[c] = req[c])
        /\ step = "idle" => req'[c] = NoRequest
        /\ \A d \in Clients \ {c} : req'[d] = req[d] /\ pc'[d] = pc[d]
    BY <1>1 DEF IInv, TypeOK
  <1>7. RequestsFollowPassword'
    BY <1>6 DEF IInv, RequestsFollowPassword
  <1>8. \A d \in Clients : Refreshing(d)' => Refreshing(d) /\ req'[d] = req[d]
    BY <1>6 DEF Refreshing
  <1>9. \A d \in Clients \ {c} : Rotated(d)' <=> Rotated(d)
    BY <1>6 DEF Rotated, Refreshing
  <1>10. Rotated(c)' => Refreshing(c) /\ step \in {"purging", "issuing"}
    BY <1>6, <1>8 DEF Rotated
  <1>11. ASSUME NEW d \in Clients, Refreshing(d)'
         PROVE  /\ req'[d].token <= issued'
                /\ \A t \in sessions' : t.id = req'[d].token => t.user = req'[d].user
    <2>1. req[d] \in Requests
      BY <1>8, <1>11 DEF IInv, TypeOK, Refreshing
    <2>2. req[d].token \in Nat /\ issued \in Nat
      BY <2>1 DEF IInv, TypeOK, Requests
    <2>. QED  BY <1>8, <1>11, <2>2 DEF IInv, RefreshesOwnTheirToken
  <1>12. ASSUME NEW d \in Clients, Rotated(d)'  PROVE Alone(d)'
    <2>0. Refreshing(d)' /\ req'[d] = req[d]
      BY <1>8, <1>12 DEF Rotated
    <2>1. CASE d = c
      <3>1. /\ req[c].token \notin heirs
            /\ \A t \in sessions' : t.id # req[c].token
            /\ \A e \in Clients \ {c} : Rotated(e) => req[e].token # req[c].token
        BY <1>10, <1>12, <2>1 DEF IInv, RefreshesOwnTheirToken, Alone
      <3>. QED  BY <1>6, <1>9, <2>0, <2>1, <3>1 DEF Alone
    <2>2. CASE d # c
      <3>1. Alone(d)
        BY <1>9, <1>12, <2>2 DEF IInv, RefreshesOwnTheirToken
      <3>2. Rotated(c)' => req'[c].token # req[d].token
        <4>1. SUFFICES ASSUME Rotated(c)'  PROVE req[c].token # req[d].token
          BY <1>8 DEF Rotated
        <4>2. Rotated(d)
          BY <1>9, <1>12, <2>2
        <4>. QED  BY <1>10, <2>2, <3>1, <4>1, <4>2 DEF Alone
      <3>. QED  BY <1>6, <1>9, <2>0, <2>2, <3>1, <3>2 DEF Alone
    <2>. QED  BY <2>1, <2>2
  <1>13. RefreshesOwnTheirToken'
    BY <1>11, <1>12 DEF RefreshesOwnTheirToken
  <1>. QED  BY <1>3, <1>4, <1>5, <1>7, <1>13 DEF IInv

LEMMA InvalidateTokenPreserves ==
  ASSUME IInv, NEW c \in Clients, InvalidateToken(c)  PROVE IInv'
  <1>. DEFINE step == IF pc[c] = "rotating" /\ Held(c) # {} THEN "purging" ELSE "idle"
  <1>1. /\ pc[c] # "idle" /\ Goto(c, step) /\ sessions' = sessions \ Held(c)
        /\ UNCHANGED <<status, active, pw, reset, verify, issued, heirs, twice>>
    BY DEF InvalidateToken, account, codes, history
  <1>2. ASSUME Refreshing(c), step = "purging"
        PROVE  /\ req[c].token \notin heirs
               /\ \A t \in sessions' : t.id # req[c].token
               /\ \A d \in Clients \ {c} : Rotated(d) => req[d].token # req[c].token
    <2>1. PICK t \in sessions : t.user = req[c].user /\ t.id = req[c].token
      BY <1>2 DEF Held
    <2>2. req[c].token \notin heirs
      BY <2>1 DEF IInv, IdsAreUnique
    <2>3. \A s \in sessions' : s.id # req[c].token
      BY <1>1, <2>1 DEF IInv, IdsAreUnique, Held
    <2>4. \A d \in Clients \ {c} : Rotated(d) => req[d].token # req[c].token
      BY <2>1 DEF IInv, RefreshesOwnTheirToken, Alone
    <2>. QED  BY <2>2, <2>3, <2>4
  <1>3. step \in Steps /\ step # "issuing"
    BY DEF Steps
  <1>4. /\ status' \in [Users -> Statuses] /\ active' \in [Users -> BOOLEAN]
        /\ reset' \in [Users -> SUBSET Codes] /\ verify' \in [Users -> Codes \cup {NoCode}]
        /\ issued' \in Nat /\ issued' >= issued /\ sessions' \subseteq sessions
    BY <1>1 DEF IInv, TypeOK
  <1>. HIDE DEF step
  <1>. QED  BY <1>1, <1>2, <1>3, <1>4, GotoPreserves

LEMMA PurgeExpiredPreserves ==
  ASSUME IInv, NEW c \in Clients, PurgeExpired(c)  PROVE IInv'
  <1>1. /\ pc[c] = "purging" /\ Goto(c, "issuing") /\ sessions' \subseteq sessions
        /\ UNCHANGED <<status, active, pw, reset, verify, issued, heirs, twice>>
    BY DEF PurgeExpired, account, codes, history
  <1>2. Refreshing(c) => Rotated(c)
    BY <1>1 DEF Rotated
  <1>. QED  BY <1>1, <1>2, GotoPreserves DEF IInv, TypeOK, Steps

(* The new token's id is larger than any there was; the one it is given for *)
(* is the request's alone, so this is its first exchange.                   *)
LEMMA IssueTokenPreserves ==
  ASSUME IInv, NEW c \in Clients, IssueToken(c)  PROVE IInv'
  <1>. DEFINE r == req[c]
              new == [id |-> issued + 1, user |-> r.user, expired |-> FALSE,
                      pw |-> r.pw, late |-> r.late]
              refresh == r.op = "refresh"
  <1>1. /\ pc[c] = "issuing" /\ sessions' = sessions \cup {new} /\ issued' = issued + 1
        /\ heirs' = IF refresh THEN heirs \cup {r.token} ELSE heirs
        /\ twice' = (twice \/ (refresh /\ r.token \in heirs))
        /\ pc' = [pc EXCEPT ![c] = "idle"] /\ req' = [req EXCEPT ![c] = NoRequest]
        /\ begun' = begun
        /\ UNCHANGED <<status, active, pw, reset, verify>>
    BY DEF IssueToken, Goto, Name, account, codes
  <1>2. r \in Requests /\ r # NoRequest
    BY <1>1 DEF IInv, TypeOK, RequestsHeld
  <1>3. refresh => Refreshing(c) /\ Rotated(c) /\ Alone(c) /\ r.token <= issued
    BY <1>1, <1>2 DEF IInv, RefreshesOwnTheirToken, Refreshing, Rotated
  <1>4. /\ new \in Tokens /\ issued \in Nat /\ new.id = issued + 1
        /\ new.user = r.user /\ new.pw = r.pw /\ new.late = r.late
    BY <1>2 DEF IInv, TypeOK, Tokens, Requests
  <1>. HIDE DEF new
  <1>5. RotatedOnce'
    BY <1>1, <1>3 DEF IInv, RotatedOnce, Alone
  <1>6. TypeOK' /\ RequestsHeld'
    <2>1. sessions' \subseteq Tokens /\ issued' \in Nat
      BY <1>1, <1>4 DEF IInv, TypeOK
    <2>2. heirs' \subseteq Nat /\ twice' \in BOOLEAN
      BY <1>1, <1>2, <1>5 DEF IInv, TypeOK, Requests, RotatedOnce
    <2>3. /\ pc' \in [Clients -> Steps] /\ req' \in [Clients -> Requests \cup {NoRequest}]
          /\ begun' \in 0 .. MaxRequests
      BY <1>1 DEF IInv, TypeOK, Steps
    <2>4. RequestsHeld'
      BY <1>1 DEF IInv, TypeOK, RequestsHeld
    <2>. QED  BY <1>1, <2>1, <2>2, <2>3, <2>4 DEF IInv, TypeOK, Steps
  <1>7. \A t \in sessions : t.id \in Nat /\ t.id <= issued
    BY DEF IInv, TypeOK, Tokens, IdsAreUnique
  <1>8. IdsAreUnique'
    <2>1. \A s, t \in sessions' : s.id = t.id => s = t
      BY <1>1, <1>4, <1>7 DEF IInv, IdsAreUnique
    <2>2. \A t \in sessions' : t.id <= issued'
      BY <1>1, <1>4, <1>7
    <2>3. \A n \in heirs' : n \in Nat /\ n <= issued
      BY <1>1, <1>2, <1>3 DEF IInv, TypeOK, IdsAreUnique, Requests
    <2>4. \A t \in sessions : t.id \notin heirs'
      BY <1>1, <1>3 DEF IInv, IdsAreUnique, Alone
    <2>5. new.id \notin heirs'
      BY <1>4, <2>3
    <2>. QED  BY <1>1, <1>4, <2>1, <2>2, <2>3, <2>4, <2>5 DEF IdsAreUnique
  <1>9. SessionsFollowPassword' /\ RequestsFollowPassword'
    BY <1>1, <1>2, <1>4 DEF IInv, TypeOK, SessionsFollowPassword, RequestsFollowPassword
  <1>10. /\ req'[c] = NoRequest /\ ~ Refreshing(c)'
         /\ \A d \in Clients \ {c} : req'[d] = req[d] /\ pc'[d] = pc[d]
    BY <1>1 DEF IInv, TypeOK, Refreshing
  <1>11. ASSUME NEW d \in Clients, Refreshing(d)'
         PROVE  /\ req'[d].token <= issued'
                /\ \A t \in sessions' : t.id = req'[d].token => t.user = req'[d].user
    <2>1. d # c /\ req'[d] = req[d] /\ Refreshing(d)
      BY <1>10, <1>11 DEF Refreshing
    <2>2. req[d].token \in Nat /\ req[d].token <= issued
      BY <2>1 DEF IInv, TypeOK, RefreshesOwnTheirToken, Refreshing, Requests
    <2>. QED  BY <1>1, <1>4, <2>1, <2>2 DEF IInv, RefreshesOwnTheirToken
  <1>12. ASSUME NEW d \in Clients, Rotated(d)'  PROVE Alone(d)'
    <2>1. d # c /\ req'[d] = req[d] /\ Rotated(d) /\ Alone(d)
      BY <1>10, <1>12 DEF Rotated, Refreshing, IInv, RefreshesOwnTheirToken
    <2>2. req[d].token \in Nat /\ req[d].token <= issued
      BY <2>1 DEF IInv, TypeOK, RefreshesOwnTheirToken, Rotated, Refreshing, Requests
    <2>3. req[d].token \notin heirs'
      BY <1>1, <1>3, <2>1 DEF Alone
    <2>4. \A t \in sessions' : t.id # req[d].token
      BY <1>1, <1>4, <2>1, <2>2 DEF Alone
    <2>5. \A e \in Clients \ {d} : Rotated(e)' => req'[e].token # req[d].token
      BY <1>10, <2>1 DEF Alone, Rotated, Refreshing
    <2>. QED  BY <2>1, <2>3, <2>4, <2>5 DEF Alone
  <1>13. RefreshesOwnTheirToken'
    BY <1>11, <1>12 DEF RefreshesOwnTheirToken
  <1>. QED  BY <1>5, <1>6, <1>8, <1>9, <1>13 DEF IInv

-----------------------------------------------------------------------------
(* Steps that leave the requests alone: each row that is left was there,    *)
(* with the same id, user and history.                                      *)
LEMMA TablesPreserve ==
  ASSUME IInv, sessions' \subseteq Tokens,
         \A s \in sessions' : \E t \in sessions :
           s.id = t.id /\ s.user = t.user /\ s.pw = t.pw /\ s.late = t.late,
         \A s, t \in sessions' : s.id = t.id => s = t,
         status' \in [Users -> Statuses], active' \in [Users -> BOOLEAN],
         reset' \in [Users -> SUBSET Codes], verify' \in [Users -> Codes \cup {NoCode}],
         begun' \in 0 .. MaxRequests,
         UNCHANGED <<pw, pc, req, issued, heirs, twice>>
  PROVE  IInv'
  <1>1. TypeOK' /\ RequestsHeld'
    BY DEF IInv, TypeOK, RequestsHeld
  <1>2. RotatedOnce' /\ IdsAreUnique' /\ SessionsFollowPassword' /\ RequestsFollowPassword'
    BY DEF IInv, RotatedOnce, IdsAreUnique, SessionsFollowPassword, RequestsFollowPassword
  <1>3. RefreshesOwnTheirToken'
    <2>1. \A d \in Clients : /\ Refreshing(d)' <=> Refreshing(d)
                             /\ Rotated(d)' <=> Rotated(d)
      BY DEF Refreshing, Rotated
    <2>2. \A d \in Clients : Alone(d) => Alone(d)'
      BY <2>1 DEF Alone
    <2>. QED  BY <2>1, <2>2 DEF IInv, RefreshesOwnTheirToken
  <1>. QED  BY <1>1, <1>2, <1>3 DEF IInv

LEMMA LogoutPreserves ==
  ASSUME IInv, NEW c \in Clients, NEW u \in Users, NEW t, Logout(c, u, t)  PROVE IInv'
  <1>1. /\ sessions' \subseteq sessions /\ begun' \in 0 .. MaxRequests
        /\ UNCHANGED <<status, active, pw, reset, verify, pc, req, issued, heirs, twice>>
    BY SessionsAssumption DEF Logout, account, codes, history, IInv, TypeOK
  <1>. QED  BY <1>1, TablesPreserve DEF IInv, TypeOK, IdsAreUnique

LEMMA UpdateStatusPreserves ==
  ASSUME IInv, NEW u \in Users, NEW to \in Statuses, UpdateStatus(u, to)  PROVE IInv'
  <1>1. /\ status' \in [Users -> Statuses] /\ begun' \in 0 .. MaxRequests
        /\ UNCHANGED <<sessions, pw, reset, verify, pc, req, issued, heirs, twice>>
    BY SessionsAssumption DEF UpdateStatus, codes, history, IInv, TypeOK
  <1>2. active' \in [Users -> BOOLEAN]
    BY DEF UpdateStatus, IInv, TypeOK
  <1>. QED  BY <1>1, <1>2, TablesPreserve DEF IInv, TypeOK, IdsAreUnique

LEMMA ExpirePreserves ==
  ASSUME IInv, Expire  PROVE IInv'
  <1>0. /\ UNCHANGED <<status, active, pw, pc, req, begun, issued, heirs, twice>>
        /\ status' \in [Users -> Statuses] /\ active' \in [Users -> BOOLEAN]
        /\ begun' \in 0 .. MaxRequests
    <2>1. UNCHANGED <<status, active, pw, pc, req, begun, issued, heirs, twice>>
      BY DEF Expire, account, history
    <2>. QED  BY <2>1 DEF IInv, TypeOK
  <1>01. /\ reset \in [Users -> SUBSET Codes] /\ verify \in [Users -> Codes \cup {NoCode}]
         /\ sessions \subseteq Tokens /\ \A s, q \in sessions : s.id = q.id => s = q
    BY DEF IInv, TypeOK, IdsAreUnique
  <1>1. ASSUME NEW t \in sessions,
               sessions' = (sessions \ {t}) \cup {[t EXCEPT !.expired = TRUE]},
               UNCHANGED codes
        PROVE  IInv'
    <2>. DEFINE new == [t EXCEPT !.expired = TRUE]
    <2>1. /\ new \in Tokens /\ new.id = t.id /\ new.user = t.user
          /\ new.pw = t.pw /\ new.late = t.late
      BY DEF IInv, TypeOK, Tokens
    <2>2. sessions' = (sessions \ {t}) \cup {new}
      BY <1>1
    <2>. HIDE DEF new
    <2>3. \A s \in sessions' : \E q \in sessions :
            s.id = q.id /\ s.user = q.user /\ s.pw = q.pw /\ s.late = q.late
      BY <2>1, <2>2
    <2>5. \A s \in sessions \ {t} : s.id # new.id
      BY <1>01, <2>1
    <2>6. \A s, q \in sessions' : s.id = q.id => s = q
      BY <1>01, <2>2, <2>5
    <2>7. sessions' \subseteq Tokens
      BY <1>01, <2>1, <2>2
    <2>. QED  BY <1>0, <1>01, <1>1, <2>3, <2>6, <2>7, TablesPreserve DEF codes
  <1>2. ASSUME NEW u \in Users, NEW k \in reset[u],
               reset' = [reset EXCEPT ![u] = (@ \ {k}) \cup {[k EXCEPT !.expired = TRUE]}],
               UNCHANGED <<sessions, verify>>
        PROVE  IInv'
    <2>0. k \in Codes
      BY DEF IInv, TypeOK
    <2>1. [k EXCEPT !.expired = TRUE] \in Codes
      BY <2>0 DEF Codes
    <2>2. reset' \in [Users -> SUBSET Codes]
      BY <1>2, <2>1 DEF IInv, TypeOK
    <2>. QED  BY <1>0, <1>01, <1>2, <2>2, TablesPreserve
  <1>3. ASSUME NEW u \in Users, verify[u] # NoCode,
               verify' = [verify EXCEPT ![u].expired = TRUE],
               UNCHANGED <<sessions, reset>>
        PROVE  IInv'
    <2>1. verify[u] \in Codes
      BY <1>01, <1>3
    <2>2. [verify[u] EXCEPT !.expired = TRUE] \in Codes
      BY <2>1 DEF Codes
    <2>3. verify' = [verify EXCEPT ![u] = [verify[u] EXCEPT !.expired = TRUE]]
      BY <1>01, <1>3
    <2>4. verify' \in [Users -> Codes \cup {NoCode}]
      BY <1>01, <2>2, <2>3
    <2>. QED  BY <1>0, <1>01, <1>3, <2>4, TablesPreserve
  <1>. QED  BY <1>1, <1>2, <1>3 DEF Expire

-----------------------------------------------------------------------------
(* A client at work has a request of its own. *)
LEMMA AtWork ==
  ASSUME IInv, NEW c \in Clients, pc[c] # "idle"
  PROVE  req[c] \in Requests /\ req[c] # NoRequest /\ req[c].user \in Users
  BY DEF IInv, TypeOK, RequestsHeld, Requests

LEMMA SpendsCodes ==
  ASSUME IInv, NEW c \in Clients, pc[c] # "idle"
  PROVE  Spend(c) \subseteq Codes
  <1>1. ASSUME NEW k \in reset[req[c].user]
        PROVE  [k EXCEPT !.used = (@ \/ k.id = req[c].token)] \in Codes
    <2>1. k \in Codes
      BY AtWork DEF IInv, TypeOK
    <2>. QED  BY <2>1 DEF Codes
  <1>. QED  BY <1>1 DEF Spend

(* The change of password: no session of the user is left, and each request *)
(* of his in progress is marked.                                           *)
LEMMA PasswordChangePreserves ==
  ASSUME IInv, NEW c \in Clients, CommitPassword(c), req[c].op = "change" \/ CodeThere(c)
  PROVE  IInv'
  <1>. DEFINE u == req[c].user
  <1>1. /\ pc[c] = "hashing" /\ pc' = [pc EXCEPT ![c] = "idle"]
        /\ pw' = [pw EXCEPT ![u] = @ + 1]
        /\ reset' = IF req[c].op = "reset" THEN [reset EXCEPT ![u] = Spend(c)] ELSE reset
        /\ sessions' = sessions \ Session(u)
        /\ req' = [d \in Clients |->
                     IF d = c THEN NoRequest
                     ELSE IF req[d] # NoRequest /\ req[d].user = u
                          THEN [req[d] EXCEPT !.late = TRUE] ELSE req[d]]
        /\ UNCHANGED <<status, active, verify, begun, issued, heirs, twice>>
    BY DEF CommitPassword, history
  <1>2. u \in Users
    BY <1>1, AtWork
  <1>3. ASSUME NEW d \in Clients \ {c}
        PROVE  /\ req'[d] \in Requests \cup {NoRequest}
               /\ req'[d] = NoRequest <=> req[d] = NoRequest
               /\ req[d] # NoRequest =>
                    /\ req'[d].op = req[d].op /\ req'[d].user = req[d].user
                    /\ req'[d].token = req[d].token /\ req'[d].pw = req[d].pw
                    /\ req'[d].late = (req[d].late \/ req[d].user = u)
    <2>1. CASE req[d] # NoRequest /\ req[d].user = u
      <3>1. req[d] \in Requests /\ req'[d] = [req[d] EXCEPT !.late = TRUE]
        BY <1>1, <2>1 DEF IInv, TypeOK
      <3>. QED  BY <2>1, <3>1, NoRequestAssumption DEF Requests
    <2>2. CASE ~ (req[d] # NoRequest /\ req[d].user = u)
      <3>1. req'[d] = req[d]
        BY <1>1, <2>2
      <3>2. req[d] # NoRequest => req[d].late \in BOOLEAN
        BY DEF IInv, TypeOK, Requests
      <3>. QED  BY <2>2, <3>1, <3>2 DEF IInv, TypeOK
    <2>. QED  BY <2>1, <2>2
  <1>4. req'[c] = NoRequest /\ pc'[c] = "idle" /\ \A d \in Clients \ {c} : pc'[d] = pc[d]
    BY <1>1 DEF IInv, TypeOK
  <1>5. TypeOK'
    <2>1. req' \in [Clients -> Requests \cup {NoRequest}]
      <3>1. \A d \in Clients : req'[d] \in Requests \cup {NoRequest}
        BY <1>3, <1>4
      <3>. QED  BY <1>1, <3>1
    <2>2. reset' \in [Users -> SUBSET Codes]
      BY <1>1, <1>2, SpendsCodes DEF IInv, TypeOK
    <2>3. pw' \in [Users -> Nat]
      BY <1>1, <1>2 DEF IInv, TypeOK
    <2>4. pc' \in [Clients -> Steps] /\ sessions' \subseteq Tokens
      BY <1>1 DEF IInv, TypeOK, Steps
    <2>. QED  BY <1>1, <2>1, <2>2, <2>3, <2>4 DEF IInv, TypeOK, Steps
  <1>6. RequestsHeld'
    BY <1>3, <1>4 DEF IInv, RequestsHeld
  <1>7. RotatedOnce' /\ IdsAreUnique'
    BY <1>1 DEF IInv, RotatedOnce, IdsAreUnique
  <1>8. SessionsFollowPassword'
    BY <1>1, <1>2 DEF IInv, TypeOK, Tokens, SessionsFollowPassword, Session
  <1>9. RequestsFollowPassword'
    <2>1. ASSUME NEW d \in Clients, req'[d] # NoRequest
          PROVE  req'[d].pw = pw'[req'[d].user] \/ req'[d].late
      <3>1. d # c /\ req[d] # NoRequest /\ req[d] \in Requests
        BY <1>3, <1>4, <2>1 DEF IInv, TypeOK
      <3>2. req[d].pw = pw[req[d].user] \/ req[d].late
        BY <3>1 DEF IInv, RequestsFollowPassword
      <3>3. req[d].user # u => pw'[req[d].user] = pw[req[d].user]
        BY <1>1, <3>1 DEF IInv, TypeOK, Requests
      <3>. QED  BY <1>3, <3>1, <3>2, <3>3
    <2>. QED  BY <2>1 DEF RequestsFollowPassword
  <1>10. RefreshesOwnTheirToken'
    <2>1. \A d \in Clients : Refreshing(d)' => d # c /\ Refreshing(d)
      BY <1>3, <1>4 DEF Refreshing
    <2>2. \A d \in Clients : Rotated(d)' => d # c /\ Rotated(d)
      BY <1>4, <2>1 DEF Rotated
    <2>3. ASSUME NEW d \in Clients, Refreshing(d)'
          PROVE  /\ req'[d].token <= issued'
                 /\ \A t \in sessions' : t.id = req'[d].token => t.user = req'[d].user
      BY <1>1, <1>3, <2>1, <2>3 DEF IInv, RefreshesOwnTheirToken, Refreshing
    <2>4. ASSUME NEW d \in Clients, Rotated(d)'  PROVE Alone(d)'
      <3>1. d # c /\ Alone(d) /\ req'[d].token = req[d].token
        BY <1>3, <2>2, <2>4 DEF IInv, RefreshesOwnTheirToken, Rotated, Refreshing
      <3>2. \A e \in Clients : Rotated(e)' => Rotated(e) /\ req'[e].token = req[e].token
        BY <1>3, <2>2 DEF Rotated, Refreshing
      <3>. QED  BY <1>1, <3>1, <3>2 DEF Alone
    <2>. QED  BY <2>3, <2>4 DEF RefreshesOwnTheirToken
  <1>. QED  BY <1>5, <1>6, <1>7, <1>8, <1>9, <1>10 DEF IInv

LEMMA CommitPasswordPreserves ==
  ASSUME IInv, NEW c \in Clients, CommitPassword(c)  PROVE IInv'
  <1>1. CASE req[c].op = "change" \/ CodeThere(c)
    BY <1>1, PasswordChangePreserves
  <1>2. CASE ~ (req[c].op = "change" \/ CodeThere(c))
    <2>1. /\ pc[c] # "idle" /\ Goto(c, "idle")
          /\ UNCHANGED <<status, active, pw, reset, verify, sessions, issued, heirs, twice>>
      BY <1>2 DEF CommitPassword, history
    <2>. QED  BY <2>1, GotoPreserves DEF IInv, TypeOK, Steps
  <1>. QED  BY <1>1, <1>2

-----------------------------------------------------------------------------
(* The steps that write codes or the account, and failures.                *)
LEMMA CodeStepPreserves ==
  ASSUME IInv, NEW c \in Clients,
         \/ ExpireCode(c) \/ ClearCodes(c) \/ SendCode(c) \/ ReplaceCode(c)
         \/ DropCode(c) \/ Activate(c) \/ Fail(c)
  PROVE  IInv'
  <1>. USE DEF Steps, account, codes, history, IInv, TypeOK
  <1>1. CASE ExpireCode(c)
    <2>1. pc[c] # "idle" /\ Goto(c, "idle") /\ reset' \in [Users -> SUBSET Codes]
      BY <1>1, SpendsCodes DEF ExpireCode
    <2>. QED  BY <1>1, <2>1, GotoPreserves DEF ExpireCode
  <1>2. CASE ClearCodes(c)
    <2>1. /\ pc[c] # "idle" /\ Goto(c, "sending")
          /\ reset' \in [Users -> SUBSET Codes] /\ verify' \in [Users -> Codes \cup {NoCode}]
      BY <1>2 DEF ClearCodes
    <2>. QED  BY <1>2, <2>1, GotoPreserves DEF ClearCodes
  <1>3. CASE SendCode(c)
    <2>1. [id |-> issued + 1, used |-> FALSE, expired |-> FALSE] \in Codes
      BY DEF Codes
    <2>2. reset' \in [Users -> SUBSET Codes]
      <3>1. \/ UNCHANGED reset
            \/ reset' = [reset EXCEPT ![req[c].user] = @ \cup
                           {[id |-> issued + 1, used |-> FALSE, expired |-> FALSE]}]
        BY <1>3 DEF SendCode
      <3>2. req[c].user \in Users /\ reset[req[c].user] \subseteq Codes
        BY <1>3, AtWork DEF SendCode
      <3>3. reset[req[c].user] \cup {[id |-> issued + 1, used |-> FALSE, expired |-> FALSE]}
              \in SUBSET Codes
        BY <2>1, <3>2
      <3>. QED  BY <3>1, <3>3
    <2>3. verify' \in [Users -> Codes \cup {NoCode}]
      <3>1. \/ UNCHANGED verify
            \/ verify' = [verify EXCEPT ![req[c].user] =
                            [id |-> issued + 1, used |-> FALSE, expired |-> FALSE]]
        BY <1>3 DEF SendCode
      <3>. QED  BY <2>1, <3>1
    <2>4. pc[c] # "idle" /\ Goto(c, "idle") /\ issued' \in Nat /\ issued' >= issued
      BY <1>3 DEF SendCode, Name
    <2>. QED  BY <1>3, <2>2, <2>3, <2>4, GotoPreserves DEF SendCode
  <1>4. CASE ReplaceCode(c)
    <2>1. /\ pc[c] # "idle" /\ verify' \in [Users -> Codes \cup {NoCode}]
          /\ Goto(c, "idle") \/ Goto(c, "clearing")
      BY <1>4 DEF ReplaceCode
    <2>. QED  BY <1>4, <2>1, GotoPreserves DEF ReplaceCode
  <1>5. CASE DropCode(c)
    <2>1. pc[c] # "idle" /\ Goto(c, "idle") /\ verify' \in [Users -> Codes \cup {NoCode}]
      BY <1>5 DEF DropCode
    <2>. QED  BY <1>5, <2>1, GotoPreserves DEF DropCode
  <1>6. CASE Activate(c)
    <2>1. pc[c] # "idle" /\ Goto(c, "idle") /\ sessions' \subseteq sessions
      BY <1>6 DEF Activate
    <2>2. status' \in [Users -> Statuses] /\ active' \in [Users -> BOOLEAN]
      BY <1>6 DEF Activate, Statuses
    <2>3. verify' \in [Users -> Codes \cup {NoCode}]
      <3>1. CASE verify[req[c].user] = NoCode
        BY <1>6, <3>1 DEF Activate
      <3>2. CASE verify[req[c].user] # NoCode
        <4>1. verify[req[c].user] \in Codes
          BY <1>6, <3>2, AtWork DEF Activate
        <4>2. [verify[req[c].user] EXCEPT !.used = TRUE] \in Codes
          BY <4>1 DEF Codes
        <4>. QED  BY <1>6, <3>2, <4>2 DEF Activate
      <3>. QED  BY <3>1, <3>2
    <2>. QED  BY <1>6, <2>1, <2>2, <2>3, GotoPreserves DEF Activate
  <1>7. CASE Fail(c)
    BY <1>7, GotoPreserves DEF Fail
  <1>. QED  BY <1>1, <1>2, <1>3, <1>4, <1>5, <1>6, <1>7

-----------------------------------------------------------------------------
LEMMA BeginPreserves ==
  ASSUME IInv, NEW c \in Clients, Begin(c)  PROVE IInv'
  <1>. USE DEF Ops
  <1>0. \A v \in Users : pw[v] \in Nat
    BY DEF IInv, TypeOK
  <1>1. ASSUME NEW t \in sessions, Refresh(c, t)  PROVE IInv'
    <2>1. /\ t.user \in Users /\ t.id \in Nat /\ t.pw \in Nat /\ t.late \in BOOLEAN
          /\ t.id <= issued /\ (t.pw = pw[t.user] \/ t.late)
          /\ \A s \in sessions : s.id = t.id => s.user = t.user
      BY DEF IInv, TypeOK, Tokens, IdsAreUnique, SessionsFollowPassword
    <2>2. PICK step \in {"refusing", "rotating"} :
            Accept(c, "refresh", t.user, t.id, t.pw, t.late, step)
      BY <1>1 DEF Refresh
    <2>. QED  BY <2>1, <2>2, AcceptPreserves
  <1>2. ASSUME NEW u \in Users, Login(c, u)  PROVE IInv'
    BY <1>0, <1>2, AcceptPreserves DEF Login
  <1>3. ASSUME NEW u \in Users, ChangePassword(c, u)  PROVE IInv'
    BY <1>0, <1>3, AcceptPreserves DEF ChangePassword
  <1>4. ASSUME NEW u \in Users, ForgotPassword(c, u)  PROVE IInv'
    BY <1>0, <1>4, AcceptPreserves DEF ForgotPassword
  <1>5. ASSUME NEW u \in Users, ResendRegistrationOtp(c, u)  PROVE IInv'
    <2>1. PICK step \in {"clearing", "replacing"} :
            Accept(c, "resend", u, 0, pw[u], FALSE, step)
      BY <1>5 DEF ResendRegistrationOtp
    <2>. QED  BY <1>0, <2>1, AcceptPreserves
  <1>6. ASSUME NEW u \in Users, VerifyRegistrationOtp(c, u)  PROVE IInv'
    <2>1. PICK step \in {"dropping", "activating"} :
            Accept(c, "verify", u, verify[u].id, pw[u], FALSE, step)
      BY <1>6 DEF VerifyRegistrationOtp
    <2>2. verify[u].id \in Nat
      BY <1>6 DEF VerifyRegistrationOtp, IInv, TypeOK, Codes
    <2>. QED  BY <1>0, <2>1, <2>2, AcceptPreserves
  <1>7. ASSUME NEW u \in Users, NEW t, Logout(c, u, t)  PROVE IInv'
    BY <1>7, LogoutPreserves
  <1>8. ASSUME NEW u \in Users, NEW code \in reset[u], ResetPassword(c, u, code)  PROVE IInv'
    <2>1. PICK step \in {"expiring", "hashing"} :
            Accept(c, "reset", u, code.id, pw[u], FALSE, step)
      BY <1>8 DEF ResetPassword
    <2>2. code.id \in Nat
      BY DEF IInv, TypeOK, Codes
    <2>. QED  BY <1>0, <2>1, <2>2, AcceptPreserves
  <1>. QED  BY <1>1, <1>2, <1>3, <1>4, <1>5, <1>6, <1>7, <1>8 DEF Begin

LEMMA NextPreserves == IInv /\ [Next]_vars => IInv'
  <1>. SUFFICES ASSUME IInv, [Next]_vars  PROVE IInv'
    OBVIOUS
  <1>1. CASE UNCHANGED vars
    BY <1>1, TablesPreserve DEF vars, account, codes, history, IInv, TypeOK, IdsAreUnique
  <1>2. ASSUME NEW c \in Clients, Begin(c)  PROVE IInv'
    BY <1>2, BeginPreserves
  <1>3. ASSUME NEW c \in Clients, Proceed(c)  PROVE IInv'
    BY <1>3, InvalidateTokenPreserves, PurgeExpiredPreserves, IssueTokenPreserves,
       CommitPasswordPreserves, CodeStepPreserves DEF Proceed
  <1>4. ASSUME NEW c \in Clients, Fail(c)  PROVE IInv'
    BY <1>4, CodeStepPreserves
  <1>5. ASSUME NEW u \in Users, NEW to \in Statuses, UpdateStatus(u, to)  PROVE IInv'
    BY <1>5, UpdateStatusPreserves
  <1>6. CASE Expire
    BY <1>6, ExpirePreserves
  <1>. QED  BY <1>1, <1>2, <1>3, <1>4, <1>5, <1>6 DEF Next

-----------------------------------------------------------------------------
(* The inductive invariant: what the tables hold, whose a token's id is, and *)
(* which password a session or a request was checked with.                  *)
THEOREM Invariance == Spec => []IInv
  BY InitIInv, NextPreserves, PTL DEF Spec

(* Of any number of requests that present a refresh token at the same time,  *)
(* one gets a new token for it (refresh and invalidateToken).               *)
THEOREM ExchangedOnce == Spec => []RotatedOnce
  <1>1. IInv => RotatedOnce
    BY DEF IInv
  <1>. QED  BY <1>1, Invariance, PTL

(* A session left or made after a change of password was opened with the new *)
(* password, or issued by a request that the change overtook.               *)
THEOREM PasswordGoverns == Spec => []SessionsFollowPassword
  <1>1. IInv => SessionsFollowPassword
    BY DEF IInv
  <1>. QED  BY <1>1, Invariance, PTL
=============================================================================
