------------------------- MODULE CreditLedgerProofs -------------------------
(* The safety of CreditLedger for every set of users, clients and amounts. *)
EXTENDS CreditLedger, FiniteSetTheorems, TLAPS

LEMMA RequestFields ==
  ASSUME NEW r \in Requests
  PROVE  r.from \in Users /\ r.to \in Users /\ r.amount \in Nat \ {0}
  BY ConstantsAssumption DEF Requests

(* What a request enters for a user: one amount on one side for the users  *)
(* it concerns, nothing for the others; only an origin is debited.         *)
LEMMA Entries ==
  ASSUME NEW r \in Requests, NEW u \in Users
  PROVE  /\ r.amount \in Nat \ {0}
         /\ Up(r, u) \in Nat /\ Down(r, u) \in Nat
         /\ u \in Touched(r) => \/ Up(r, u) = r.amount /\ Down(r, u) = 0
                                \/ /\ Up(r, u) = 0 /\ Down(r, u) = r.amount
                                   /\ Debits(r) /\ u = r.from
         /\ u \notin Touched(r) => Up(r, u) = 0 /\ Down(r, u) = 0
         /\ ~ Debits(r) => Down(r, u) = 0
  BY ConstantsAssumption DEF Requests, OneAccount, Up, Down, Touched, Debits

(* Every balance a request computes once its check has passed is a natural  *)
(* number, and so is what it writes.                                        *)
LEMMA WrittenBalanceNat ==
  ASSUME TypeOK, BalanceNeverNegative,
         NEW c \in Clients, NEW u \in Users,
         req[c] \in Requests, u \in Touched(req[c]),
         seen[c][u] >= 0, ~ Insufficient(c)
  PROVE  /\ WrittenBalance(c, u) \in Nat
         /\ Computed(c, u) \in Nat
  <1>1. seen[c][u] \in Nat /\ balance[u] \in Nat
    BY DEF TypeOK, BalanceNeverNegative
  <1>2. Debits(req[c]) => seen[c][req[c].from] >= req[c].amount
    <2>1. req[c].from \in Users
      BY DEF Requests
    <2>. QED  BY <2>1, Entries DEF Insufficient, TypeOK
  <1>. QED  BY <1>1, <1>2, Entries DEF WrittenBalance, Computed

-----------------------------------------------------------------------------
LEMMA InitIInv == Init => IInv
  BY ConstantsAssumption
  DEF Init, IInv, TypeOK, BalanceNeverNegative, LedgerShowsBalance, WritesUnderLock,
      SessionConsistent

(* Ending a transaction without committing it.                             *)
(* Another session is as consistent after a step that leaves it, and the    *)
(* rows it has written, alone.                                              *)
LEMMA OtherSession ==
  ASSUME IInv, NEW d \in Clients,
         pc'[d] = pc[d], req'[d] = req[d], seen'[d] = seen[d],
         missing'[d] = missing[d], written'[d] = written[d], value'[d] = value[d],
         \A u \in written[d] : lock'[u] = lock[u] /\ balance'[u] = balance[u]
  PROVE  SessionConsistent(d)'
  <1>1. \A u \in written[d] : WrittenBalance(d, u)' = WrittenBalance(d, u)
    BY DEF WrittenBalance, Computed
  <1>2. Insufficient(d)' <=> Insufficient(d)
    BY DEF Insufficient
  <1>. QED  BY <1>1, <1>2 DEF IInv, WritesUnderLock, SessionConsistent

(* Ending a transaction without committing it.                             *)
LEMMA EndPreserves ==
  ASSUME IInv, NEW c \in Clients, EndTransaction(c, "idle"),
         UNCHANGED <<tables, begun>>, purchased' \in [Users -> Nat],
         paid' \in [Users -> Nat]
  PROVE  IInv'
  <1>. USE DEF EndTransaction, tables
  <1>1. TypeOK'
    BY ConstantsAssumption DEF IInv, TypeOK
  <1>2. BalanceNeverNegative' /\ LedgerShowsBalance'
    BY DEF IInv, BalanceNeverNegative, LedgerShowsBalance
  <1>3. ASSUME NEW d \in Clients PROVE SessionConsistent(d)'
    <2>1. CASE d = c
      BY <2>1 DEF IInv, SessionConsistent, TypeOK
    <2>2. CASE d # c
      <3>1. \A u \in written[d] : lock[u] = d /\ u \in Users
        BY DEF IInv, WritesUnderLock, SessionConsistent, TypeOK
      <3>. QED  BY <2>2, <3>1, OtherSession DEF IInv, TypeOK
    <2>. QED  BY <2>1, <2>2
  <1>. QED  BY <1>1, <1>2, <1>3 DEF IInv, WritesUnderLock

LEMMA RollbackPreserves ==
  ASSUME IInv, NEW c \in Clients, Rollback(c)  PROVE IInv'
  BY EndPreserves DEF Rollback, IInv, TypeOK

LEMMA BeginPreserves ==
  ASSUME IInv, NEW c \in Clients, NEW r \in Requests, Begin(c, r)  PROVE IInv'
  <1>. USE DEF Begin, tables
  <1>0. written[c] = {}
    BY DEF IInv, WritesUnderLock, SessionConsistent
  <1>1. TypeOK'
    BY ConstantsAssumption DEF IInv, TypeOK, Touched, Requests
  <1>2. BalanceNeverNegative' /\ LedgerShowsBalance'
    BY DEF IInv, BalanceNeverNegative, LedgerShowsBalance
  <1>3. ASSUME NEW d \in Clients PROVE SessionConsistent(d)'
    <2>1. CASE d = c
      BY <1>0, <2>1 DEF IInv, SessionConsistent, TypeOK, BalanceNeverNegative
    <2>2. CASE d # c
      BY <2>2, OtherSession DEF IInv, TypeOK
    <2>. QED  BY <2>1, <2>2
  <1>. QED  BY <1>1, <1>2, <1>3 DEF IInv, WritesUnderLock

LEMMA InsertRowPreserves ==
  ASSUME IInv, NEW c \in Clients, NEW u \in Users, InsertRow(c, u)  PROVE IInv'
  <1>. USE DEF InsertRow, tables
  <1>1. TypeOK'
    BY DEF IInv, TypeOK
  <1>2. BalanceNeverNegative' /\ LedgerShowsBalance'
    BY DEF IInv, BalanceNeverNegative, LedgerShowsBalance
  <1>3. ASSUME NEW d \in Clients PROVE SessionConsistent(d)'
    <2>0. written[c] = {}
      BY DEF IInv, WritesUnderLock, SessionConsistent, NextMissing, OriginFirst
    <2>1. CASE d = c
      BY <2>0, <2>1 DEF IInv, WritesUnderLock, SessionConsistent, TypeOK
    <2>2. CASE d # c
      <3>1. \A v \in written[d] : v # u
        BY ConstantsAssumption DEF IInv, WritesUnderLock, SessionConsistent
      <3>. QED  BY <2>2, <3>1, OtherSession DEF IInv, TypeOK
    <2>. QED  BY <2>1, <2>2
  <1>. QED  BY <1>1, <1>2, <1>3 DEF IInv, WritesUnderLock

LEMMA UpdateRowPreserves ==
  ASSUME IInv, NEW c \in Clients, NEW u \in Users, UpdateRow(c, u)  PROVE IInv'
  <1>. USE DEF UpdateRow, NextUpdate, OriginFirst, tables
  <1>0. /\ req[c] \in Requests /\ u \in Touched(req[c])
        /\ WrittenBalance(c, u) \in Nat
    BY WrittenBalanceNat DEF IInv, WritesUnderLock, SessionConsistent
  <1>1. TypeOK'
    BY <1>0 DEF IInv, TypeOK
  <1>2. BalanceNeverNegative' /\ LedgerShowsBalance'
    BY DEF IInv, BalanceNeverNegative, LedgerShowsBalance
  <1>3. ASSUME NEW d \in Clients PROVE SessionConsistent(d)'
    <2>1. CASE d = c
      <3>1. \A v \in Users : WrittenBalance(c, v)' = WrittenBalance(c, v)
        BY DEF WrittenBalance, Computed
      <3>2. Insufficient(c)' <=> Insufficient(c)
        BY DEF Insufficient
      <3>3. \A v \in Users \ {u} : value'[c][v] = value[c][v] /\ lock'[v] = lock[v]
        BY DEF IInv, TypeOK
      <3>4. value'[c][u] = WrittenBalance(c, u) /\ lock'[u] = c
        BY DEF IInv, TypeOK
      <3>5. written'[c] = written[c] \cup {u} /\ written[c] \subseteq Users
        BY DEF IInv, TypeOK
      <3>6. pc'[c] = "open" /\ req'[c] = req[c] /\ missing'[c] = {} /\ seen' = seen
        OBVIOUS
      <3>7. SessionConsistent(c)
        BY DEF IInv, WritesUnderLock
      <3>. QED
        BY <1>0, <2>1, <3>1, <3>2, <3>3, <3>4, <3>5, <3>6, <3>7
        DEF SessionConsistent
    <2>2. CASE d # c
      <3>1. \A v \in written[d] : v # u
        BY <2>2, ConstantsAssumption DEF IInv, WritesUnderLock, SessionConsistent
      <3>. QED  BY <2>2, <3>1, OtherSession DEF IInv, TypeOK
    <2>. QED  BY <2>1, <2>2
  <1>. QED  BY <1>1, <1>2, <1>3 DEF IInv, WritesUnderLock

(* What a commit publishes: for the users of the request the value written, *)
(* which is what the ledger row shows, and an increment's is the committed   *)
(* balance plus the amount.                                                 *)
LEMMA CommitFacts ==
  ASSUME IInv, NEW c \in Clients, Commit(c)
  PROVE  /\ req[c] \in Requests /\ ~ Insufficient(c)
         /\ written[c] = Touched(req[c]) /\ written[c] \subseteq Users
         /\ \A u \in written[c] :
              /\ lock[u] = c
              /\ value[c][u] = WrittenBalance(c, u)
              /\ value[c][u] = RunningBalance(c, u)
              /\ value[c][u] \in Nat
  <1>1. /\ SessionConsistent(c) /\ pc[c] = "open"
        /\ written[c] = Touched(req[c]) /\ written[c] \subseteq Users
    BY DEF IInv, WritesUnderLock, TypeOK, Commit
  <1>2. req[c] \in Requests /\ ~ Insufficient(c)
    BY <1>1 DEF SessionConsistent, Touched
  <1>3. ASSUME NEW u \in written[c]
        PROVE  /\ lock[u] = c /\ value[c][u] = WrittenBalance(c, u)
               /\ value[c][u] \in Nat
    BY <1>1, <1>2, WrittenBalanceNat DEF SessionConsistent, IInv
  <1>. QED  BY <1>1, <1>2, <1>3 DEF WrittenBalance, RunningBalance

LEMMA CommitPreserves ==
  ASSUME IInv, NEW c \in Clients, Commit(c)  PROVE IInv'
  <1>. USE DEF Commit, EndTransaction
  <1>0. /\ req[c] \in Requests /\ written[c] \subseteq Users
        /\ \A u \in written[c] : /\ lock[u] = c
                                 /\ value[c][u] = RunningBalance(c, u)
                                 /\ value[c][u] \in Nat
    BY CommitFacts
  <1>1. TypeOK'
    <2>1. \A u \in Users : Up(req[c], u) \in Nat /\ Down(req[c], u) \in Nat
      BY <1>0, Entries
    <2>2. credited' \in [Users -> Nat] /\ debited' \in [Users -> Nat]
      BY <2>1 DEF IInv, TypeOK
    <2>3. balance' \in [Users -> Int] /\ running' \in [Users -> Int]
      BY <1>0 DEF IInv, TypeOK
    <2>4. purchased' \in [Users -> Nat]
      <3>1. req[c].from \in Users /\ req[c].amount \in Nat
        BY <1>0, RequestFields
      <3>2. \/ purchased' = purchased
            \/ purchased' = [purchased EXCEPT
                               ![req[c].from] = purchased[req[c].from] + req[c].amount]
        OBVIOUS
      <3>3. purchased \in [Users -> Nat]
        BY DEF IInv, TypeOK
      <3>. HIDE DEF Commit, EndTransaction
      <3>. QED  BY <3>1, <3>2, <3>3
    <2>5. rows' \subseteq Users
      BY <1>0 DEF IInv, TypeOK
    <2>6. lock' \in [Users -> Clients \cup {NoClient}]
      BY DEF IInv, TypeOK
    <2>7. /\ seen' \in [Clients -> [Users -> Int]]
          /\ value' \in [Clients -> [Users -> Int]]
          /\ missing' \in [Clients -> SUBSET Users]
          /\ written' \in [Clients -> SUBSET Users]
      <3>1. /\ seen' = [seen EXCEPT ![c] = [u \in Users |-> 0]]
            /\ value' = [value EXCEPT ![c] = [u \in Users |-> 0]]
            /\ missing' = [missing EXCEPT ![c] = {}]
            /\ written' = [written EXCEPT ![c] = {}]
        OBVIOUS
      <3>. HIDE DEF Commit, EndTransaction
      <3>. QED  BY <3>1 DEF IInv, TypeOK
    <2>8. pc' \in [Clients -> {"idle", "open", "paying"}]
      <3>1. \/ pc' = [pc EXCEPT ![c] = "paying"]
            \/ pc' = [pc EXCEPT ![c] = "idle"]
        OBVIOUS
      <3>. HIDE DEF Commit, EndTransaction
      <3>. QED  BY <3>1 DEF IInv, TypeOK
    <2>9. req' \in [Clients -> Requests \cup {NoRequest}]
      BY DEF IInv, TypeOK
    <2>10. paid' \in [Users -> Nat] /\ begun' \in 0 .. MaxRequests
      BY DEF IInv, TypeOK
    <2>. QED
      BY <2>2, <2>3, <2>4, <2>5, <2>6, <2>7, <2>8, <2>9, <2>10
      DEF TypeOK
  <1>2. BalanceNeverNegative' /\ LedgerShowsBalance'
    BY <1>0 DEF IInv, TypeOK, BalanceNeverNegative, LedgerShowsBalance
  <1>3. ASSUME NEW d \in Clients PROVE SessionConsistent(d)'
    <2>1. CASE d = c
      <3>1. written'[c] = {} /\ pc'[c] # "open"
        BY DEF IInv, TypeOK
      <3>2. pc'[c] # "idle" => req'[c] \in Requests
        BY <1>0 DEF IInv, TypeOK
      <3>3. \A u \in Users : seen'[c][u] >= 0
        BY DEF IInv, TypeOK
      <3>. QED  BY <2>1, <3>1, <3>2, <3>3 DEF SessionConsistent
    <2>2. CASE d # c
      <3>1. \A u \in written[d] : u \in Users /\ lock[u] = d
        BY DEF IInv, WritesUnderLock, SessionConsistent, TypeOK
      <3>2. \A u \in written[d] : u \notin written[c]
        BY <1>0, <2>2, <3>1
      <3>3. \A u \in written[d] : lock'[u] = lock[u] /\ balance'[u] = balance[u]
        BY <2>2, <3>1, <3>2 DEF IInv, TypeOK
      <3>4. /\ pc'[d] = pc[d] /\ req'[d] = req[d] /\ seen'[d] = seen[d]
            /\ missing'[d] = missing[d] /\ written'[d] = written[d]
            /\ value'[d] = value[d]
        BY <2>2 DEF IInv, TypeOK
      <3>. QED  BY <3>3, <3>4, OtherSession
    <2>. QED  BY <2>1, <2>2
  <1>. QED  BY <1>1, <1>2, <1>3 DEF IInv, WritesUnderLock

LEMMA RecordPaymentPreserves ==
  ASSUME IInv, NEW c \in Clients, RecordPayment(c)  PROVE IInv'
  <1>1. req[c] \in Requests
    BY DEF IInv, WritesUnderLock, SessionConsistent, RecordPayment
  <1>2. req[c].from \in Users /\ req[c].amount \in Nat
    BY <1>1, RequestFields
  <1>3. paid' \in [Users -> Nat] /\ purchased' \in [Users -> Nat]
    BY <1>2 DEF IInv, TypeOK, RecordPayment
  <1>. QED  BY <1>3, EndPreserves DEF RecordPayment

LEMMA GetSummaryPreserves ==
  ASSUME IInv, NEW u \in Users, GetSummary(u)  PROVE IInv'
  <1>1. TypeOK' /\ BalanceNeverNegative' /\ LedgerShowsBalance'
    BY DEF IInv, TypeOK, BalanceNeverNegative, LedgerShowsBalance, GetSummary, session
  <1>2. ASSUME NEW d \in Clients PROVE SessionConsistent(d)'
    BY OtherSession DEF GetSummary, session
  <1>. QED  BY <1>1, <1>2 DEF IInv, WritesUnderLock

LEMMA StutterPreserves == IInv /\ UNCHANGED vars => IInv'
  <1>. SUFFICES ASSUME IInv, UNCHANGED vars PROVE IInv'
    OBVIOUS
  <1>1. TypeOK' /\ BalanceNeverNegative' /\ LedgerShowsBalance'
    BY DEF IInv, TypeOK, BalanceNeverNegative, LedgerShowsBalance, vars, tables, session
  <1>2. ASSUME NEW d \in Clients PROVE SessionConsistent(d)'
    BY OtherSession DEF vars, tables, session
  <1>. QED  BY <1>1, <1>2 DEF IInv, WritesUnderLock

LEMMA NextPreserves == IInv /\ [Next]_vars => IInv'
  <1>. SUFFICES ASSUME IInv, [Next]_vars PROVE IInv'
    OBVIOUS
  <1>1. ASSUME NEW c \in Clients, NEW r \in Requests, Begin(c, r) PROVE IInv'
    BY <1>1, BeginPreserves
  <1>2. ASSUME NEW c \in Clients, Proceed(c) PROVE IInv'
    <2>1. ASSUME NEW u \in Users, InsertRow(c, u) PROVE IInv'
      BY <2>1, InsertRowPreserves
    <2>2. ASSUME NEW u \in Users, InsertConflict(c, u) PROVE IInv'
      BY <2>2, RollbackPreserves DEF InsertConflict
    <2>3. ASSUME NEW u \in Users, UpdateRow(c, u) PROVE IInv'
      BY <2>3, UpdateRowPreserves
    <2>4. ASSUME Refuse(c) PROVE IInv'
      BY <2>4, RollbackPreserves DEF Refuse
    <2>5. ASSUME Commit(c) PROVE IInv'
      BY <2>5, CommitPreserves
    <2>6. ASSUME RecordPayment(c) PROVE IInv'
      BY <2>6, RecordPaymentPreserves
    <2>. QED  BY <1>2, <2>1, <2>2, <2>3, <2>4, <2>5, <2>6 DEF Proceed
  <1>3. ASSUME NEW c \in Clients, DeadlockVictim(c) PROVE IInv'
    BY <1>3, RollbackPreserves DEF DeadlockVictim
  <1>4. ASSUME NEW c \in Clients, Fail(c) PROVE IInv'
    BY <1>4, EndPreserves DEF Fail, IInv, TypeOK
  <1>5. ASSUME NEW u \in Users, GetSummary(u) PROVE IInv'
    BY <1>5, GetSummaryPreserves
  <1>6. CASE UNCHANGED vars
    BY <1>6, StutterPreserves
  <1>. QED  BY <1>1, <1>2, <1>3, <1>4, <1>5, <1>6 DEF Next

-----------------------------------------------------------------------------
(* Type correctness, and the inductive invariant the rest follows from.    *)
THEOREM Invariance == Spec => []IInv
  BY InitIInv, NextPreserves, PTL DEF Spec

(* Type correctness alone: the tables and the requests in progress.        *)
THEOREM Typed == Spec => []TypeOK
  <1>1. IInv => TypeOK
    BY DEF IInv
  <1>. QED  BY <1>1, Invariance, PTL

(* The stored balance of an account is never negative, however requests     *)
(* interleave, fail and deadlock.                                           *)
THEOREM NeverNegative == Spec => []BalanceNeverNegative
  <1>1. IInv => BalanceNeverNegative
    BY DEF IInv
  <1>. QED  BY <1>1, Invariance, PTL

(* The newest ledger row of an account shows the account's balance.        *)
THEOREM LedgerAgrees == Spec => []LedgerShowsBalance
  <1>1. IInv => LedgerShowsBalance
    BY DEF IInv
  <1>. QED  BY <1>1, Invariance, PTL

(* Uncommitted balances are held under the row's lock until the commit.    *)
THEOREM LockDiscipline == Spec => []WritesUnderLock
  <1>1. IInv => WritesUnderLock
    BY DEF IInv
  <1>. QED  BY <1>1, Invariance, PTL

-----------------------------------------------------------------------------
(* Only Commit changes the balances and the ledger.                        *)
LEMMA OnlyCommitPosts ==
  ASSUME [Next]_vars,
         ~ UNCHANGED <<balance, credited, debited, running>>
  PROVE  \E c \in Clients : Commit(c)
  <1>. USE DEF tables, session
  <1>1. CASE UNCHANGED vars
    BY <1>1 DEF vars
  <1>2. ASSUME NEW c \in Clients, NEW r \in Requests, Begin(c, r)
        PROVE  UNCHANGED <<balance, credited, debited, running>>
    BY <1>2 DEF Begin
  <1>3. ASSUME NEW c \in Clients, Rollback(c) \/ Fail(c) \/ RecordPayment(c)
        PROVE  UNCHANGED <<balance, credited, debited, running>>
    BY <1>3 DEF Rollback, Fail, RecordPayment
  <1>4. ASSUME NEW c \in Clients, NEW u \in Users, InsertRow(c, u) \/ UpdateRow(c, u)
        PROVE  UNCHANGED <<balance, credited, debited, running>>
    BY <1>4 DEF InsertRow, UpdateRow
  <1>5. ASSUME NEW u \in Users, GetSummary(u)
        PROVE  UNCHANGED <<balance, credited, debited, running>>
    BY <1>5 DEF GetSummary
  <1>. QED
    BY <1>1, <1>2, <1>3, <1>4, <1>5
    DEF Next, Proceed, InsertConflict, Refuse, DeadlockVictim

(* A commit at one user: nothing outside the request; inside it, the value  *)
(* written, its ledger row showing it, and the amount on one side.          *)
LEMMA CommitAt ==
  ASSUME IInv, NEW c \in Clients, Commit(c), NEW u \in Users
  PROVE  /\ credited[u] \in Nat /\ debited[u] \in Nat /\ balance[u] \in Nat
         /\ credited'[u] = credited[u] + Up(req[c], u)
         /\ debited'[u] = debited[u] + Down(req[c], u)
         /\ u \in Touched(req[c]) => /\ balance'[u] = WrittenBalance(c, u)
                                     /\ balance'[u] \in Nat
                                     /\ running'[u] = balance'[u]
         /\ u \notin Touched(req[c]) => /\ balance'[u] = balance[u]
                                        /\ running'[u] = running[u]
  <1>1. /\ credited[u] \in Nat /\ debited[u] \in Nat /\ balance[u] \in Nat
    BY DEF IInv, TypeOK, BalanceNeverNegative
  <1>. QED  BY <1>1, CommitFacts DEF Commit

(* Balances and ledger sums drift apart only through a commit over a        *)
(* balance other than the one the request read.                             *)
THEOREM Drifting == Spec => DriftNeedsStaleCommit
  <1>1. ASSUME IInv, [Next]_vars, NEW u \in Users, Drift(u)' # Drift(u)
        PROVE  \E c \in Clients : StaleCommit(c, u)
    <2>1. PICK c \in Clients : Commit(c)
      BY <1>1, OnlyCommitPosts DEF Drift
    <2>2. req[c] \in Requests /\ written[c] = Touched(req[c])
      BY <1>1, <2>1, CommitFacts
    <2>3. u \in Touched(req[c])
      BY <1>1, <2>1, <2>2, CommitAt, Entries DEF Drift
    <2>4. req[c].kind # "GRANT"
      <3>. SUFFICES ASSUME req[c].kind = "GRANT" PROVE FALSE
        OBVIOUS
      <3>1. Down(req[c], u) = 0
        BY <2>2, Entries DEF Debits
      <3>. QED  BY <1>1, <2>1, <2>2, <2>3, <3>1, CommitAt, Entries
                DEF Drift, WrittenBalance
    <2>5. seen[c][u] # balance[u]
      BY <1>1, <2>1, <2>2, <2>3, <2>4, CommitAt, Entries
      DEF Drift, WrittenBalance, Computed
    <2>6. pc[c] = "open" /\ pc'[c] # "open"
      BY <1>1, <2>1 DEF Commit, EndTransaction, IInv, TypeOK
    <2>. QED  BY <2>2, <2>3, <2>4, <2>5, <2>6 DEF StaleCommit
  <1>2. IInv /\ [Next]_vars =>
          [\A u \in Users :
             Drift(u)' # Drift(u) => \E c \in Clients : StaleCommit(c, u)]_vars
    BY <1>1
  <1>. QED  BY <1>2, Invariance, PTL DEF Spec, DriftNeedsStaleCommit

-----------------------------------------------------------------------------
(* What the requests that have granted credits to u have yet to record, one  *)
(* element a credit: its cardinality is the sum of their amounts, and each   *)
(* step adds or removes the share of one client.                            *)
Paying(u) == {c \in Clients : pc[c] = "paying" /\ req[c].from = u}
Share(c)  == {c} \X (1 .. req[c].amount)
Due(u)    == UNION {Share(c) : c \in Paying(u)}

PaymentsDue == \A u \in Users : /\ IsFiniteSet(Due(u))
                                /\ paid[u] + Cardinality(Due(u)) <= purchased[u]

LEMMA ShareSize ==
  ASSUME NEW c \in Clients, req[c] \in Requests
  PROVE  IsFiniteSet(Share(c)) /\ Cardinality(Share(c)) = req[c].amount
  <1>1. req[c].amount \in Nat \ {0}
    BY RequestFields
  <1>2. /\ IsFiniteSet(1 .. req[c].amount)
        /\ Cardinality(1 .. req[c].amount) = req[c].amount
    <2>1. ASSUME NEW n \in Nat \ {0}  PROVE IsFiniteSet(1 .. n) /\ Cardinality(1 .. n) = n
      <3>1. /\ IsFiniteSet(1 .. n)
            /\ Cardinality(1 .. n) = IF 1 > n THEN 0 ELSE n - 1 + 1
        BY FS_Interval
      <3>. QED  BY <3>1
    <2>. QED  BY <1>1, <2>1
  <1>3. IsFiniteSet({c}) /\ Cardinality({c}) = 1
    BY FS_Singleton
  <1>. QED  BY <1>1, <1>2, <1>3, FS_Product DEF Share

(* Fewer clients that pay, with the requests they had. *)
LEMMA DueShrinks ==
  ASSUME PaymentsDue, TypeOK, TypeOK', UNCHANGED <<paid, purchased>>,
         \A c \in Clients : pc'[c] = "paying" => pc[c] = "paying" /\ req'[c] = req[c]
  PROVE  PaymentsDue'
  <1>. SUFFICES ASSUME NEW u \in Users
                PROVE  /\ IsFiniteSet(Due(u)')
                       /\ paid[u] + Cardinality(Due(u)') <= purchased[u]
    BY DEF PaymentsDue
  <1>1. Due(u)' \subseteq Due(u)
    BY DEF Due, Paying, Share
  <1>2. IsFiniteSet(Due(u)) /\ paid[u] + Cardinality(Due(u)) <= purchased[u]
    BY DEF PaymentsDue
  <1>3. IsFiniteSet(Due(u)') /\ Cardinality(Due(u)') <= Cardinality(Due(u))
    BY <1>1, <1>2, FS_Subset
  <1>4. /\ Cardinality(Due(u)) \in Nat /\ Cardinality(Due(u)') \in Nat
        /\ paid[u] \in Nat /\ purchased[u] \in Nat
    BY <1>2, <1>3, FS_CardinalityType DEF TypeOK
  <1>. QED  BY <1>2, <1>3, <1>4

(* A purchase committed: its share is due. *)
LEMMA CommitDue ==
  ASSUME IInv, IInv', PaymentsDue, NEW c \in Clients, Commit(c)  PROVE PaymentsDue'
  <1>1. req[c] \in Requests /\ pc[c] = "open" /\ paid' = paid
    BY CommitFacts DEF Commit
  <1>2. \A d \in Clients \ {c} : pc'[d] = pc[d] /\ req'[d] = req[d]
    BY DEF Commit, EndTransaction, IInv, TypeOK
  <1>3. CASE req[c].kind # "PURCHASE"
    <2>1. pc'[c] = "idle" /\ UNCHANGED <<paid, purchased>>
      BY <1>3 DEF Commit, EndTransaction, IInv, TypeOK
    <2>. QED  BY <1>2, <2>1, DueShrinks DEF IInv
  <1>4. CASE req[c].kind = "PURCHASE"
    <2>1. /\ pc'[c] = "paying" /\ req' = req
          /\ purchased' = [purchased EXCEPT ![req[c].from] = @ + req[c].amount]
      BY <1>4 DEF Commit, EndTransaction, IInv, TypeOK
    <2>2. req[c].amount \in Nat \ {0} /\ req[c].from \in Users
      BY <1>1, RequestFields
    <2>3. ASSUME NEW u \in Users
          PROVE  /\ IsFiniteSet(Due(u)')
                 /\ paid'[u] + Cardinality(Due(u)') <= purchased'[u]
      <3>1. IsFiniteSet(Due(u)) /\ paid[u] + Cardinality(Due(u)) <= purchased[u]
        BY DEF PaymentsDue
      <3>2. paid[u] \in Nat /\ purchased[u] \in Nat /\ Cardinality(Due(u)) \in Nat
        BY <3>1, FS_CardinalityType DEF IInv, TypeOK
      <3>3. \A d : Share(d)' = Share(d)
        BY <2>1 DEF Share
      <3>4. CASE u # req[c].from
        <4>1. Paying(u)' = Paying(u)
          BY <1>1, <1>2, <2>1, <3>4 DEF Paying
        <4>2. Due(u)' = Due(u) /\ purchased'[u] = purchased[u]
          BY <2>1, <3>3, <3>4, <4>1 DEF Due, IInv, TypeOK
        <4>. QED  BY <1>1, <3>1, <4>2
      <3>5. CASE u = req[c].from
        <4>1. Paying(u)' = Paying(u) \cup {c} /\ c \notin Paying(u)
          BY <1>1, <1>2, <2>1, <3>5 DEF Paying
        <4>2. Due(u)' = Due(u) \cup Share(c)
          BY <3>3, <4>1 DEF Due
        <4>3. IsFiniteSet(Share(c)) /\ Cardinality(Share(c)) = req[c].amount
          BY <1>1, ShareSize
        <4>4. Due(u) \cap Share(c) = {}
          BY <4>1 DEF Due, Share
        <4>5. /\ IsFiniteSet(Due(u)')
              /\ Cardinality(Due(u)') = Cardinality(Due(u)) + req[c].amount
          BY <2>2, <3>1, <3>2, <4>2, <4>3, <4>4, FS_Union, FS_EmptySet
        <4>6. purchased'[u] = purchased[u] + req[c].amount
          BY <2>1, <3>5 DEF IInv, TypeOK
        <4>. QED  BY <1>1, <2>2, <3>1, <3>2, <4>5, <4>6
      <3>. QED  BY <3>4, <3>5
    <2>. QED  BY <2>3 DEF PaymentsDue
  <1>. QED  BY <1>3, <1>4

(* A payment recorded: its share was due, and is due no more. *)
LEMMA RecordPaymentDue ==
  ASSUME IInv, PaymentsDue, NEW c \in Clients, RecordPayment(c)  PROVE PaymentsDue'
  <1>1. /\ req[c] \in Requests /\ pc[c] = "paying" /\ pc'[c] = "idle"
        /\ paid' = [paid EXCEPT ![req[c].from] = @ + req[c].amount]
        /\ purchased' = purchased
        /\ \A d \in Clients \ {c} : pc'[d] = pc[d] /\ req'[d] = req[d]
    BY DEF RecordPayment, EndTransaction, IInv, TypeOK, WritesUnderLock, SessionConsistent
  <1>2. req[c].amount \in Nat \ {0} /\ req[c].from \in Users
    BY <1>1, RequestFields
  <1>3. ASSUME NEW u \in Users
        PROVE  /\ IsFiniteSet(Due(u)')
               /\ paid'[u] + Cardinality(Due(u)') <= purchased'[u]
    <2>1. IsFiniteSet(Due(u)) /\ paid[u] + Cardinality(Due(u)) <= purchased[u]
      BY DEF PaymentsDue
    <2>2. paid[u] \in Nat /\ purchased[u] \in Nat /\ Cardinality(Due(u)) \in Nat
      BY <2>1, FS_CardinalityType DEF IInv, TypeOK
    <2>3. Paying(u)' = Paying(u) \ {c}
      BY <1>1 DEF Paying
    <2>4. \A d \in Clients \ {c} : Share(d)' = Share(d)
      BY <1>1 DEF Share
    <2>5. Due(u)' = UNION {Share(d) : d \in Paying(u) \ {c}}
      BY <2>3, <2>4 DEF Due, Paying
    <2>6. CASE u # req[c].from
      <3>1. Paying(u) \ {c} = Paying(u) /\ paid'[u] = paid[u]
        BY <1>1, <2>6 DEF Paying, IInv, TypeOK
      <3>2. Due(u)' = Due(u)
        BY <2>5, <3>1 DEF Due
      <3>. QED  BY <1>1, <2>1, <3>1, <3>2
    <2>7. CASE u = req[c].from
      <3>1. c \in Paying(u)
        BY <1>1, <2>7 DEF Paying
      <3>2. Due(u)' = Due(u) \ Share(c) /\ Due(u) \cap Share(c) = Share(c)
        BY <2>5, <3>1 DEF Due, Share
      <3>3. Cardinality(Share(c)) = req[c].amount
        BY <1>1, ShareSize
      <3>4. /\ IsFiniteSet(Due(u)')
            /\ Cardinality(Due(u)') = Cardinality(Due(u)) - req[c].amount
        <4>1. /\ IsFiniteSet(Due(u) \ Share(c))
              /\ Cardinality(Due(u) \ Share(c)) =
                   Cardinality(Due(u)) - Cardinality(Due(u) \cap Share(c))
          BY <2>1, FS_Difference
        <4>. QED  BY <3>2, <3>3, <4>1
      <3>5. paid'[u] = paid[u] + req[c].amount
        BY <1>1, <2>7 DEF IInv, TypeOK
      <3>. QED  BY <1>1, <1>2, <2>1, <2>2, <3>4, <3>5
    <2>. QED  BY <2>6, <2>7
  <1>. QED  BY <1>3 DEF PaymentsDue

(* Nothing but a purchase's own commit puts a client among those that pay. *)
LEMMA OnlyCommitPays ==
  ASSUME IInv, [Next]_vars,
         ~ \E c \in Clients : Commit(c) \/ RecordPayment(c)
  PROVE  /\ UNCHANGED <<paid, purchased>>
         /\ \A c \in Clients : pc'[c] = "paying" => pc[c] = "paying" /\ req'[c] = req[c]
  <1>. USE DEF tables, session
  <1>1. CASE UNCHANGED vars
    BY <1>1 DEF vars
  <1>2. ASSUME NEW c \in Clients, NEW r \in Requests, Begin(c, r)
        PROVE  /\ UNCHANGED <<paid, purchased>>
               /\ \A d \in Clients : pc'[d] = "paying" => pc[d] = "paying" /\ req'[d] = req[d]
    BY <1>2 DEF Begin, IInv, TypeOK
  <1>3. ASSUME NEW c \in Clients, Rollback(c) \/ Fail(c)
        PROVE  /\ UNCHANGED <<paid, purchased>>
               /\ \A d \in Clients : pc'[d] = "paying" => pc[d] = "paying" /\ req'[d] = req[d]
    BY <1>3 DEF Rollback, Fail, EndTransaction, IInv, TypeOK
  <1>4. ASSUME NEW c \in Clients, NEW u \in Users, InsertRow(c, u) \/ UpdateRow(c, u)
        PROVE  UNCHANGED <<paid, purchased, pc, req>>
    BY <1>4 DEF InsertRow, UpdateRow
  <1>5. ASSUME NEW u \in Users, GetSummary(u)
        PROVE  UNCHANGED <<paid, purchased, pc, req>>
    BY <1>5 DEF GetSummary
  <1>. QED
    BY <1>1, <1>2, <1>3, <1>4, <1>5
    DEF Next, Proceed, InsertConflict, Refuse, DeadlockVictim

(* purchaseCredits, createPayment: a payment is recorded once, for credits   *)
(* that were granted; a request that failed in between leaves credits that   *)
(* are not paid for, never the reverse.                                     *)
THEOREM Backed == Spec => []PaymentsAreBacked
  <1>1. Init => PaymentsDue
    <2>. SUFFICES ASSUME Init, NEW u \in Users
                  PROVE  /\ IsFiniteSet(Due(u))
                         /\ paid[u] + Cardinality(Due(u)) <= purchased[u]
      BY DEF PaymentsDue
    <2>1. Due(u) = {}
      BY DEF Init, Due, Paying
    <2>. QED  BY <2>1, FS_EmptySet DEF Init
  <1>2. IInv /\ IInv' /\ PaymentsDue /\ [Next]_vars => PaymentsDue'
    <2>. SUFFICES ASSUME IInv, IInv', PaymentsDue, [Next]_vars  PROVE PaymentsDue'
      OBVIOUS
    <2>1. CASE \E c \in Clients : Commit(c) \/ RecordPayment(c)
      BY <2>1, CommitDue, RecordPaymentDue
    <2>2. CASE ~ \E c \in Clients : Commit(c) \/ RecordPayment(c)
      BY <2>2, OnlyCommitPays, DueShrinks DEF IInv
    <2>. QED  BY <2>1, <2>2
  <1>3. IInv /\ PaymentsDue => PaymentsAreBacked
    <2>. SUFFICES ASSUME IInv, PaymentsDue, NEW u \in Users  PROVE paid[u] <= purchased[u]
      BY DEF PaymentsAreBacked
    <2>1. IsFiniteSet(Due(u)) /\ paid[u] + Cardinality(Due(u)) <= purchased[u]
      BY DEF PaymentsDue
    <2>. QED  BY <2>1, FS_CardinalityType DEF IInv, TypeOK
  <1>. QED  BY <1>1, <1>2, <1>3, Invariance, PTL DEF Spec

-----------------------------------------------------------------------------
LEMMA CommitIsPosting ==
  ASSUME IInv, NEW c \in Clients, Commit(c)  PROVE Journal!Posting
  <1>1. req[c] \in Requests
    BY CommitFacts
  <1>. DEFINE from == req[c].from  to == req[c].to
  <1>2. from \in Users /\ to \in Users
    BY <1>1, RequestFields
  <1>3. \A v \in Users \ {from, to} : Journal!Untouched(v)
    BY <1>1, CommitAt, Entries
    DEF Touched, Journal!Untouched, Journal!Gained, Journal!Spent
  <1>4. ASSUME NEW v \in {from, to} PROVE Journal!Entered(v)
    BY <1>2, <1>4, CommitAt DEF Touched, Journal!Entered
  <1>5. ASSUME NEW v \in {from, to}
        PROVE  Journal!Gained(v) = Up(req[c], v) /\ Journal!Spent(v) = Down(req[c], v)
    BY <1>1, <1>2, <1>5, CommitAt, Entries DEF Journal!Gained, Journal!Spent
  <1>6. CASE req[c].kind = "TRANSFER"
    <2>1. from # to
      BY <1>1, <1>6 DEF Requests
    <2>2. Down(req[c], from) = req[c].amount /\ Up(req[c], from) = 0
      BY <1>1, <1>2, <1>6, RequestFields DEF Down, Up, Debits
    <2>3. Up(req[c], to) = req[c].amount /\ Down(req[c], to) = 0
      BY <1>1, <1>2, <2>1 DEF Down, Up, Touched
    <2>. QED
      BY <1>1, <1>2, <1>3, <1>4, <1>5, <2>1, <2>2, <2>3, RequestFields
      DEF Journal!Posting, Journal!PostDebit, Journal!PostCredit
  <1>7. CASE req[c].kind # "TRANSFER"
    <2>1. from = to
      BY <1>1, <1>7 DEF Requests
    <2>2. \/ Up(req[c], from) > 0 /\ Down(req[c], from) = 0
          \/ Down(req[c], from) > 0 /\ Up(req[c], from) = 0
      BY <1>1, <1>2, Entries DEF Touched
    <2>. QED
      BY <1>2, <1>3, <1>4, <1>5, <2>1, <2>2
      DEF Journal!Posting, Journal!PostDebit, Journal!PostCredit
  <1>. QED  BY <1>6, <1>7

(* The service implements the journal: every step of a request is a whole   *)
(* posting or changes no balance and no ledger row.                         *)
THEOREM ImplementsJournal == Spec => PostsWholly
  <1>1. Init => Journal!Init
    BY DEF Init, Journal!Init
  <1>2. IInv /\ [Next]_vars => [Journal!Posting]_(Journal!vars)
    <2>. SUFFICES ASSUME IInv, [Next]_vars, ~ UNCHANGED Journal!vars
                  PROVE  Journal!Posting
      OBVIOUS
    <2>1. PICK c \in Clients : Commit(c)
      BY OnlyCommitPosts DEF Journal!vars
    <2>. QED  BY <2>1, CommitIsPosting
  <1>. QED  BY <1>1, <1>2, Invariance, PTL DEF Spec, PostsWholly, Journal!Spec
=============================================================================
