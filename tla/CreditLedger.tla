---------------------------- MODULE CreditLedger ----------------------------
(***************************************************************************)
(* The Zoom credit ledger: adjustCredits, transferCredits, purchaseCredits *)
(* and getSummary of ZoomCreditsService, and the increment by which a      *)
(* Stripe checkout and the owner's welcome grant add credits to the same   *)
(* ZoomCreditBalance row.                                                  *)
(*                                                                         *)
(* Every request runs in an interactive Prisma transaction on MySQL/InnoDB *)
(* at its default isolation level, REPEATABLE READ: the first SELECT fixes *)
(* the snapshot the request computes from, a write locks its row until the *)
(* transaction ends, reads never wait, and a cycle of waiting transactions *)
(* is broken by rolling one of them back.  Prisma's upsert is a SELECT     *)
(* followed by an INSERT when the row is missing from the snapshot, so the *)
(* INSERT may collide with a row committed meanwhile (P2002).              *)
(***************************************************************************)
EXTENDS Integers, FiniteSets

CONSTANTS
  Users,         \* accounts
  Clients,       \* requests the servers run concurrently
  Amounts,       \* positive amounts a request may carry
  MaxRequests,   \* bound: requests begun in a behavior
  NoClient,      \* holder of a row nobody has locked
  NoRequest      \* request of an idle client

ASSUME ConstantsAssumption ==
  /\ Amounts \subseteq Nat \ {0}
  /\ MaxRequests \in Nat
  /\ NoClient \notin Clients

VARIABLES
  \* the committed tables
  rows,       \* users that have a ZoomCreditBalance row
  balance,    \* ZoomCreditBalance.balance, 0 while the user has no row
  credited,   \* sum of the user's CREDIT and TRANSFER_IN ledger rows
  debited,    \* sum of the user's DEBIT and TRANSFER_OUT ledger rows
  running,    \* runningBalance of the user's newest ledger row
  purchased,  \* sum of the user's ledger rows of source "purchase"
  paid,       \* sum of the user's internal Payment rows
  \* the database's lock on each balance row
  lock,
  \* the requests in progress
  pc,         \* "idle", "open" (transaction open) or "paying"
  req,        \* the request
  seen,       \* balances of its snapshot
  missing,    \* rows its snapshot lacks and it has yet to insert
  written,    \* rows it has updated, uncommitted
  value,      \* the balances it has written there
  begun       \* requests begun so far (bounds the model)

tables  == <<rows, balance, credited, debited, running>>
session == <<pc, req, seen, missing, written, value>>
vars    == <<tables, purchased, paid, lock, session, begun>>

-----------------------------------------------------------------------------
(* Requests.  A transfer to oneself is refused before anything is read.    *)

OneAccount == {"CREDIT", "DEBIT", "PURCHASE", "GRANT"}
Requests ==
  {r \in [kind : OneAccount \cup {"TRANSFER"}, from : Users, to : Users,
          amount : Amounts] : r.kind = "TRANSFER" <=> r.from # r.to}

Touched(r) == {r.from, r.to}
Debits(r)  == r.kind \in {"DEBIT", "TRANSFER"}

(* The ledger rows a request writes for a user, by the column of getSummary *)
(* they add to: the debited account of a debit or transfer, the credited    *)
(* account of everything else.                                              *)
(* Mutation: debits entered as negative amounts. *)
Down_signed(r, u) == IF Debits(r) /\ u = r.from THEN -r.amount ELSE 0
Down(r, u) == IF Debits(r) /\ u = r.from THEN r.amount ELSE 0
Up(r, u)   == IF u \in Touched(r) /\ Down(r, u) = 0 THEN r.amount ELSE 0

(* `updatedBalance`: computed in the service from the snapshot.            *)
Computed(c, u) == seen[c][u] + Up(req[c], u) - Down(req[c], u)

(* Mutation: the increment replaced by a computed, absolute balance. *)
WrittenBalance_computed(c, u) == Computed(c, u)
(* The UPDATE: `balance: { increment }` adds to the row as it is now, while *)
(* `balance: updatedBalance` overwrites it with the computed value.         *)
WrittenBalance(c, u) ==
  IF req[c].kind = "GRANT" THEN balance[u] + Up(req[c], u) ELSE Computed(c, u)

(* Mutation: runningBalance derived from the balance read at the start. *)
RunningBalance_computed(c, u) == Computed(c, u)
(* runningBalance of the ledger row: an increment re-reads the row it has   *)
(* just updated, the others reuse the computed value.                       *)
RunningBalance(c, u) ==
  IF req[c].kind = "GRANT" THEN value[c][u] ELSE Computed(c, u)

(* Mutation: the overdraft check removed. *)
Insufficient_never(c) == FALSE
Insufficient(c) == Debits(req[c]) /\ seen[c][req[c].from] < req[c].amount

-----------------------------------------------------------------------------
Init ==
  /\ rows = {}
  /\ balance   = [u \in Users |-> 0]
  /\ credited  = [u \in Users |-> 0]
  /\ debited   = [u \in Users |-> 0]
  /\ running   = [u \in Users |-> 0]
  /\ purchased = [u \in Users |-> 0]
  /\ paid      = [u \in Users |-> 0]
  /\ lock      = [u \in Users |-> NoClient]
  /\ pc        = [c \in Clients |-> "idle"]
  /\ req       = [c \in Clients |-> NoRequest]
  /\ seen      = [c \in Clients |-> [u \in Users |-> 0]]
  /\ missing   = [c \in Clients |-> {}]
  /\ written   = [c \in Clients |-> {}]
  /\ value     = [c \in Clients |-> [u \in Users |-> 0]]
  /\ begun = 0

(* The request is over for the database: it holds no lock, and if no        *)
(* payment is left to record its client is idle again.                      *)
EndTransaction(c, next) ==
  /\ pc' = [pc EXCEPT ![c] = next]
  /\ req' = IF next = "idle" THEN [req EXCEPT ![c] = NoRequest] ELSE req
  /\ seen' = [seen EXCEPT ![c] = [u \in Users |-> 0]]
  /\ missing' = [missing EXCEPT ![c] = {}]
  /\ written' = [written EXCEPT ![c] = {}]
  /\ value' = [value EXCEPT ![c] = [u \in Users |-> 0]]
  /\ lock' = [u \in Users |-> IF lock[u] = c THEN NoClient ELSE lock[u]]

Rollback(c) ==
  /\ pc[c] = "open"
  /\ EndTransaction(c, "idle")
  /\ UNCHANGED <<tables, purchased, paid, begun>>

(* The SELECTs of the upserts: the first one fixes the snapshot.           *)
Begin(c, r) ==
  /\ pc[c] = "idle"
  /\ begun < MaxRequests
  /\ begun' = begun + 1
  /\ pc' = [pc EXCEPT ![c] = "open"]
  /\ req' = [req EXCEPT ![c] = r]
  /\ seen' = [seen EXCEPT ![c] = [u \in Users |->
                                    IF u \in Touched(r) THEN balance[u] ELSE 0]]
  /\ missing' = [missing EXCEPT ![c] = Touched(r) \ rows]
  /\ UNCHANGED <<tables, purchased, paid, lock, written, value>>

(* The origin's row is ensured and updated before the destination's.       *)
OriginFirst(c, u, todo) == u \in todo /\ (u = req[c].from \/ req[c].from \notin todo)

NextMissing(c, u) == pc[c] = "open" /\ OriginFirst(c, u, missing[c])

(* The INSERT of an upsert; it waits for whoever holds the key.            *)
InsertRow(c, u) ==
  /\ NextMissing(c, u)
  /\ lock[u] = NoClient
  /\ u \notin rows
  /\ lock' = [lock EXCEPT ![u] = c]
  /\ missing' = [missing EXCEPT ![c] = @ \ {u}]
  /\ UNCHANGED <<tables, purchased, paid, pc, req, seen, written, value, begun>>

(* P2002: the row was committed since the snapshot; the request fails.     *)
InsertConflict(c, u) ==
  /\ NextMissing(c, u)
  /\ lock[u] = NoClient
  /\ u \in rows
  /\ Rollback(c)

(* "Insufficient credits": the throw rolls the transaction back.           *)
Refuse(c) ==
  /\ pc[c] = "open" /\ missing[c] = {} /\ written[c] = {}
  /\ Insufficient(c)
  /\ Rollback(c)

NextUpdate(c, u) ==
  /\ pc[c] = "open" /\ missing[c] = {}
  /\ ~ Insufficient(c)
  /\ OriginFirst(c, u, Touched(req[c]) \ written[c])

(* Mutation: rows updated without waiting for the holder of the lock. *)
UpdateRow_unlocked(c, u) ==
  /\ NextUpdate(c, u)
  /\ lock' = [lock EXCEPT ![u] = c]
  /\ written' = [written EXCEPT ![c] = @ \cup {u}]
  /\ value' = [value EXCEPT ![c][u] = WrittenBalance(c, u)]
  /\ UNCHANGED <<tables, purchased, paid, pc, req, seen, missing, begun>>
(* One UPDATE of a balance row, under its lock.                            *)
UpdateRow(c, u) ==
  /\ NextUpdate(c, u)
  /\ lock[u] \in {NoClient, c}
  /\ lock' = [lock EXCEPT ![u] = c]
  /\ written' = [written EXCEPT ![c] = @ \cup {u}]
  /\ value' = [value EXCEPT ![c][u] = WrittenBalance(c, u)]
  /\ UNCHANGED <<tables, purchased, paid, pc, req, seen, missing, begun>>

(* The ledger and audit rows are inserted and the transaction commits.     *)
Commit(c) ==
  /\ pc[c] = "open"
  /\ written[c] = Touched(req[c])
  /\ rows' = rows \cup written[c]
  /\ balance' = [u \in Users |-> IF u \in written[c] THEN value[c][u] ELSE balance[u]]
  /\ credited' = [u \in Users |-> credited[u] + Up(req[c], u)]
  /\ debited' = [u \in Users |-> debited[u] + Down(req[c], u)]
  /\ running' = [u \in Users |-> IF u \in written[c] THEN RunningBalance(c, u)
                                                     ELSE running[u]]
  /\ IF req[c].kind = "PURCHASE"
       THEN /\ purchased' = [purchased EXCEPT ![req[c].from] = @ + req[c].amount]
            /\ EndTransaction(c, "paying")
       ELSE /\ EndTransaction(c, "idle")
            /\ UNCHANGED purchased
  /\ UNCHANGED <<paid, begun>>

(* Mutation: the payment recorded while the credit is not yet committed. *)
RecordPayment_early(c) ==
  /\ pc[c] \in {"open", "paying"}
  /\ req[c].kind = "PURCHASE"
  /\ paid' = [paid EXCEPT ![req[c].from] = @ + req[c].amount]
  /\ EndTransaction(c, "idle")
  /\ UNCHANGED <<tables, purchased, begun>>
(* purchaseCredits, after its credit: the Payment row, written on its own. *)
RecordPayment(c) ==
  /\ pc[c] = "paying"
  /\ paid' = [paid EXCEPT ![req[c].from] = @ + req[c].amount]
  /\ EndTransaction(c, "idle")
  /\ UNCHANGED <<tables, purchased, begun>>

(* The process dies, the connection is lost or the transaction times out.  *)
Fail(c) ==
  /\ pc[c] # "idle"
  /\ EndTransaction(c, "idle")
  /\ UNCHANGED <<tables, purchased, paid, begun>>

(* getSummary creates the balance row it does not find.                    *)
GetSummary(u) ==
  /\ u \notin rows
  /\ lock[u] = NoClient
  /\ rows' = rows \cup {u}
  /\ UNCHANGED <<balance, credited, debited, running, purchased, paid, lock,
                 session, begun>>

-----------------------------------------------------------------------------
(* InnoDB's deadlock detection.  A cycle of waiting transactions is a set   *)
(* that its members' lock holders run through.                             *)

Wanted(c)  == {u \in Users : NextMissing(c, u) \/ NextUpdate(c, u)}
Holders(c) == {lock[u] : u \in Wanted(c)} \ {NoClient, c}
Cycle(D) ==
  /\ D # {}
  /\ \A c \in D : Holders(c) # {}
  /\ UNION {Holders(c) : c \in D} = D

(* Mutation: nobody breaks the cycle. *)
DeadlockVictim_none(c) == FALSE /\ Rollback(c)
DeadlockVictim(c) ==
  /\ \E D \in SUBSET Clients : c \in D /\ Cycle(D)
  /\ Rollback(c)

Proceed(c) ==
  \/ \E u \in Users : InsertRow(c, u) \/ InsertConflict(c, u) \/ UpdateRow(c, u)
  \/ Refuse(c)
  \/ Commit(c)
  \/ RecordPayment(c)

Next ==
  \/ \E c \in Clients, r \in Requests : Begin(c, r)
  \/ \E c \in Clients : Proceed(c) \/ DeadlockVictim(c) \/ Fail(c)
  \/ \E u \in Users : GetSummary(u)

(* The event loop and the database keep running a request they have begun   *)
(* and InnoDB keeps looking for deadlocks; nobody has to send a request and *)
(* nothing has to fail.                                                     *)
Fairness == \A c \in Clients : WF_vars(Proceed(c)) /\ WF_vars(DeadlockVictim(c))

Spec == Init /\ [][Next]_vars /\ Fairness

-----------------------------------------------------------------------------
(* What the tables and the requests in progress hold. *)
TypeOK ==
  /\ rows \subseteq Users
  /\ balance \in [Users -> Int]
  /\ credited \in [Users -> Nat]
  /\ debited \in [Users -> Nat]
  /\ running \in [Users -> Int]
  /\ purchased \in [Users -> Nat]
  /\ paid \in [Users -> Nat]
  /\ lock \in [Users -> Clients \cup {NoClient}]
  /\ pc \in [Clients -> {"idle", "open", "paying"}]
  /\ req \in [Clients -> Requests \cup {NoRequest}]
  /\ seen \in [Clients -> [Users -> Int]]
  /\ missing \in [Clients -> SUBSET Users]
  /\ written \in [Clients -> SUBSET Users]
  /\ value \in [Clients -> [Users -> Int]]
  /\ begun \in 0 .. MaxRequests

(* No interleaving of requests leaves a balance below zero: the check is    *)
(* made against the snapshot, and what is written is computed from the same *)
(* snapshot, so even a stale check cannot let the stored balance go down    *)
(* past zero (zoom-credits.service.ts, lines 52-66 and 120-134).            *)
BalanceNeverNegative == \A u \in Users : balance[u] >= 0

(* The newest ledger row of an account always shows the balance the account *)
(* has, whichever writers came last: computed and incremented balances, and *)
(* the runningBalance put beside them, agree under the row lock (lines      *)
(* 63-78, billing.service.ts lines 788-803).                                *)
LedgerShowsBalance == \A u \in Users : running[u] = balance[u]

(* A Payment row is only ever written for credits that were granted, even   *)
(* when requests fail between the credit and the payment (lines 218-242).   *)
PaymentsAreBacked == \A u \in Users : paid[u] <= purchased[u]

(* What a transaction has written it has written under the row's lock, from *)
(* a balance that sufficed, and an incremented row still has the balance    *)
(* the increment was added to: no other request commits in between.  This   *)
(* is what makes the two properties above inductive.                        *)
SessionConsistent(c) ==
  /\ pc[c] # "idle" => req[c] \in Requests
  /\ pc[c] # "open" => written[c] = {}
  /\ pc[c] = "open" /\ written[c] # {} => missing[c] = {} /\ ~ Insufficient(c)
  /\ \A u \in written[c] : /\ u \in Touched(req[c])
                           /\ lock[u] = c
                           /\ value[c][u] = WrittenBalance(c, u)
  /\ \A u \in Users : seen[c][u] >= 0
WritesUnderLock == \A c \in Clients : SessionConsistent(c)

IInv == TypeOK /\ BalanceNeverNegative /\ LedgerShowsBalance /\ WritesUnderLock

(* The ledger's own arithmetic: balance = totalCredited - totalDebited.     *)
Drift(u) == balance[u] - credited[u] + debited[u]

(* The balance and the sums of getSummary come apart in one way only: a     *)
(* request that computed its balance commits over a balance which is not    *)
(* the one it read.  Increments (Stripe, welcome grant) never do it, nor    *)
(* does any refusal, rollback or deadlock.                                  *)
StaleCommit(c, u) ==
  /\ pc[c] = "open" /\ pc'[c] # "open"
  /\ req[c].kind # "GRANT"
  /\ u \in written[c]
  /\ seen[c][u] # balance[u]
DriftNeedsStaleCommit ==
  [][\A u \in Users :
       Drift(u)' # Drift(u) => \E c \in Clients : StaleCommit(c, u)]_vars

(* The committed tables change by whole postings: never a balance without   *)
(* its ledger row, never one half of a transfer (CreditJournal).            *)
Journal == INSTANCE CreditJournal WITH
             Users <- Users, balance <- balance, credited <- credited,
             debited <- debited, running <- running
PostsWholly == Journal!Spec

(* Every request that has begun ends, transfers in opposite directions      *)
(* included, which lock the two balance rows in opposite orders.            *)
EveryRequestEnds == \A c \in Clients : pc[c] # "idle" ~> pc[c] = "idle"
=============================================================================
