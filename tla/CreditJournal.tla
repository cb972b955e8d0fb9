--------------------------- MODULE CreditJournal ---------------------------
(***************************************************************************)
(* What the Zoom credit tables promise to everybody who reads them: the    *)
(* balances and the ledger rows change together, in one step, by postings. *)
(* A posting concerns one account, or the two accounts of a transfer whose *)
(* outbound and inbound rows carry the same amount.  The promise says      *)
(* nothing of WHICH earlier balance a posting started from: the service    *)
(* does not control that (see CreditLedger).                               *)
(***************************************************************************)
EXTENDS Integers

CONSTANTS Users

VARIABLES
  balance,    \* ZoomCreditBalance.balance, 0 while the user has no row
  credited,   \* sum of the user's CREDIT and TRANSFER_IN ledger rows
  debited,    \* sum of the user's DEBIT and TRANSFER_OUT ledger rows
  running     \* runningBalance of the user's newest ledger row

vars == <<balance, credited, debited, running>>

Init ==
  /\ balance  = [u \in Users |-> 0]
  /\ credited = [u \in Users |-> 0]
  /\ debited  = [u \in Users |-> 0]
  /\ running  = [u \in Users |-> 0]

Gained(u) == credited'[u] - credited[u]
Spent(u)  == debited'[u] - debited[u]

Untouched(u) ==
  /\ balance'[u] = balance[u]
  /\ running'[u] = running[u]
  /\ Gained(u) = 0
  /\ Spent(u) = 0

(* The newest ledger row of an account in a posting shows its new balance. *)
Entered(u) ==
  /\ balance'[u] >= 0
  /\ running'[u] = balance'[u]

PostCredit(u) == Entered(u) /\ Gained(u) > 0 /\ Spent(u) = 0
PostDebit(u)  == Entered(u) /\ Spent(u) > 0 /\ Gained(u) = 0

Posting ==
  \/ \E u \in Users :
       /\ PostCredit(u) \/ PostDebit(u)
       /\ \A v \in Users \ {u} : Untouched(v)
  \/ \E from, to \in Users :
       /\ from # to
       /\ PostDebit(from) /\ PostCredit(to)
       /\ Spent(from) = Gained(to)
       /\ \A v \in Users \ {from, to} : Untouched(v)

Spec == Init /\ [][Posting]_vars
=============================================================================
