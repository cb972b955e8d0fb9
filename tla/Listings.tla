------------------------------- MODULE Listings -------------------------------
(***************************************************************************)
(* A client walks through the pages of a listing while the rows change.    *)
(*                                                                         *)
(* Every listing of the API is read by offset: a request finds out what    *)
(* the viewer may see, reads one page of the rows he may see and counts    *)
(* them, and the answer says whether there is a next page.  Each request   *)
(* reads anew.  The rows are those of one academy and the users around it, *)
(* and a row is known by its place in the order and by the tags that the   *)
(* listings ask for.                                                       *)
(*                                                                         *)
(* Names StoredFiles has, too, differ here: the two are proved about in    *)
(* one module.                                                             *)
(***************************************************************************)
EXTENDS Integers, FiniteSets, SequencesExt

CONSTANTS
  Kinds,       \* the listings that may be walked
  PageSize,    \* rows of a page
  MaxRows,     \* bound: rows that ever exist
  MaxChanges   \* bound: changes of the rows or of the viewer in a behavior

AllKinds == {"users", "byRole", "classes", "resources", "payments", "members",
             "memberships", "directory", "academies", "recordings", "billing",
             "subscriptions", "coupons", "contact", "notifications", "credits", "audit"}

ASSUME ListingsAssumption ==
  /\ Kinds \subseteq AllKinds
  /\ {PageSize, MaxRows, MaxChanges} \subseteq Nat \ {0} /\ MaxRows >= 2

(* Who may call each listing; "any" where the role makes no difference.     *)
Viewers(k) ==
  CASE k \in {"byRole", "classes", "resources"} -> {"admin", "owner", "teacher", "student"}
    [] k \in {"users", "payments", "recordings"} -> {"admin", "owner"}
    [] k \in {"members", "audit"} -> {"owner"}
    [] k \in {"memberships", "directory", "notifications", "credits"} -> {"any"}
    [] OTHER -> {"admin"}

(* What a row can be to the viewer: a row of his academy ("home"), a user   *)
(* approved in it, his own, shared with the academy, of a class of his, and *)
(* one that meets the filters of the query ("asked").                       *)
Tags(k) ==
  CASE k \in {"users", "byRole"} -> {"home", "approved", "mine"}
    [] k = "classes" -> {"home", "asked"}
    [] k = "resources" -> {"home", "mine", "shared", "class"}
    [] k \in {"payments", "memberships", "credits"} -> {"mine"}
    [] k \in {"members", "recordings", "audit"} -> {"home"}
    [] k = "notifications" -> {"mine", "asked"}
    [] OTHER -> {"asked"}
Fixed == {"home", "mine"}

(* Listings ordered by a key that can change, those where a new row can have *)
(* any key, and those whose rows stay.                                      *)
Movable == {"classes", "directory", "members", "memberships"}
Keyed == {"classes", "directory", "recordings"}
Permanent == {"coupons", "contact", "notifications", "credits", "audit"}

Ids == 1 .. MaxRows
Keys == 1 .. MaxRows + 1

VARIABLES
  kind, role,     \* the listing, and who walks it
  standing,       \* the viewer's academy or membership: none, unapproved, approved
  rows,           \* the rows; of two, the one with the greater at is listed first
  page, stage, query,  \* the request being served
  seen, last,     \* history: ids the walk returned, and those of the last page
  steady,         \* history: ids visible ever since the walk began
  causes,         \* history: what happened to the visible rows during the walk
  fresh,          \* history: nothing changed since the last request began
  changes         \* bound: changes so far

world == <<standing, rows>>
walk == <<page, stage, query>>
listHistory == <<seen, last, steady, causes, fresh>>
listVars == <<kind, role, world, walk, listHistory, changes>>

AllTags == {"home", "approved", "mine", "shared", "class", "asked"}
Row == [id : Ids, at : Keys, tags : SUBSET AllTags]
NoQuery == [scope |-> "unread", items |-> <<>>, fetched |-> FALSE, total |-> -1]

-----------------------------------------------------------------------------
(* What the viewer's standing opens to him: everything, his academy's rows, *)
(* nothing, or an error.                                                    *)
Scopes == {"all", "home", "none", "refused"}

(* An owner's academy counts once it is approved, as a membership does.     *)
GetAccessibleAcademyScope ==
  CASE role = "admin" -> "all"
    [] role # "admin" /\ standing = "approved" -> "home"
    [] OTHER -> "none"

(* ClassesService: an owner's academy counts whatever its status.           *)
ResolveAccessibleAcademyIds ==
  CASE role = "admin" -> "all"
    [] role = "owner" /\ standing # "none" -> "home"
    [] role \in {"teacher", "student"} /\ standing = "approved" -> "home"
    [] OTHER -> "none"

(* ResourcesService has the same of its own. *)
ResolveAccessibleAcademyIdsForRole ==
  IF role = "admin" THEN "all"
  ELSE IF standing = "approved" \/ (role = "owner" /\ standing = "unapproved") THEN "home"
  ELSE "none"

RequireOwnerAcademy == IF standing = "approved" THEN "home" ELSE "refused"

AcademyOfOwner ==
  CASE role = "admin" -> "all"
    [] role = "owner" /\ standing # "none" -> "home"
    [] OTHER -> "refused"

(* The teacher whose credits are audited is the standing here.              *)
AssertTeacherBelongsToAcademy == IF standing = "approved" THEN "home" ELSE "refused"

ScopeOf ==
  CASE kind \in {"users", "byRole"} -> GetAccessibleAcademyScope
    [] kind = "classes" -> ResolveAccessibleAcademyIds
    [] kind = "resources" -> ResolveAccessibleAcademyIdsForRole
    [] kind = "members" -> RequireOwnerAcademy
    [] kind = "recordings" -> AcademyOfOwner
    [] kind = "audit" -> AssertTeacherBelongsToAcademy
    [] OTHER -> "all"

With(tag) == {r \in rows : tag \in r.tags}
InScope(scope) == CASE scope = "all" -> rows [] scope = "home" -> With("home") [] OTHER -> {}

-----------------------------------------------------------------------------
(* The rows each listing finds. *)

(* Mutation: a pending member of the viewer's academy is found as well.     *)
BuildScopedWhere_pending(scope) ==
  CASE scope = "home" -> With("home") \cup With("mine")
    [] OTHER -> InScope(scope)
(* A viewer without a scope does not even find himself.                     *)
BuildScopedWhere(scope) ==
  CASE scope = "home" -> With("approved") \cup With("mine")
    [] OTHER -> InScope(scope)

FindAllUsers(scope) == BuildScopedWhere(scope)
FindByRole(scope) == BuildScopedWhere(scope)

FindAllClasses(scope) == InScope(scope) \cap With("asked")

AccessFilter ==
  CASE role = "admin" -> rows
    [] role = "owner" -> With("mine") \cup With("shared")
    [] role = "teacher" -> With("mine") \cup With("class") \cup With("shared")
    [] OTHER -> With("class") \cup With("shared")

FindAllResources(scope) == InScope(scope) \cap AccessFilter

FindAllPayments == IF role = "admin" THEN rows ELSE With("mine")

ListMembershipsForOwner(scope) == InScope(scope)
ListMembershipsForUser == With("mine")
ListDirectory == With("asked")
ListForAdmin == With("asked")
FindAllRecordings(scope) == InScope(scope)
ListPaymentsAdmin == With("asked")
ListSubscriptionsAdmin == With("asked")
ListCoupons == With("asked")
ListContactMessages == With("asked")
ListNotifications == With("mine") \cap With("asked")
GetTransactions == With("mine")
GetTeacherCreditAuditLog(scope) == InScope(scope)

Find(scope) ==
  CASE kind = "users" -> FindAllUsers(scope)
    [] kind = "byRole" -> FindByRole(scope)
    [] kind = "classes" -> FindAllClasses(scope)
    [] kind = "resources" -> FindAllResources(scope)
    [] kind = "payments" -> FindAllPayments
    [] kind = "members" -> ListMembershipsForOwner(scope)
    [] kind = "memberships" -> ListMembershipsForUser
    [] kind = "directory" -> ListDirectory
    [] kind = "academies" -> ListForAdmin
    [] kind = "recordings" -> FindAllRecordings(scope)
    [] kind = "billing" -> ListPaymentsAdmin
    [] kind = "subscriptions" -> ListSubscriptionsAdmin
    [] kind = "coupons" -> ListCoupons
    [] kind = "contact" -> ListContactMessages
    [] kind = "notifications" -> ListNotifications
    [] kind = "credits" -> GetTransactions
    [] kind = "audit" -> GetTeacherCreditAuditLog(scope)

(* The total of the notifications leaves the query's filter out.            *)
Count(scope) == Cardinality(IF kind = "notifications" THEN With("mine") ELSE Find(scope))

(* Listings that count with a query of its own, not in one transaction.     *)
CountedApart == {"recordings", "billing", "subscriptions", "coupons", "contact", "notifications"}

Visible == Find(ScopeOf)
IdsOf(R) == {r.id : r \in R}

-----------------------------------------------------------------------------
(* Whether the viewer can open a row he was shown. *)

(* Teachers and students open themselves alone, as the controller has it.   *)
Elevated == {"admin", "owner"}
FindOneUser(r) ==
  \/ "mine" \in r.tags
  \/ role = "admin"
  \/ role \in Elevated /\ GetAccessibleAcademyScope = "home" /\ "approved" \in r.tags

EnsureAcademyAccess(r) == r \in InScope(ResolveAccessibleAcademyIds)
FindOneResource(r) == r \in InScope(ResolveAccessibleAcademyIdsForRole) \cap AccessFilter

CanOpen(r) ==
  CASE kind \in {"users", "byRole"} -> FindOneUser(r)
    [] kind = "classes" -> EnsureAcademyAccess(r)
    [] kind = "resources" -> FindOneResource(r)
    [] OTHER -> TRUE

-----------------------------------------------------------------------------
(* Two rows to begin with, the younger first and the older of the viewer's  *)
(* academy, if rows are.  A user approved in the academy belongs to it, and *)
(* a resource has one other tag at most.                                    *)
Sensible(tags) ==
  /\ "approved" \in tags => "home" \in tags
  /\ kind = "resources" => Cardinality(tags \ {"home"}) <= 1

(* The standing of an administrator, or where roles make no difference, is  *)
(* never asked for.                                                         *)
Standings == IF role \in {"admin", "any"} THEN {"approved"} ELSE {"none", "unapproved", "approved"}

ListInit ==
  /\ kind \in Kinds /\ role \in Viewers(kind)
  /\ standing \in Standings
  /\ \E one, two \in SUBSET Tags(kind), top \in {1, 2} :
       /\ Sensible(one) /\ Sensible(two)
       /\ "home" \in Tags(kind) => "home" \in two
       /\ rows = {[id |-> 1, at |-> top, tags |-> one], [id |-> 2, at |-> 1, tags |-> two]}
  /\ page = 1 /\ stage = "idle" /\ query = NoQuery
  /\ seen = {} /\ last = {} /\ steady = {} /\ causes = {} /\ fresh = FALSE
  /\ changes = 0

(* The walk. *)

Ask ==
  /\ stage = "idle"
  /\ stage' = "asked"
  /\ steady' = IdsOf(Visible)
  /\ UNCHANGED <<kind, role, world, page, query, seen, last, causes, fresh, changes>>

ReadScope ==
  /\ stage = "asked"
  /\ stage' = CASE ScopeOf = "refused" -> "refused"
             [] ScopeOf # "refused" /\ kind \in CountedApart -> "apart"
             [] OTHER -> "together"
  /\ query' = [NoQuery EXCEPT !.scope = ScopeOf]
  /\ last' = {} /\ fresh' = TRUE
  /\ UNCHANGED <<kind, role, world, page, seen, steady, causes, changes>>

(* The orders the database may return a set of rows in: rows with the same  *)
(* key in any order, and not the same order each time.                      *)
Orders(R) == {s \in SetToSeqs(R) : \A i, j \in 1 .. Len(s) : i < j => s[i].at >= s[j].at}
Tied(R) == \E r, s \in R : r # s /\ r.at = s.at

(* Mutation: pages are numbered from zero. *)
Skip_zero == page * PageSize
Skip == (page - 1) * PageSize
PageOf(order) == IF Skip >= Len(order) THEN <<>> ELSE SubSeq(order, Skip + 1,
                   IF Skip + PageSize <= Len(order) THEN Skip + PageSize ELSE Len(order))

Fetched(r) == \E order \in Orders(Find(r.scope)) :
                query' = [r EXCEPT !.items = PageOf(order), !.fetched = TRUE]
NoteTies(R) == causes' = causes \cup (IF Tied(R) THEN {"tie"} ELSE {})
Read == UNCHANGED <<kind, role, world, page, seen, last, steady, fresh, changes>>

(* One transaction, in which both queries see the same rows. *)
ReadPage ==
  /\ stage = "together"
  /\ Fetched([query EXCEPT !.total = Count(query.scope)])
  /\ NoteTies(Find(query.scope))
  /\ stage' = "read" /\ Read

FetchRows ==
  /\ stage = "apart" /\ ~ query.fetched
  /\ Fetched(query) /\ NoteTies(Find(query.scope))
  /\ UNCHANGED stage /\ Read

CountRows ==
  /\ stage = "apart" /\ query.total < 0
  /\ query' = [query EXCEPT !.total = Count(query.scope)]
  /\ UNCHANGED <<stage, causes>> /\ Read

(* totalPages and nextPage; the client asks for the next page if there is   *)
(* one.                                                                     *)
HasNextPage == page * PageSize < query.total

Answer ==
  /\ stage = "read" \/ (stage = "apart" /\ query.fetched /\ query.total >= 0)
  /\ last' = {query.items[i] : i \in DOMAIN query.items}
  /\ seen' = seen \cup IdsOf(last')
  /\ query' = NoQuery
  /\ IF HasNextPage THEN stage' = "asked" /\ page' = page + 1 ELSE stage' = "done" /\ UNCHANGED page
  /\ UNCHANGED <<kind, role, world, steady, causes, fresh, changes>>

-----------------------------------------------------------------------------
(* What the rest of the system does to the rows and to the viewer during    *)
(* the walk.                                                                *)

Noted(cause) ==
  /\ stage \notin {"idle", "done", "refused"}
  /\ changes < MaxChanges /\ changes' = changes + 1
  /\ UNCHANGED <<kind, role, walk, seen, last>>
  /\ steady' = steady \cap IdsOf(Visible')
  /\ causes' = causes \cup cause
       \cup (IF IdsOf(Visible) \subseteq IdsOf(Visible') THEN {} ELSE {"removed"})
       \cup (IF IdsOf(Visible') \subseteq IdsOf(Visible) THEN {} ELSE {"inserted"})
  /\ fresh' = FALSE

NewKeys == IF kind \in Keyed THEN Keys ELSE {k \in Keys : \A r \in rows : k >= r.at}
Insert(tags) ==
  /\ Sensible(tags)
  /\ \E i \in Ids \ IdsOf(rows), k \in NewKeys :
       rows' = rows \cup {[id |-> i, at |-> k, tags |-> tags]}
  /\ UNCHANGED standing /\ Noted({})

(* The rows in R lose the tags in lost and gain those in gained. *)
Retag(R, lost, gained) ==
  /\ rows' = (rows \ R) \cup {[r EXCEPT !.tags = (@ \ lost) \cup gained] : r \in R}
  /\ UNCHANGED standing /\ Noted({})

(* A row is created, its status or visibility is changed, it is given       *)
(* another key, it is deleted.                                              *)
Create == kind # "notifications" /\ \E tags \in SUBSET Tags(kind) : Insert(tags)
Edit ==
  /\ kind \notin {"notifications", "contact"}
  /\ \E r \in rows, tag \in Tags(kind) \ Fixed :
       LET added == {tag} \ r.tags IN
       Sensible((r.tags \ {tag}) \cup added) /\ Retag({r}, {tag}, added)
Move ==
  /\ kind \in Movable
  /\ \E r \in rows, k \in NewKeys :
       k # r.at /\ rows' = (rows \ {r}) \cup {[r EXCEPT !.at = k]}
  /\ UNCHANGED standing /\ Noted({"moved"})
Delete ==
  /\ kind \notin Permanent
  /\ \E r \in rows : rows' = rows \ {r}
  /\ UNCHANGED standing /\ Noted({})

(* Notifications: a new one is unread; they are read one by one or at once. *)
Notify == kind = "notifications" /\ \E mine \in SUBSET {"mine"} : Insert(mine \cup {"asked"})
MarkRead ==
  /\ kind = "notifications"
  /\ \E r \in With("mine") \cap With("asked") : Retag({r}, {"asked"}, {})
MarkAllRead ==
  /\ kind = "notifications"
  /\ Retag(With("mine") \cap With("asked"), {"asked"}, {})

(* Contact messages: an administrator sets any status at any time.          *)
UpdateContactStatus ==
  /\ kind = "contact"
  /\ \E r \in rows, tags \in SUBSET {"asked"} : Retag({r}, {"asked"}, tags)

SetStanding ==
  /\ \E s \in Standings \ {standing} : standing' = s
  /\ UNCHANGED rows /\ Noted({})

World == Create \/ Edit \/ Move \/ Delete \/ Notify \/ MarkRead \/ MarkAllRead
           \/ UpdateContactStatus \/ SetStanding

ListNext == Ask \/ ReadScope \/ ReadPage \/ FetchRows \/ CountRows \/ Answer \/ World

ListSpec == ListInit /\ [][ListNext]_listVars

-----------------------------------------------------------------------------
(* What the walk and the rows hold. *)
ListTypeOK ==
  /\ kind \in Kinds /\ role \in Viewers(kind) /\ standing \in Standings
  /\ rows \subseteq Row /\ \A r, s \in rows : r.id = s.id => r = s
  /\ page \in Nat \ {0}
  /\ stage \in {"idle", "asked", "together", "apart", "read", "done", "refused"}
  /\ query \in [scope : Scopes \cup {"unread"}, items : Seq(Row), fetched : BOOLEAN,
                total : -1 .. MaxRows]
  /\ Len(query.items) <= PageSize
  /\ last \subseteq Row /\ seen \subseteq Ids /\ steady \subseteq Ids
  /\ causes \subseteq {"removed", "inserted", "moved", "tie"}
  /\ fresh \in BOOLEAN /\ changes \in 0 .. MaxChanges

(* What can make a walk miss rows: a row before the page is gone or moved,  *)
(* or keys are equal.  Where the count is a query of its own, so can a row  *)
(* that came: it pushes others down, past a last page counted before.      *)
Excuses == {"removed", "moved", "tie"} \cup (IF kind \in CountedApart THEN {"inserted"} ELSE {})

(* A walk to the last page returns every row that was visible all along,    *)
(* unless one of the excuses happened; an insertion alone is none where the *)
(* page and the count are read in one transaction.                          *)
WalkIsComplete == stage = "done" /\ causes \cap Excuses = {} => steady \subseteq seen

(* A viewer can open what he was shown, as long as nothing changed since:   *)
(* the listing and the opening of a row, which decide by queries of their   *)
(* own, agree on who may see it.  Users are opened by administrators and    *)
(* owners only.                                                             *)
ListedCanBeOpened ==
  /\ fresh /\ stage \in {"asked", "done"}
  /\ kind = "byRole" => role \in Elevated
  => \A r \in last : CanOpen(r)
=============================================================================
