# TLA+ models of the Q-Edu backend

The repository is the backend of a tutoring platform: a NestJS application over MySQL (through
Prisma), with Stripe for payments, Zoom for online classes, a local or cloud file store and SMTP.
Teachers and academy owners hold *Zoom credits*; scheduling a class creates a Zoom meeting and
spends credits; credits are bought through Stripe or granted; Stripe tells the backend about
payments through a webhook.

Every request is a chain of `await`s. Between two of them any other request may run, on this
process or on another one, and the process may die. Inside `prisma.$transaction` the database
protects the request; between a transaction, Zoom, Stripe and a second transaction nothing does.
These models are about what that leaves true.

Contents: [parts of the system](#parts-of-the-system) ·
[modules](#modules) · [runs](#runs-what-each-one-checks) · [fairness](#fairness) ·
[proofs](#proofs) · [where code and documentation differ](#where-code-and-documentation-differ) ·
[not modelled](#not-modelled) · [plan](#plan)

## Parts of the system

| Part (under `src/src/`) | State it keeps | Operations | What is hard | What makes it correct |
|---|---|---|---|---|
| `modules/zoom-credits` | `ZoomCreditBalance`, `ZoomCreditTransaction` (the ledger), `ZoomCreditAuditLog`, teacher limits and their history | adjust, transfer, purchase, summary, limits, listings | read-compute-overwrite under REPEATABLE READ; first-row collisions; two-row transfers that deadlock; a payment recorded after its credit; the old limit read outside the transaction | no negative balance; balance and ledger agree; nothing half posted; a payment has its credits; the history of limits is a chain |
| `modules/billing` (webhook) | `StripeWebhookEvent`, `Payment`, `Subscription`, `CouponRedemption` | one handler per Stripe event | at-least-once, concurrent and unordered delivery; a crash between recording the event and its effects | effects at most once; `processedAt` means done; the subscription row follows Stripe; every paid invoice has its payment |
| `modules/billing` (checkout, coupons, console) | `Coupon`, `StripeCustomer`, packages, plans | checkout, portal, refunds, cancellation, CRUD, listings, analytics | limits checked at checkout and counted at the webhook; Stripe and the table written apart; two customers made for one user | sessions belong to the customer on record; redemptions are earned; promotion codes follow the rows; refunds agree with Stripe |
| `modules/classes` | `Class`, `ClassParticipant` | create, update, cancel, end, recreate, remove, sync participants, listings | three stores (table, Zoom, credits) written one after the other, rows read long before they are written | no orphan or dangling meeting; a class is charged what it costs; Zoom and the class agree; the attendance is Zoom's report |
| `modules/zoom` | an access token with its expiry | meeting CRUD, participants report | retry after a 401, a token cache shared by all requests | a refused token is not used again |
| `modules/recordings` | `ClassRecording` | create, Zoom's "recording completed" hook, listings | redelivery; the class is looked up by a meeting id that `endClass` clears | a recording that was acknowledged is stored |
| `modules/academies` | `Academy`, `AcademyMembership` | onboarding, review, membership requests and decisions, listings | a limit counted outside the write; two requests for one membership | the limit holds; a stale decision lets nobody back in |
| `modules/users` | `User` | create (with academy, membership and welcome credits), update, status, photo, remove, listings | a chain of writes with a compensation; a rule about the last super admin checked by counting | a user is whole or absent; one super admin |
| `modules/auth` | `RefreshToken`, `PasswordResetToken`, `EmailVerificationToken` | login, register, refresh, logout, passwords, one-time codes | tokens read and then rotated or consumed; sessions deleted while others are issued | a refresh token is exchanged once; sessions do not outlive the password |
| `modules/resources`, `storage` | `Resource` and the stored file | create, update, remove, with upload; listings | the file and the row are written apart | a row names a file that exists; a file nobody names is gone |
| `modules/notifications`, `contact-messages`, `payments` | rows of their own | create, status, listings | lists read page by page while they change | a walk through the pages misses nothing |
| `modules/stripe` | – | SDK calls, fee arithmetic | calls that are carried out and not answered | – |
| `modules/platform-settings`, `academy-settings`, `dashboard`, `mail`, `bootstrap` | settings; the super admin and welcome coupon of start-up | upserts, aggregation, SMTP | a start while requests run | – |

How they interact. `classes` calls `zoom`, then its own table, then `zoom-credits` (as a debit) and
undoes the first two if the debit is refused. `zoom-credits` calls `payments` after a purchase.
`billing` and `users` bypass the `zoom-credits` service and increment the balance row themselves,
so three services write the same row in two different ways. `billing` calls `coupons` and, best
effort, `notifications`. `users` calls `academies` while it creates an owner, and writes
memberships itself when it changes a status. Zoom and Stripe call back through webhooks, at least
once and in any order.

## Modules

### `CreditLedger` and `CreditJournal` — `zoom-credits.service.ts`

`CreditLedger` models `adjustCredits`, `transferCredits`, `purchaseCredits` and `getSummary`, and
the two increments made elsewhere (`billing.service.ts` 783-827, `users.service.ts` 204-233). The
tables are functions on users: `balance` and `rows` (the `ZoomCreditBalance` rows), `credited` and
`debited` (the sums of ledger rows that `getSummary` computes), `running` (the `runningBalance` of
the newest ledger row), `purchased` and `paid`.

A request is a transaction in steps: `Begin` (the SELECTs of the upserts fix the snapshot),
`InsertRow` or `InsertConflict` for a row the snapshot lacks, `Refuse`, `UpdateRow` for each
balance row under its lock, `Commit`; `RecordPayment` follows a purchase on its own. `Fail` ends a
request anywhere. Two kinds of write are told apart because the code has two: `balance:
updatedBalance` overwrites the row with a value computed from the snapshot, `balance: { increment }`
adds to the row as it is. InnoDB and Prisma are modelled from how the code uses them: snapshot
reads that never wait, exclusive row locks kept to the end of the transaction, waiting as a
disabled action, and a deadlock victim chosen from any cycle of waits.

`CreditJournal` says what the ledger promises: the committed tables change by whole postings of
one credit, one debit or one credit with one debit, each leaving `running = balance` on the
accounts it touches. It promises nothing about the new balance itself, because the code does not
keep such a promise: two debits that read the same balance both commit.

### `BillingWebhook` — `stripe-webhook.controller.ts`, `billing.service.ts` 705-903, `coupons.service.ts` 303-323

Stripe's side is `Deliver`: at least once, twice at the same time, or again after an answer. The
controller may turn a delivery away before any handler sees it (`TurnAway`: no signature, no raw
body, or a signature that does not verify, because the secret is missing or was changed) and then
answers 200, `received: false`, so that Stripe does not try again. Otherwise a worker goes through `Claim` (the INSERT of the event id) or `SkipDuplicate`, then `Apply` (the
transaction of the package branch, or the payment of the subscription branch), `Redeem` or
`RedeemFails`, `MarkProcessed` and `Answer`. `Fail` is a thrown error, a crash or a lost answer.
`writes` counts what was committed per event; `interrupted`, `swallowed` and `turnedAway` are history
variables that say why something was not.

`Fulfilment` says what the webhook promises of each event on its own: it is taken once, by one
handler; what it grants is granted whole and once; after that a coupon is redeemed or waived, and
only then is the event processed; a handler that gave up is never resumed. It has no workers, no
deliveries and no retries: those are what `BillingWebhook` shows to make no difference.

### `ClassScheduling` — `classes.service.ts`

`row` is the `Class` table, `zoom` the meetings at Zoom (with the time each is set to), `balance`
and `charged` the credits. A meeting is identified with the class slot it was created for, and
`linked` says whether the row still names it (`zoomMeetingId`). A request reads its class once, in
`Create`, `Update`, `Cancel`, `EndClass`, `RecreateClass` or `Remove`, and keeps that copy; each
later step writes one store: `CreateMeeting`, `InsertRow`, `PatchMeeting`, `WriteRow`,
`DeleteMeeting`, `Charge`, `Refuse`, `Cleanup`. `Abort`, `AnswerLost`, `Swallow` and `ChargeError`
are the errors: a crash or a thrown error, a Zoom call carried out whose answer is lost, an error
the code logs and ignores, a debit that fails for another reason than the balance.

Left out because they touch none of these stores: permissions, the validation of teacher and
academy (a request is one that passed), participants and the other fields of the row. ONGOING is
treated by these operations exactly as UPCOMING; the instance uses UPCOMING. A debit is atomic here;
its interior is `CreditLedger`, whose lost updates change the balance, not the debits recorded for a
class.

`ClassLife` says what all these requests amount to for one class: a life that only goes forward
(made, offered, withdrawn, over), and one meeting, opened before the class is offered, there as long
as it is, closed after that and never opened again. It has no requests, no copies of rows and no
credits. A request that breaks off does not change the life it was not making; what it may cost is
the meeting: left over, or closed under a class that still offers it.

### `AcademyMembership` — `academies.service.ts`, `users.service.ts` 130-176 and 664-777, `zoom-credits.service.ts` 508-545

`academy`, `user` and `member` are the statuses of academies, accounts and memberships, `limit` the
platform setting, `creditLimit` the teacher limit. A request reads (`RequestMembership`,
`WithdrawMembership`, `UpdateMembershipStatus`, `EnrollMember`, `UpdateStatus`,
`SetTeacherCreditLimit`, `SubmitOwnerOnboarding`), perhaps counts (`CountOpen`) and reads again
(`FindMembership`), and stores in a later step. A membership that was withdrawn and requested again
has another id, which `born` stands for, so the UPDATE of a stale id fails. Owner and academy are
one, because `ownerId` is unique.

### `Accounts` — `users.service.ts` (create, update, remove), `academies.service.ts` 46-103, `super-admin.bootstrap.ts`

The chain of writes behind an account: user, academy, welcome grant, each found or made, with
`ProvisionError` and `UndoUser` for the compensation; `GetAcademyForOwner` for the requests that
make a missing academy; `Bootstrap` and `EnsureSuperAdmin` for a starting server. A grant is one
step, whose interior is `CreditLedger`'s GRANT.

### `AuthSessions` — `auth.service.ts`, `jwt.strategy.ts`

`sessions` are the refresh tokens, `reset` and `verify` the codes, `pw` the version of the
password. `Refresh` reads a token, `InvalidateToken` deletes it (and fails if it is gone),
`IssueToken` inserts the new one; `CommitPassword` is the transaction that writes the password and
deletes the sessions. A token remembers, as history, the password its first login was checked with,
and whether a password change overtook the request that issued it.

### `Subscriptions` — `billing.service.ts` 348-370, 678-701, 905-1008

Stripe is a state machine of its own: `Subscribe`, `Change`, `Collect` and `ChargeFails` change a
subscription and emit snapshots and invoices, which reach a handler in any order. The handlers
`OnSubscriptionEvent`, `OnInvoicePaid` and `OnInvoiceFailed` read the row in one step and write it
in another; a cancellation calls Stripe in between. What Stripe may do is external; that one event
takes effect at most once is `BillingWebhook`'s matter. Names the two modules would share begin with
`Sub` here, because `BillingProofs` extends both.

### `Checkout` — `billing.service.ts` 48-346 and 583-630, `coupons.service.ts`, `stripe.service.ts`

A checkout goes through `StartCheckout`, `CreateCustomer`, `SaveCustomer`, `ResolveForCheckout` and
`CreateCheckoutSession`; then the user pays, or not, and Stripe delivers. A coupon is a row and a
promotion code at Stripe, made and switched off one after the other (`SyncCoupon`, `InsertCoupon`,
`StoreCoupon`, `UpdatePromotionCode`). `create` swallows every error of its two calls to Stripe, the
loss of an answer included: then the code may work at Stripe while the row does not know it, and no
later edit can switch it off (`PromotionMade` puts this on record as `disturbed`). A refund asks Stripe first and then writes the payment.
Prices are two halves, enough to tell full, partial and repeated refunds apart.

### `StoredFiles` — `resources.service.ts`, `users.service.ts` 584-629, `storage.service.ts`

`named` is the file each row names, `disk` the files there are. An upload saves, writes the row and
drops the old file, or discards the new one when the row could not be written. A save that breaks off
(disk full, I/O error) leaves the truncated file it had created, under a name nobody keeps. `why`
records, per slot, what may have put rows and disk out of step, so that the properties can say
"unless".

### `ClassRecords` — `classes.service.ts` 880-949, `recordings.service.ts` 138-208, `zoom.service.ts` 105-293

What comes back from Zoom: `FetchPage` collects the report of a class, `ReplaceParticipants`
stores it in the place of the participants the class was created with (`invited`) or of an earlier
report. Who is in a report twice breaks the unique key, unless he is one of the `Guests`, for whom
Zoom gives nothing to fill the key with. `RecordingCompleted` and `SaveRecording` handle the announcement of a recording, which
Zoom repeats until it is answered 200. Every call to Zoom goes through the token cache
(`GetAccessToken`, `CacheToken`, `Refused`), which a restart empties. Whether a class still names
its meeting (`linked`) is decided in `ClassScheduling`, and `Unlink` stands for it. Where
`ClassScheduling` has classes, clients, `pc` and `req`, this module has `Meetings`, `Callers`,
`stage` and `task`, because `ClassesProofs` extends both.

### `Listings` — seventeen `findAll`/`list` methods

A client asks for the pages of one listing, one after the other. A request reads what the viewer
may see (`ReadScope`), then the page and the count, in one transaction (`ReadPage`) or as two
queries (`FetchRows`, `CountRows`, in either order), and answers whether there is a next page. Each
listing has its own definition of the rows it finds, and each "open one" endpoint its own rule.
Filters of the query (status, search, dates) are one tag, "asked"; the rows' contents are left out.
Between two steps a row may be created, edited, moved or deleted, and the viewer's standing may
change. Notifications and contact messages have their own actions, because these are all they have.
`StoredFiles` has `pc`, `req` and `Spec`, this module has `stage`, `query` and `ListSpec`, because
`FilesAndListingsProofs` extends both.

`MC*` modules and `.cfg` files are the instances TLC checks, `*Proofs` the proofs.

How the modules fit together. Each one owns its tables; where a handler reaches into tables of
another module, the step appears there as one action with a comment saying where its interior is:
a debit in `ClassScheduling` and a grant in `Accounts` (interior: `CreditLedger`), the delivery of
an event in `Checkout` and `Subscriptions` (interior: `BillingWebhook`), `Unlink` in
`ClassRecords` (`ClassScheduling`), `UpdateStatus` in `AuthSessions` (`AcademyMembership`).

## Runs: what each one checks

| Run | Instance | Shows |
|---|---|---|
| `ledger` | 2 users, 2 clients, amounts {1}, 3 requests | the invariants, the action property, the refinement of `CreditJournal` and that every request ends |
| `webhook` | 3 events (package with coupon, subscription with coupon, one with nothing due), 2 workers, 2 deliveries each | at most once, complete when processed, a loss has a cause, eventually applied, and the refinement of `Fulfilment` |
| `webhook_lost` | same | `AcknowledgedIsApplied` fails |
| `classes` | 2 classes, 2 clients, 2 times, costs {1 (the configured cost), 2}, initial credits 1 or 2, 3 requests | meetings match rows, costs are charged, serial updates agree, meetings are released in the end, and the refinement of `ClassLife` |
| `membership` | 1 member, 2 academies, 2 clients, limits {0 (none), 1}, 2 credit limits, 3 requests | the membership limit, no way back for those who left, the chain of credit limits |
| `accounts` | 2 addresses (one the configured super admin's), 2 clients, 4 requests | owners are provisioned, one super admin |
| `auth` | 1 user, 2 clients, 4 requests | tokens are rotated once, sessions follow the password |
| `subscriptions` | 1 subscription, 5 events, 1 cancellation, 2 handlers | the row follows Stripe, invoices are recorded |
| `checkout` | 1 user, a package, a plan, a coupon, 2 clients, 3 requests, 2 sessions | customers, redemptions, promotion codes and refunds agree with Stripe |
| `files` | a user's photo and a resource of his, 2 clients, 4 requests | rows name files, files are owned |
| `records` | 1 class with or without invitations, 2 people of whom 1 is a guest, 2 clients, 2 requests, 2 report entries, 3 tokens, 2 deliveries | the attendance is a report, acknowledged recordings are stored, refusals are unlucky |
| `listings` | every listing and role, pages of one row, at most 3 rows, 2 changes | a walk is complete, what was listed can be opened |

Bounds. Every model bounds the requests (`MaxRequests`, `MaxCancels`), deliveries or events
(`MaxDeliveries`, `MaxEvents`), sessions, tokens, report entries, rows or changes of a behavior;
data is finite because these are. Two clients are what a race needs, and a third or fourth request
provides the state they compete for. Data is as small as the races allow: two accounts for a
deadlock of opposite transfers, two academies for a limit of one, two halves of a price for a
partial refund, pages of one row for the steps between pages. One user, subscription or class is
enough where a second one would share no row with the first. Larger instances were tried while
writing, with the same verdicts: 4 ledger requests with amounts {1, 2}, 3 deliveries with 3
workers, 4 requests of 3 clients on one class. The proofs hold for every value of the constants.

`CHECK_DEADLOCK FALSE` is set everywhere: once the bound on requests, deliveries or events is used
up and what is in progress has ended, the system has stopped; a walk through a listing ends.

What the properties say, and what would break them, is in the comments above their definitions.
Many have the form "this holds, unless one of these causes occurred", with the causes kept as
history variables. That is the strongest statement the code keeps: each exception was added only
after TLC showed a behavior that needs it, and an exception names the race or the failure exactly,
so that everything else is excluded. The ones a reader may not expect:

* `BalanceNeverNegative` holds although the overdraft check is stale, because the value written is
  computed from the same stale read: an account is overdrawn in its *ledger*, never in its balance.
* `DriftNeedsStaleCommit` bounds the damage: balance and ledger come apart only in a commit of a
  computed balance over a balance that was not the one read.
* `LossHasACause` does the same for the webhook: an event that was answered 200 and has not had its
  effect was given up by a handler that failed after inserting its id, or was turned away by the
  controller before its id was stored. Only the redemption of a coupon may be missing besides.
* `FilesAreOwned` excepts the file of a save that broke off: nobody deletes it.
* `PromotionsFollowCoupons` excepts a coupon whose promotion code was made without an answer.
* `AttendanceIsAReport` holds from the first synchronisation that succeeds; until then the rows are
  invitations, and the two are never mixed.
* `CancelledHasNoMeeting` (in `MeetingsMatchRows`) shows that the branch of `update` that deletes
  the meeting of a cancelled class (lines 587-589) can have nothing to delete.
* `CostIsCharged` holds through racing updates: races can charge a class too much, never too little.
* `WithinLimit` excepts what the code never counts: enrolments by an owner, status updates that
  approve every membership of a user, a lowered setting, and two requests at a time.
* `UsesAreEarned`: a coupon can be used twice by a user only in sessions opened before the first
  redemption was recorded; whatever is checked later sees it.
* `SessionsFollowPassword`: what survives a password change was already past its check.
* `WalkIsComplete`: a listing that counts in the transaction that reads its page loses no row to an
  insertion; one that counts apart (recordings, the billing console, coupons, contact messages,
  notifications) can stop one page early.

## Fairness

`CreditLedger`: weak fairness of each client's own steps and of deadlock detection. A request that
has begun is driven by the event loop and the database; a step that waits for a lock is disabled
until it is free. Nothing is assumed of `Begin` (nobody has to send a request), `GetSummary` or
`Fail`.

`BillingWebhook`: weak fairness of each worker's handling, and of `Retry`: Stripe goes on delivering
an event until it is answered 200 (external, documented behaviour of Stripe). Failures are never
required and never excluded, and neither is `TurnAway`, so `EventuallyApplied` carries its three
exceptions: deliveries used up, a handler interrupted, an event turned away and never seen.

`ClassScheduling`: weak fairness of each client's `Proceed`. Neither requests nor failures are
required.

The other modules state safety only. Their requests end because each of their steps leads to a
later one; nobody waits for anybody.

## Proofs

`CreditLedgerProofs` proves, for every set of users, clients and amounts, `Spec => []IInv` with
`IInv == TypeOK /\ BalanceNeverNegative /\ LedgerShowsBalance /\ WritesUnderLock`, from
`ConstantsAssumption` alone. The first three conjuncts are not inductive: a commit installs values
written earlier, so one has to know that an uncommitted value is the one its kind of request writes
*now*. That is `SessionConsistent`: the row lock is held since the write, so nobody else has
committed to the row, and an increment still stands on the balance it was added to; a computed value
comes from a snapshot that sufficed. From `IInv` follow the four invariants, the action property
`DriftNeedsStaleCommit` (theorem `Drifting`) and the refinement `PostsWholly` (theorem
`ImplementsJournal`): the initial state maps to the journal's, a commit to a posting, every other
step to a stutter or, for `getSummary`, to none of its tables.

`BillingProofs` proves, of the webhook, `Spec => []IInv` with `IInv == TypeOK /\ AtMostOnce /\
ProcessedIsComplete /\ OneClaimant`, from `WebhookAssumption`. `OneClaimant` is the strengthening:
at most one worker is past the INSERT for an event; until its writes the event has none; an event
stored and in nobody's hands is complete or interrupted; an event answered 200 is stored or was
turned away. `LossHasACause` (theorem `EveryLossHasACause`) follows from it, and so does the refinement `FulfilsInTurn` (theorem `ImplementsFulfilment`): `Claim` maps to `Take`,
`Apply` to `Grant`, `Redeem` and `RedeemFails` to `Redeem` and `Waive`, `MarkProcessed` to `Process`,
a `Fail` in between to `GiveUp`, every other step to a stutter.

Of `Subscriptions` the same module proves `SubSpec => []SubIInv`. Its centre is `RowOrReason`: the row
of a subscription shows what Stripe has, or an event that carries this is on its way, or a reason is
on record. It needs that the snapshots Stripe sends are numbered in the order of its changes
(`Numbered`); that one numbered above all handled ones shows what Stripe has, or a newer one is on
its way (`InOrder`); that a cancellation Stripe carried out stands, or is overtaken by a snapshot
handled or on its way, when the handler comes to mark the row (`Marks`); and that the first event of
a subscription is a snapshot, so that until it is handled there is no row for an invoice to find, and
the invoice waits (`FirstComesFirst`). `InvoicesCounted` says that what Stripe has collected is what
is recorded, what is missed, and what is on its way. Where nothing is on its way, what is left is
`RowFollowsStripe` (theorem `RowsFollow`) and `InvoicesAreRecorded` (theorem `Recorded`).

`PaymentsAreBacked` (theorem `Backed`) is a statement about a sum, over the purchases that have been
committed and not yet recorded. Sums over a set of clients need induction, which is out of the
prover's reach; so the sum is the cardinality of a set with one element for every credit, each
client's share disjoint from the others', and a step adds or removes one share. The same device
proves what is still owed for a class (`Owed` in `ClassesProofs`) and the number of
redemptions (`RedemptionsOf` in `Checkout`, where it is also how the property is stated).

Each of the other proof modules proves `Spec => []IInv` for every value of the constants, and from
it the properties of the component's run. What the conjuncts of `IInv` add to those properties is the
part of the argument that no test shows: what a request that read long ago may still rely on.

| Module | Theorems | Beyond types and "where a request is says what it is doing", the invariant needs |
|---|---|---|
| `AuthSessionsProofs` | `ExchangedOnce`, `PasswordGoverns` | ids are never given twice; from the DELETE that found a token's row on, its id belongs to one request, and no row has it (`RefreshesOwnTheirToken`); a request stands on the current password or was overtaken (`RequestsFollowPassword`) |
| `FilesAndListingsProofs` (files) | `Typed`, `NamesLead`, `NothingIsLeft` | a new name is its request's and unknown until the row is written (`NamesAreFresh`, `UnwrittenIsUnknown`); only a name given by hand leads to another slot's file; what is about to be deleted is in no row (`DeletedIsUnnamed`); where nothing is to blame a slot has one request, and the row still says what that read (`BlamelessIsAlone`) |
| `AccountsProofs` | `Provisioned`, `OneCrown` | a row's date is its identity, so a request that still holds a row which is gone cannot confuse it with a new one (`RowsAreDated`); academy and grant go with the row; what a creation has done by each of its steps (`CreationInOrder`); without a rival, super admins are made one at a time (`CrownsInTurn`) |
| `AcademyMembershipProofs` | `Typed`, `Limited`, `Chained`, and the action property `NoWayBack` | unless on record as raced, waived or contested, a member has one change of limit, one joining and one decision in progress: the limit it read is in force, there is still room after the count, and what it decides is still pending (`LimitsInTurn`, `JoinsInTurn`, `DecisionsInTurn`) |
| `CheckoutProofs` | `Typed`, `OneCustomer`, `RefundsTold`, `CodesFollow`, `Earned` | a session is delivered by one request (`DeliveredOnce`); a checkout with a customer has the one on record; the status about to be stored is true of what Stripe returned (`RefundsInTurn`); where each step of an undisturbed edit leaves row and code (`EditsInOrder`); every redemption has a delivered session that no request is still busy with (`UsesInTurn`) |
| `FilesAndListingsProofs` (listings) | `ListingTyped`, `WalksComplete`, `ListedIsOpen` | of the rows visible all along, one that the walk has not returned has at least as many rows before it as the pages passed hold, and the total leaves room for it (`MissingIsAhead`); a request whose scope is out of date has nothing left to miss (`SteadyIsVisible`); what was read since the last change is visible (`FreshIsVisible`) |
| `ClassesProofs` (scheduling) | `Typed`, `MeetingsFollow`, `CostsCovered`, `SerialAgrees`, `ImplementsClassLife` | nobody but its creator knows a class before its row is inserted (`Unborn`); a class that has lost its meeting never names one again, so who read it without one finds it without (`Cut`); an update has read a cost that is covered (`Covers`), and, if updates do not overlap, the cost the row still shows (`Serial`); `due` counts what the requests in progress owe |
| `ClassesProofs` (records) | `RecordsTyped`, `AttendanceReported`, `RecordingsKept`, `RefusedTwice` | the pages a synchronisation has read are a head of the report, and no shorter than what is stored when it is about to replace that, unless another one crossed it (`Reported`); a delivery in progress has stored each file it has ticked off, if the class still names its meeting (`Stored`); an attempt after a 401, where nothing happened in between that could excuse another, has a token newer than the last withdrawal or will be given one (`Tokens`) |

The proofs are laid out alike: the fields of a step, one lemma per action (or per family of actions
that write the same stores), a frame lemma for the clients, classes or slots the step does not
concern, `NextPreserves`, and the theorems. `CheckoutProofs` has a lemma per layer of `IInv` and
family of steps instead, because its layers rest on the types and not on each other.
`ClassesProofs` uses that a step of the schedule writes to one class: each part of `IInv` is a predicate of
one class, and `Elsewhere` carries it over for all the others. The refinement `LivesOnce` (theorem
`ImplementsClassLife`) reads a life off the row, the requests that are making it and `named`. Beside
`IInv` it needs that Zoom has no meeting for a class before its creator asks for one
(`MeetingsAreNew`). `CreateMeeting` maps to `Open`, `InsertRow` to `Offer`; `WriteRow` to `Withdraw`
or, of a removal, to `End`, as `Cleanup` does; `DeleteMeeting` to `Close`, because a class whose
meeting is about to be deleted no longer names it (`Cut`); an error to `Break` or `BreakMaking`;
updates, debits and refusals to stutters.

The proof of `WalkIsComplete` needs no induction over the pages. A row's rank is the number of
visible rows with a greater key, and rank and page are compared in every state. Where no keys are
equal, an order of the rows is a bijection that puts the row of rank n at place n + 1
(`PlaceIsRank`), so a row not on the page read comes after it (`PageIsNext`); an insertion or an
edit only raises ranks as long as no row goes (`AheadStays`); and a viewer whose scope changes sees
nothing before or nothing after (`ScopeOpensOrCloses`).

The assumptions are those of the modules' `ASSUME`s, which TLC evaluates on every run: bounds and
amounts are natural numbers; the null values (`NoRow`, `NoRequest`, `None`, ...) are none of the
values they stand in for; e-mail addresses and academies are finite in number, without which counting
super admins or memberships means nothing. Nothing is assumed of the number of clients, users,
events, classes or requests.

Each `IInv` was first checked by TLC on the instance of its component's run. The proofs also exposed
something the runs had not: where a `CASE` of a model had two guards that could hold at once, TLC
takes the first and nothing follows from the definition. Those guards are exclusive now (`WriteRow`
of `StoredFiles`, `FindAcademy` of `Accounts`, `NextOf` of `Checkout`).

Only model-checked: the liveness properties `EveryRequestEnds`, `EventuallyApplied` and
`MeetingsAreReleased`, because fairness and ENABLED are beyond the prover. Every invariant, action
property and refinement that a run checks has a theorem.

## Where code and documentation differ

*Lost event* (`webhook_lost`): a handler that fails after storing the event id is not retried: the
retry finds the id, is skipped and answered 200. `PROJECT.json` quotes the line it contradicts.

Noticed while modelling, not the subject of a run (the models carry the behaviour; their properties
say "unless"):

* Overdraft: two debits of 1 on a balance of 1 both commit (`zoom-credits.service.ts` 52-66), where
  `docs/classes-zoom-credits.md` 139 speaks of overdraft protection.
* A class keeps the cost of an update whose debit was refused (`classes.service.ts` 563), where
  `docs/classes-zoom-credits.md` 134 says the update is aborted; two concurrent raises debit the
  delta twice, and two reschedulings may reach Zoom and the table in different orders (line 56).
* A coupon used for a package is never recorded as redeemed (`billing.service.ts` 844 returns
  before line 878), where `docs/module-guides/billing.md` 45 says it is.
* The webhook grants one pack's credits whatever quantity was charged (`billing.service.ts` 245-256
  and 782). Credits are not taken back by a refund, `refundedAmountCents` keeps the last partial
  refund only, and payments of plans and invoices cannot be refunded.
* A promotion code entered on Stripe's own page is not counted as a redemption; the welcome coupon
  has no Stripe coupon, so it never discounts.
* `endClass` clears `zoomMeetingId`, so a recording announced afterwards is dropped with a 200.
* `getParticipants` selects columns (`class_id`, `join_time`, `display_name`) that the schema does
  not have; `syncParticipants` inserts with `createMany` against a unique (class, Zoom participant),
  so a participant who left and came back makes the synchronisation fail, unless Zoom reported no
  id for him, in which case he is stored twice.
* The webhook controller returns 500 "so Stripe retries" for a handler's error (line 62), but 200 for
  a request it could not verify (lines 36-55): with the signing secret unset or wrong, every event is
  acknowledged and none is stored.
* Resources: PUBLIC ones are limited to the viewer's academies like the others; owners may update
  and delete PRIVATE resources they cannot list; one without an academy skips the check of scope.
* `updateProfilePhoto` deletes the new file when the re-read after the write fails, though the row
  names it by then.
* Notifications: `total` counts all of a user's, whatever `unreadOnly` says; marking some read
  while paging through the unread ones skips others.
* An owner's pending academy shows its classes and resources, but not its users or members.
* The unit test "clears an old class even if its status was not updated"
  (`classes.service.spec.ts` 403) contradicts `isClassClearable` (line 1017);
  `docs/module-guides/billing.md` speaks of `invoice.paid`, the code of
  `invoice.payment_succeeded`; `docs/module-guides/zoom.md` promises a placeholder meeting when Zoom
  is unreachable, the code only makes one when Zoom is disabled.

## Not modelled

The dashboard and the analytics (read-only aggregation), mail (pure I/O), `getParticipants` (its
query cannot run), placeholder meetings (Zoom disabled), `updateOwnProfile` and the academy
settings (fields and keys nothing else depends on), the fee arithmetic and `ensureProductAndPrice`
of the Stripe client, framework wiring, seeding and migration scripts. Text, formatting and amounts
of money in currencies are abstracted to what the properties tell apart. Two hazards have no
property: `PROJECT.json` says why. `PROJECT.json` lists every component with its status.

## Plan

1. `CreditLedger`, `CreditJournal`, `BillingWebhook`, `Fulfilment` with their proofs. *Done.*
2. `ClassScheduling`, `AcademyMembership`, `Accounts`, `AuthSessions`, `Subscriptions`, `Checkout`,
   `StoredFiles`, `ClassRecords`, `Listings`. *Modelled, checked and proved.*
3. `ClassLife`, the abstract specification of the classes. *Done.*
4. Left: the parts listed under "not modelled".
