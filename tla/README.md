# Verification of the accreditation backend

TLA+ specifications, TLC configurations and TLAPS proofs kept beside the
NestJS/Prisma backend that accredits the press for football matches.  Paths
below are relative to the root of the repository; the application is under
`src/`.

The backend is one Node process in front of one PostgreSQL database.  Almost
every operation is an `async` handler that reads rows, checks them, and writes
rows by id a few awaits later.  There is no lock, no version column and almost
no conditional update; a `$transaction` groups writes, never a check with its
write.  What can go wrong is therefore what happens *between two awaits*: another
handler's steps, a failure, a late answer, a client that tries again.  The
modules are built around this: **one action is what a handler does between two
awaits**, and a record per handler keeps the values it read and will still use.

## 1. Inventory

| Component | State | Operations | Hard behaviour | Correct means |
|---|---|---|---|---|
| requests (`modules/requests`) | `AccreditationRequest` (status, category, duplicateOf), `RequestDecision`, `RequestComplement` | save draft, submit, PATCH status, ask/resolve complement, decide, cancel | every command checks a snapshot and writes by id later; decide is five writes on three tables and an object store | only a command overtaken since its read leaves the status machine, duplicates are marked, a resolved complement returns the request to the queue |
| quotas (`modules/quotas`) | `MatchCategoryQuota` (total, consumed) | setQuota, reserveSlot, releaseSlot | read of the total then guarded `UPDATE`; test for zero then decrement; organiser changes the total meanwhile | no slot handed out twice |
| accreditations (`modules/accreditations`) | `Accreditation` (unique requestId), zones, files in the object store | generate, revoke, lookup by token, booth/flash assignment, file URLs | row, then files, then status, each can fail; two decisions race | a badge backs its status, one issuer |
| access-control (`modules/access-control`) | `ScanLog` | verifyScan, offline export, offline sync | two reads, a count and an insert; devices that send again; revocation or expiry during a scan | no admission after revocation, expiry or entry; one entry per zone; idempotent sync |
| competitions (`modules/competitions`) | `Competition`, `Match` (status, window) | create, update, assertAcceptingRequests, closing cron | the cron lists, then writes; staff writes meanwhile; changes are found by comparing with an older row | submissions fall in the window; an expired match is closed; every impactful change is announced |
| iam (`modules/iam`) | `User` (status, failedAttempts, lockedUntil), `RefreshToken` | register, login, refresh, logout, staff accounts, password reset, delete | token rotation, lock counter in two updates, revocation racing an issue; registration in two services | a token is used once; a suspended account or reset password has no live session; one account per address |
| documents (`modules/documents`) | `Document` (version, status), objects in the store | upload, review | object, then row; next version computed from a read; review by id | versions without gap, one current version, no row without object |
| media, profiles, media-desk | `Media`, `RequesterProfile`, `User` | create and rename media, create profile, editor flag, add journalist | look up then create; two services without a transaction | a profile has its account and medium |
| notifications, audit, event bus | `NotificationLog`, `AuditLog`, in-process events | emit after the commit, listener, mail, log row | nobody waits for the listeners; a mail that was sent may be logged as FAILED; the loop over recipients | every event audited and every recipient served unless something fails; the log never claims a mail that was not sent |
| reporting | none (reads) | dashboard, match day, search, six exports | several queries sent at once while rows change | figures disagree by no more than what changed |
| seed (`prisma/seed`) | all tables | upserts in ten steps | dies between two steps, is run again | a second run completes the first |
| accreditation-config | `AccreditationCategory`, `Zone` | create, list, update | none between calls | unique codes |
| guards, interceptors, filters | none | permission table, 15 s timeout, error shape | the timeout answers 408 and the handler goes on | — |
| infrastructure, bootstrap | external services | prisma, S3, SMTP, redis, signing, env | failures of all of these | — |

Interactions: `DecideRequestUseCase` calls `QuotasService.reserveSlot` and
`AccreditationsService.generateAccreditation`; `CancelRequestUseCase` calls
`QuotasService.releaseSlot`; `SubmitRequestUseCase` calls
`MatchesService.assertAcceptingRequests`; `AccessControlService` reads badges
through `AccreditationsService.findByRawToken`; `AuthController` and
`MediaDeskService` create an account in one service and its profile in another;
every service emits domain events after its commit, which only audit and
notifications consume.

`PROJECT.json` lists the hazards of this code at their lines, each with the
properties that watch it, and what they leave open.  Seven have no property, since nothing in
the code prevents them and no statement of the repository says they cannot happen: a cancelled
request keeps its badge ACTIVE; two cancellations at once release two slots; a draft edited while
it is submitted; two complements resolved at once; two revocations of one badge at once; two
administrators that suspend or delete each other at once; two creations of one medium at once.
What would be left of a property about them is the guard that does not suffice.

## 2. Modules

| Module | Models | Code |
|---|---|---|
| `RequestStatus` | the eleven statuses and the transition table | `requests/domain` |
| `Quotas` | the quota rows and the single statements issued on them | `quotas.service.ts` |
| `SlotLedger` | *abstract*: who holds a slot, and how many there are | what the quota promises |
| `RequestWorkflow` | every command on a request, composed with the quota and the badge it issues | `requests/application/commands`, `generateAccreditation` |
| `AccessControl` | scans, offline devices, revocation, expiry | `access-control.service.ts`, `revoke` |
| `Sessions` | logins, lock, refresh tokens, resets, deletion of accounts | `auth.service.ts`, account operations of `users.service.ts` |
| `Accounts` | registration, staff accounts, journalists, media, profiles, the guards in front of them | `users.service.ts`, `media`, `media-desk`, guards |
| `BackOffice` | `Accounts` composed with documents, the deletion of accounts they refer to, and the seed | `documents.service.ts`, `prisma/seed` |
| `Notifications` | what an event sets off: listeners, mails, log rows, audit rows | `infrastructure/events`, `notifications`, `audit` |
| `Matchday` | the match, its window, its cron and the submissions, composed with `Notifications` | `matches.service.ts`, `submit-request.usecase.ts` |
| `Reporting` | each report as the queries it sends | `dashboard`, `search`, `exports` |
| `MC…` | values of constants for TLC | — |
| `RequestWorkflowProofs`, `RequestQuotaProofs`, `RequestRecordProofs` | theorems about `RequestWorkflow` | — |
| `SessionsProofs` | theorems about `Sessions` | — |
| `AccessControlProofs` | theorems about `AccessControl` | — |
| `MatchdayProofs` | theorems about `Matchday` and `Notifications` | — |
| `BackOfficeProofs` | theorems about `BackOffice` and `Accounts` | — |
| `ReportingProofs` | theorems about `Reporting` | — |

### How state and actions correspond to the code

`RequestWorkflow`:

* `status`, `category`, `duplicateOf` are columns of `AccreditationRequest`;
  `lastDecision` is the last `RequestDecision` row; `complement` the rows of
  `RequestComplement`; `badges` the requests with an `Accreditation`; `stored`
  those whose two files are in the object store; `accepting` is what
  `assertAcceptingRequests` would answer now.
* `handler[p]` is the stack of an `async` function at its await: `pc` where it
  waits, `seen`/`cat` the row it read, `to` what it will write, `dup` the duplicate
  it found, `cpl` its complement, `limit` the total `reserveSlot` read.
* A command is a chain of actions, for instance `DecideRead → ReserveRead →
  ReserveTake → DecideWrite → CreateBadge → StoreBadge → DecideFinish`.  The first
  (`RequesterStarts`, `StaffStarts`) reads the request and applies the guards that
  follow the read; a refused call has no effect and is no action.  A `$transaction`
  is one action.
* `Abort` is an await that throws, or the process that dies: the code retries
  and compensates nothing, so what was written stays.
* All requests are for one match: no statement relates two matches.

`AccessControl`:

* `badgeStatus`, `outOfDate` (the clock is past `expiresAt`), `validRows` (VALID rows
  of `ScanLog` per badge and zone, the only rows ever read back), `syncedRows` (rows
  per offline scan) are the database; `exported`, `scanned` belong to the devices,
  which are outside the code and modelled from the export and sync calls;
  `admitted` (answers VALID per badge and zone), `contended` (the badges and zones
  of which two scans were in flight at once) and `resent` (the devices that had two
  synchronisations in flight at once) are history.
* `verifyScan` is `ScanFind → ScanEvaluate → ScanCount → ScanLog`; `syncOfflineScans`
  is a loop of `SyncFind` and `SyncCreate` over the scans still to do; a second call
  starts from the whole batch again.

`Sessions`:

* `account`, `password` (the number of resets so far stands for the hash), `failed`, `lock`
  are columns of `User`; `token` the `RefreshToken` rows, with the history fields `session` (the
  first token of the chain), `pwd` (the password the chain was opened with) and `spared`.  `forked` (sessions of which one token was given to two refreshes at once) and
  `loggedOut` (sessions logged out while no refresh of them was in flight) are history too.
* A login is `LoginFind → SuccessWrite → Issue` or `LoginFind → FailIncrement (→ FailLock)`:
  the lock, the password and the status are all tests of the one row that `LoginFind` read, and
  the increment is atomic and returns the new value.  A refresh is `RefreshFind → RefreshUser →
  Rotate → Issue`.  Logout, status changes, the reset and the deletion write once, so they
  are one action each; the deletion takes the tokens with it (`onDelete: Cascade`).
* Access tokens are not stored; the guard that accepts one reads the account again.

`Accounts` and `BackOffice`:

* `user` rows are `[email, role, active]`, role `None` being a requester; identifiers are
  given in order and never again (`gone`).  `profile`, `media`, `document` are the rows,
  `object` the objects in the store, `owner` the requester of each request documents
  are attached to, `authors` the accounts that decisions, complements or scans refer to.  `contested` is history: the
  subjects of which two uploads were under way at once.
* A call (`AccountCalls`, `Upload`, `Review`) is the guards' read of the caller: active, and
  with the permission of the route.  The steps after it are the awaits of the service: a
  registration is `FindAddress → CreateUser → ProfileMedia → ProfileWrite`, in two services;
  an upload `UploadOwner → UploadFind → UploadPut → UploadWrite`, the object before the row.
* A write by id of a row that is gone, or one that a unique or a foreign key refuses, throws:
  the action is not enabled and `Abort` is.
* `seedAt` is the step of `main` in the seed; the service starts (`Start`) when it is done.

`Notifications` and `Matchday`:

* `Publish` is the synchronous `emit`: it sets the audit row to be written and the listener of
  the notifications to its first await, `Notify` saying who is to be told.  `listener[e]` is
  where the handler of event `e` is, `left` the recipients still in its loop, `log` and
  `mailed` the rows and what the mail server delivered.  A listener that ended is forgotten
  (`Forget`), since no code reads its rows back.
* `match` is the row; `handler` the updates and submissions in flight, `existing` the row
  that an update read; `cron` the place of `closeExpiredMatches`; `now` the clock.
  `untold` (changed fields not yet announced, but for a value put back over a newer one) and
  `late` (the window closed while a submission was past its check) are history.

`Reporting`: `found` has the answers that are in, each the set of rows the query saw; a
query of a `Promise.all` is one `Query` action, in any order.  `during` is history: the
changes made since the first was sent.

### Overlapping calls, and the switches

Calls overlap freely, in the specifications and in the runs.  Where the code does not prevent a
race, a history variable marks *what was raced* and the property leaves out exactly that:
`OneAdmission` the badge and zone of two scans in flight together, `SyncOnce` a device with two
synchronisations in flight, `OneTokenPerSession` a session of which one token was refreshed twice at once,
`LogoutEndsSession` a logout that met a refresh, `ResetSparesOnlyInFlight` what was being opened at the
reset, `VersionsSound` a document uploaded twice at once, `ChangesAnnounced` a value put back over
a newer one.  `StatusFollowsMachine` leaves out a command overtaken since its read, which its
handler shows.  Such a property is
a claim about the race too: it is the *only* way in.  The rest is conditional on
constants:

* `Serialised` (`RequestWorkflow`): no two commands on *one* request overlap.
  Commands on different requests always may.  This is an assumption on the clients that
  nothing in the code enforces; the runs `quota` and `returns` and the theorems about slots and
  duplicates make it, `overlap` does not, and `oversell` shows what happens without it.
* `AllowOverride`: administrators use `overrideQuota`, which skips the counter; the run
  `override` is about it.  Off in all runs about slots: with it the counter covers less than what
  was granted, and the cancellation of such a request releases a slot it never took.
* `PatchTargets`: the statuses staff asks of `PATCH /admin/requests/:id/status`.
  The endpoint accepts any transition of the machine, also SUBMITTED, VALIDATED and
  BADGE_GENERATED without the duplicate check, reservation or badge of their own
  commands.  `PatchWithoutGrant` leaves out those three, `ReviewSteps` keeps the three the
  documentation describes.
* `Failures`, `MaxFaults`: awaits may throw.  On in every passing safety run; the violation
  runs do without.

## 3. What the checks show

| Run | Question | Result |
|---|---|---|
| `quota` | Are slots ever handed out twice, or duplicates left unmarked, whatever fails? (`NoOversell`, `SlotsAccounted`, `ImplementsLedger`, `DuplicatesFlagged`, types) | no, when commands on one request do not overlap |
| `overlap` | What survives three handlers that overlap freely on one request? (`WithinHighTotal`, `BadgeBacksStatus`, `SingleBadgeIssuer`, `StatusFollowsMachine`) | all four, the last up to overtaken commands |
| `returns` | Liveness: complements resolved ⇒ back to the queue, VALIDATED ⇒ badge or cancelled | hold without failures, when commands on one request do not overlap |
| `gates` | Scans against revocation, expiry, entries and each other; offline batches sent again | hold, up to scans and synchronisations that were simultaneous |
| `sessions` | One valid token per session, logouts and resets end sessions, refusals lock the account | hold, up to calls in flight together with one session |
| `backoffice` | Addresses, profiles, versions, files, the seed | hold, versions up to simultaneous uploads |
| `matchday` | Window, cron, announcements, mails and audit, with their liveness | hold |
| `reporting` | Do the figures of a report agree while rows change under it? | within the number of changes |
| `oversell` | `NoOversell` with overlap | **violated** |
| `override` | `OverrideCountsWhenRoom` | **violated** |
| `unlogged` | `StatusChangesLogged` | **violated** |
| `erasure` | `ReviewersKept` | **violated** |

The findings:

1. `decide-request.usecase.ts:117-121` writes BADGE_GENERATED without looking at the
   status again.  A cancellation that arrives after VALIDATED was written releases
   the slot, another request takes it, and then the cancelled request becomes
   BADGE_GENERATED: two holders of one slot.  `docs/04-modele-de-donnees.md:15` promises
   "jamais de dépassement même sous concurrence".
2. `decide-request.usecase.ts:141-149` returns before `reserveSlot` whenever an administrator
   overrides, so the counter stays as it was even while there is room, against
   `docs/07-quotas-et-categories.md:23` ("déclenche quand même l'incrément normal du compteur
   si la place existe").
3. `resolve-complement.usecase.ts:58` moves the request from INFO_REQUESTED to UNDER_REVIEW and
   writes no `RequestDecision`, against `docs/04-modele-de-donnees.md:20`, for which that table has
   "une ligne par changement de statut".  One handler suffices: request, complement, answer.
4. `users.service.ts:300` relies on the foreign keys to keep an account with history, but
   `documents.reviewedById` is `ON DELETE SET NULL` (`prisma/migrations/20260912134110_init/migration.sql:522`): an account whose only
   trace is a review is deleted and the document forgets its reviewer, against the
   comment at lines 277-283.

Races the code has, met while modelling and without a run of their own.  Those in the first
list happen in the runs and are what the properties exempt:

* a command overtaken by another writes over its status, CANCELLED included;
* two scans of one badge at two gates of a zone both find no entry, and both answer VALID;
* two synchronisations of one device at once insert a scan twice;
* two refreshes with one token at once give two valid tokens;
* a refresh in flight at the logout issues its token afterwards, and one in flight at a
  password reset survives it;
* two uploads of one document at once may take one version number;
* an update of a match that overlaps another may put an old value back and announce nothing.

Those in the second list happen in the models as well, where no property speaks of them, or are
excluded by `Serialised`:

* two revocations of one badge at once both pass the conflict check;
* two administrators suspend or delete each other at once and none is left, as when the last takes
  its own role away;
* two creations of one medium at once make twins, and a medium may be renamed to the name of
  another;
* the cron writes CLOSED over a match cancelled since it listed the expired ones;
* a complement resolved with a stale status leaves the request INFO_REQUESTED with nothing open
  (`Serialised`);
* a draft edited while it is submitted or validated changes the category under the reservation,
  and two cancellations at once release twice (`Serialised`).

Also met: `docs/05` says a valid scan leads to ACCESS_USED, which `verifyScan` never writes;
the overflow policy of a quota only selects a message (`decide-request.usecase.ts:137-176`).

### Bounds, and why they are enough

Two handlers are enough for a race between two commands; `overlap` has three, so that
two validations and a cancellation meet on one request.  Two requests are the least
for "another request takes the slot" and for duplicates; the requests of a run share an owner, the
case in which they interact.  `MaxTotal` is 1 (2 in `overlap`): the last slot
and the change of the total (0, 1, back) are what matters.  `quota` has two categories
because a draft edit moves a request between them.  One complement identifier suffices but in `returns`, which has two, where the last of
several must see none open.  `unlogged` needs one handler only.  `gates` has one badge, one zone it opens and one it does
not, "no zone" and "elsewhere", and two offline scans, so that a batch can fail between
its rows; rows of different badges never meet in a statement.  Two handlers are enough to meet at a gate
or on a device, and for a third call before or after the meeting.  Counters of history are
not capped in the specification: they are bounded by what the code refuses, and the mutants
that drop a refusal carry their own cap.  `sessions` has one account, since every statement
is about one, four refresh tokens (two sessions of two tokens each, or one of four), a threshold of
two failures counted up to three, and one reset, which makes an old and a new password.

`backoffice` starts from an empty database: the seed makes three accounts and may die once
anywhere, then three calls of two handlers follow.  Three calls are what the
deepest cases need (open a request, upload, upload again or review; two registrations of one
address and a third call that deletes one).  Five
identifiers of users leave room for two new accounts, three documents for two versions and
one upload that failed between object and row.  `matchday` has one organiser, one
submission at a time, two requesters, one update, which overlaps the cron and the submission, one fault, a clock that ticks
once (a window that opens, closes or is still shut) and one event number, which serves again
when its listeners have ended: an event that finds its number taken waits, so listeners of two
events do not overlap; nothing relates them but the order of mails.  Updates that overlap *each other* are left to
the theorem `ChangesAreAnnounced`, which has any number of them.  `reporting` has one
reader, since readers do not meet, and two changes, so that a row can leave one figure and
another row join the next; requests start in nine of the twelve states (the three left out are like
others to every figure).

Symmetry over handlers, requests, rows and offline scans is used in safety runs only:
all start alike, no operator orders them, and no `CHOOSE` ranges over them.  Deadlock is
checked but in `sessions` (the only account may be deleted), `matchday` (the clock stops and
every request may be closed), `backoffice` and `erasure` (the calls are used up).

### Fairness

`FairSpec` of `RequestWorkflow` assumes `WF_vars(Continues(p))` for every handler: an await that
settles is resumed by the event loop.  `FairSpec` of `Matchday` assumes the same of handlers and
listeners, and of the cron, which the scheduler calls every minute.  Nothing is assumed of
clients, who need never send a command, nor of the clock.  The run `returns` has `Failures = FALSE`:
after a failure no code resumes the work, and the properties are then false of the program (a
VALIDATED request without badge can only be cancelled).  `matchday` has a fault: `EventsServed`
excuses an event after one, `ExpiredGetsClosed` does not, since the cron comes again.

## 4. What is proved

For every number of handlers, rows, and any bounds, from the named assumptions of the
modules (identifiers, rows and statuses are distinct from `None`, flags are Booleans, some sets
are finite, the threshold is positive):

| Theorem | Says | Extra assumptions |
|---|---|---|
| `TypeCorrect` | `Spec => []TypeOK` | none |
| `CounterWithinTotal` | `Spec => []WithinHighTotal` | none: free overlap, failures, override |
| `FollowsMachine` | `Spec => StatusFollowsMachine` | none: free overlap, failures, override |
| `SlotsCovered` | `Spec => []SlotsAccounted` | `Serialised`, no override, PATCH never writes VALIDATED |
| `NeverOversold` | `Spec => []NoOversell` | same |
| `LedgerImplemented` | `Spec => ImplementsLedger`, the refinement of `SlotLedger` | same |
| `OneBadgeIssuer` | `Spec => []SingleBadgeIssuer` | none: free overlap, failures |
| `BadgesBackStatuses` | `Spec => []BadgeBacksStatus` | PATCH never writes BADGE_GENERATED |
| `DuplicatesMarked` | `Spec => []DuplicatesFlagged` | `Serialised`, PATCH never writes SUBMITTED |
| `SessionsTyped` | `Spec => []TypeOK` of `Sessions`; a valid token has its account | none |
| `LockoutHolds` | `Spec => []LockEngages` | none |
| `ResetHolds` | `Spec => []ResetSparesOnlyInFlight` | none |
| `RotationHolds` | `Spec => []OneTokenPerSession` | none: free overlap, failures |
| `LogoutHolds` | `Spec => []LogoutEndsSession` | none: free overlap, failures |
| `AccessTyped` | `Spec => []TypeOK` of `AccessControl` | none |
| `LateRefused` | `Spec => []NoLateAdmission` | none: free overlap, failures |
| `SyncedOnce` | `Spec => []SyncOnce` | none: free overlap, failures |
| `AdmittedOnce` | `Spec => []OneAdmission` | none: free overlap, failures |
| `DayTyped` | `Spec => []TypeOK` of `Matchday` | none |
| `MailsAreLogged` | `Spec => []MailsLogged` | none: failures, crashes |
| `SubmittedInWindow` | `Spec => SubmissionsInWindow` | none: free overlap |
| `ChangesAreAnnounced` | `Spec => []ChangesAnnounced` | none: any number of updates that overlap |
| `BackOfficeTyped` | `Spec => []TypeOK` of `BackOffice` and `Accounts` | none |
| `OneAccountAnAddress` | `Spec => []UniqueEmails` | none: free overlap, failures, deletions |
| `ProfilesHaveAccounts` | `Spec => []ProfilesBacked` | none |
| `DocumentsHaveFiles` | `Spec => []DocumentsBacked` | none |
| `SeedFillsDatabase` | `Spec => []SeedComplete` | none: any number of deaths of the seed |
| `VersionsAreSound` | `Spec => []VersionsSound` | none: free overlap, failures |
| `GlobalFigures` | `Spec => []GlobalFiguresAgree` | none: any number of changes |
| `DayFigures` | `Spec => []DayFiguresAgree` | none |

The argument for requests.  `TypeInv` strengthens `TypeOK`: a handler past its first read has a request
whose row exists, and the fields its place needs (a reservation has a category).
`SerialInv` says what *not overlapping* buys: two busy handlers have different requests, so
the row of a handler's request still is what the handler read (`seen`, `cat`), except for
what it wrote itself.
`LimitInv` needs no such thing: totals, counters and the `limit` a reservation carries
never pass the highest total, since the limit is a past total and the increment is
conditional.  `SlotInv` is `SerialInv`, `LimitInv` and `SlotsAccounted` together: a step
either leaves `Claims(c)` as it is or smaller, or is a `ReserveTake`, which adds one
request and one to the counter, or is a `ReleaseWrite`, which takes one from each.
`SlotsAccounted` must speak of slots *in hand* (reserved and not yet written, cancelled and
not yet released) to be inductive.  `NoOversell` follows: holders ⊆ claims ≤ consumed ≤
highest total.  The refinement reads off the same invariant what the cardinality of the claims
does in each step: it is a take, a drop or a raise of the ledger, or leaves it alone.

The records of a request need four more.  `IssuerInv`: whoever is past the creation of a badge
row finds it there, and rows and files are never removed; the unique key on the request lets one
handler through.  `BadgeInv` adds that the statuses behind a badge are reached only from that
handler, or by a PATCH to ACCESS_USED that read a status which already had one.
`DupInv`: a handler *cleared* to submit without a mark saw no other active request of its
requester, and since drafts count as active, two cannot both be cleared for one requester.
`MachineInv` needs no `Serialised`: what a handler is about to write is allowed from the status it
believes (`Lawful`: what it read, or VALIDATED once it has written that), so if the row has
another status the handler was overtaken; and a row is created by the one handler that drew its
identifier.

In `Sessions`, `LockInv` says that an account without a lock has every refusal answered since
the counter was zeroed still in that counter, below the threshold; only the atomic increment
makes this inductive.  `ResetInv` extends `ResetSparesOnlyInFlight` to the handlers that will issue
a token.  `ChainInv` says that a session has one *representative*: a valid token, the handler that
refreshes this very token, or the handler that has revoked it and will issue the next.  Every
step moves the representative or removes it; a new session takes the name of a token that did
not exist.  `LogoutInv` says that a session logged out with no refresh in flight has none.  Both leave out
`forked` sessions, and a session that is not forked never has two refreshes in flight: the one who
would be second marks it.

In `AccessControl`, `GateInv` gives every handler what its place needs (`Sound`): a scan that
came too late still has its reason in the database until the test that finds it, because
revocations, expiries, VALID rows and offline scans are never taken back (`Lasts`); the scans of a
batch are of its device.  `Logged` (admitted ≤ VALID rows) is a lemma on the way.
`SyncInv` and `AdmitInv` say that two handlers in flight are about different devices, or different
badges or zones, unless these are marked, and that the handler about to write to
one that is not has seen no row: `AdmitInv` uses `Logged` to pass from the rows that `ScanCount` read
to the answers given.

In `Matchday`, `MailInv` says at every place of a listener what the row of its recipient and the
mail are, and that nobody left in the loop was told; a crash or a failure only ends listeners.
`WindowInv`: a submission past the check finds the match open or is marked late, since whatever
closes the match marks it.  `ChangesAnnounced` is inductive beside the types: an update that changed
a field goes on to announce that field, since the row it compares with has another value in it,
and nothing that other handlers or the cron write makes it forget.

In `BackOffice`, `UniqueEmails` is inductive as it stands, which is the unique key at work: the
look-up that precedes the insert plays no part in the proof.  `ProfilesInv` adds what a registration
still knows when it writes the profile, namely that its account, *if it is still there*, is a
requester; and that a change of role is of a member of the staff, so it never makes a requester with a
profile something else.  Identifiers are never given again, so a deleted account stays deleted, and
the foreign key does the rest.  `DocumentsInv`: an upload about to write its row has
its file in the store, and files are never removed.  `SeedInv` says which rows every step of the
seed has left behind, whichever life of the seed wrote them.  `VersionsSound`
is not inductive by itself: `VersionsInv` adds that an upload follows a version of its own subject
and has an object nobody else has, that two uploads in flight are about different subjects unless
the subject is `contested`, and that the version an upload follows is still the newest of a subject
that is not.

In `Reporting`, a report that is sent is compared with nothing the database still holds, so the
invariant must speak of reports that are not complete.  `Seen(h, q)` is the answer to query `q`
if it is in, and else the answer the query *would get now*; `ReportInv` says that these figures
agree within `during` for every report whose queries have been sent.  At the start they all are of one state of
the rows, where states are disjoint and used badges were generated.  A query changes no `Seen`.
A change of a row moves at most one request into one figure, and never out of the totals, or
appends one scan: each difference grows by one at most, and so does `during`.

Only model-checked: the four liveness properties (`ResolvedReturnsToReview`,
`ValidatedGetsBadge`, `ExpiredGetsClosed`, `EventsServed`), which rest on fairness and are out of the
prover's reach.  Every other property of a passing run is proved, and the four runs that find a
violation refute theirs.

## 5. Not modelled

* accreditation-config: catalogues of categories and zones; nothing relates two calls but the
  unique code, which the database keeps.
* Of accounts: the display name and the history of logins, which are written and listed only.
  Of media and requesters: their verification status, which no decision reads.  Creation of
  competitions and matches: one insert of a row nobody else has yet.  Booth and flash-slot
  assignment: labels written by id.  Editing of mail templates.
* Lists, details and public tracking of requests: single reads.  Layout of badges, PDF, XLSX and
  mails; wording.  References and badge numbers (drawn at random, five tries: the last
  failure is an `Abort`), cryptography of tokens (a token identifies its badge or nothing).
* The permission table, but for the three permissions of the modelled back-office routes; the
  media-file checks and the validation of request bodies are filters before the first action.
* Interceptors, filters, adapters, start-up: their failures and the timeout appear as `Abort`,
  as faults, and as calls that overlap.

## 6. Plan

1. Composition of `RequestWorkflow` and `AccessControl`, once it is decided what the
   cancellation of a request should do to its badge.
2. `Matchday` with listeners of two events at once, and with the decision and its badge as
   sources of events.
3. accreditation-config beside the requests that name its categories.
4. Proofs: what survives of `SlotsAccounted` when commands on one request do overlap, stated as
   `VersionsSound` is for uploads; an abstract specification of the gates (a badge is
   admitted or refused in one step) that `AccessControl` implements.

Runs stay at most one or two per module; the violation runs are kept to the disagreements
with the repository's own statements.
