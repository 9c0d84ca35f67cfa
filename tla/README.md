# Formal models of the administration service

TLA+ modules for `wi-admin`, the back office of a marketplace: an Express/TypeScript
service over MongoDB, Redis and the platform's own HTTP API. Administrators at three
levels (1 Developer, 2 Admin, 3 Support) act on accounts, money and content; most of what
they do is a call to the platform, but *who may do what*, *which actions need a second
administrator* and *what is kept as evidence* is decided and stored here. Those parts
are what this project models.

## 1. The system

| Part | State it keeps | Operations | What makes it hard |
|---|---|---|---|
| approval queue (`modules/dual-control`) | `admin_approval_requests` in MongoDB | request, approve, reject, withdraw, expiry on read, registered handlers | two administrators deciding at once, a deadline nobody stamps, a handler that runs after the commit and may fail or die |
| escalation rules (`modules/authorization/domain/escalation.rules.ts`) | none | `assertMayActOn`, `assertMayCreate` | rules re-checked against state that moved |
| administrator accounts (`modules/administrators`, `admin-identity` repositories) | `admin_accounts`: level, status, provenance | create, suspend, reinstate, set level, activate, reset password/MFA, revoke sessions | the level and status read before a write may be stale at the write |
| sign-in and sessions (`modules/admin-identity`) | Redis session keys and per-administrator index, durable session history, lockout counters and locks, MFA challenges | login, MFA, refresh with rotation, logout, revoke | several Redis commands per operation, none of them transactional together |
| request authentication (`api/middlewares`) | none (reads session and account on every request) | `requireAdmin` and its onboarding variants | a level carried in the request for as long as the request runs |
| audit writer (`modules/audit/domain/audit.writer.ts`) | `admin_audit_log` | transactional rows, intent-first rows, best-effort rows, queued rows | rows and acts must commit together or say that they did not |
| audit export, retention (`audit-export.service.ts`, `audit-retention.ts`) | `admin_audit_exports`, NDJSON files, `export_id`/`purge_after` on rows | export, stamp, purge, TTL, resume at start-up, restamp | a row may only be deleted once a durable file holds it |
| notification projector (`modules/notifications`) | `admin_notifications`, watermarks, preferences | tick per source, fan-out, auto-archive | several instances ticking, a delivery cap, a cursor |
| money (`modules/money`, `modules/refunds`, `infra/platform`) | the platform's; here the intent rows and the queue | payouts: mark paid, send, resolve, reject; refunds: approve, refuse, retry, settle, resolve; debts: write off; large ones through the queue | an item that changes while its request waits, an answer that is lost or late, a write that is not retried |
| list of all movements (`money/domain/transaction-sources.ts`) | the platform's collections | one page over several sources, merged | sources that grow between two pages and between two answers |
| statements (`modules/statements`) | none | a statement's deductions, read back from persisted amounts | rounding, amounts that were never persisted |
| feature flags (`modules/dev-tools`) | one document per flag, a cache per process | read, set | a cache refilled by a read that began before the write |
| articles (`modules/content`) | articles and authors | create, update, publish, unpublish, archive, delete, feature | checks and writes without a transaction |
| employees (`modules/employees`) | the staff record of each administrator | edit, documents, readiness | readiness is re-read at activation |
| lifecycle (`lifecycle.ts`) | connections, projector timer | start, drain | order of start-up and shutdown |
| the other modules (`accounts`, `agencies`, `agents`, `billing`, `bookings`, `cod`, `files`, `geo`, `messaging`, `orders`, `reviews`, `shipments`, `support`, `users`, `vendors`, ...) | none of their own: read models and gateways | list, read, call the platform | the platform's state machines are outside this repository |

How they interact: a request passes `requireAdmin` (session and account are read), then
the route's permission, then a service. A service checks the escalation rules and either
writes in an `auditedTransaction` (its write and its audit row commit together) or queues
the action in an `auditedQueue` (the approval row and its audit row commit together). An
approval claims the row in an `auditedTransaction` of its own and then calls the handler
the action registered, which checks the rules again and opens its own transaction. After
a suspension or a change of level commits, the target's sessions are ended in Redis.

What makes each part correct, in one line each:

- *queue*: no action without two different people; at most one performance per
  request; no decision reversed; the audit trail agrees with the rows.
- *accounts*: a level changes only by rank or by two others, a suspension is only lifted
  by a reinstatement, an account is only in after an activation.
- *sessions*: a session ended is over; none outlives its absolute lifetime; a
  superseded refresh token ends its session.
- *audit*: every committed act has its row; no row is deleted that no durable file holds.
- *projector*: whatever the cursor has passed was delivered, declined, given up to the cap
  or readable too late; a deleted notification comes back only after a disturbance; the
  sweep gets past every row.
- *money*: a large amount takes two who agree on the act and the amount; a signature is
  spent on one call; the trail never says of a call what the platform would deny.
- *sign-in*: wrong passwords are bounded before a lock; a counter of failures lapses.
- *flags*: what a cache answers was true within its lifetime and the duration of one read.
- *movements*: paging loses and repeats nothing.  *Statements*: every line adds up.

## 2. The modules

| Module | Models | Role |
|---|---|---|
| `FourEyes` | nothing concrete | what the queue promises: an intent is asked for, granted by somebody else, carried out at most once |
| `DualControl` | `modules/dual-control` | the queue, its handlers left open |
| `DualControlProofs` | | inductive invariant, six properties, the refinement of `FourEyes`, what becomes of an approval |
| `Escalation` | `escalation.rules.ts` | the rules as predicates |
| `Administrators` | `modules/administrators`, `admin-account.*`, `authenticate.middleware.ts` | accounts, composed with `DualControl` and `Escalation` |
| `AdministratorsProofs` | | types, the refinements of `DualControl` and through it of `FourEyes`, four properties, the exact cause of each promise the runs refute |
| `AuditTrail` | `modules/audit`: `audit-export.service.ts`, `audit-retention.ts`, how `audit.writer.ts` makes a row visible | the life of an audit row: written, exported, stamped, deleted |
| `AuditTrailProofs` | | types, claims and deletions traced to files, the age of the dead, complete files, finished stamps, and what each of the two gaps needs |
| `Sessions` | `session.service.ts`, `admin-auth.service.ts`, the session part of `authenticate.middleware.ts` and `administrator.service.ts` | session keys, their index, refresh rotation, revocation, the durable history |
| `SessionsProofs` | | types, what ends a session, its absolute lifetime, the index, the history, superseded tokens |
| `Projector` | `modules/notifications`: `notification.projector.ts`, its scheduler, repositories and TTL | one source, its cursor, the fan-out, what becomes of a notification |
| `ProjectorProofs` | | types, what the cursor has passed, echoes |
| `Money` | `modules/money/domain`, `modules/refunds/domain`, `auditedAttempt`, `platform.client.ts` | acts on one payout, refund or debt, composed with `DualControl`; the platform is external |
| `MoneyProofs` | | types, two people, one call per signature, the trail, the refinements of `DualControl` and `FourEyes` |
| `SignIn` | `lockout.service.ts`, the sign-in half of `admin-auth.service.ts`, `mfa.service.ts` | the failure counter, the lock, the challenge |
| `SignInProofs` | | bounded guesses, a counter that lapses |
| `FeatureFlags` | `modules/dev-tools/domain/feature-flag.service.ts` | the row and the cache of each instance |
| `TransactionFeed` | `money/domain/transaction-sources.ts`, its keyset and merge | one administrator paging |
| `Statements` | `statements/domain/money-breakdown` | the arithmetic of one entry |
| `DeskProofs` | | `FeatureFlags`, `TransactionFeed` and `Statements`: freshness of a cache, complete paging, statements that add up |
| `MCDualControl`, `MCAdministrators`, `MCAuditTrail`, `MCSessions`, `MCProjector`, `MCBackOffice` | | the instances TLC checks; `MCBackOffice` extends `Money`, `SignIn`, `FeatureFlags`, `TransactionFeed` and `Statements`, whose variables are disjoint and whose specifications have names of their own (`FlagSpec`, `SignInSpec`, `FeedSpec`, `StatementSpec`) |

### DualControl

A *process* is one HTTP request being handled, on any instance. Node runs a handler
without interruption between two awaits, so an action is the code from one await that
matters to the next; what a handler read before an await is in `job[p]` and may be stale.
`rows[i]` is a document, `now` the wall clock, `decided[i]` counts decision rows in the
audit trail, `performed[i]` counts writes the handler of request `i` committed; `fate` is
a history variable.

| Code | Actions |
|---|---|
| `requestApproval` in `auditedQueue` | `AskLookup`, then `Create` or `CreateRefused` (the unique index, a 409) |
| `approve`, `reject`, `withdraw` up to their transaction: `loadFresh`, `assertDecidable`, the identity and permission gates | `Begin` |
| the transaction: `resolveIfPending` and the decision's audit row | `Claim`, or `ClaimLost` (409) |
| the handler | `HandlerCommits`, `HandlerMoot`, `HandlerThrows`, then `HandlerReturns` or `HandlerThrowsLate` |
| the `catch` of `approve` | `RecordFailure` |
| `expireOverdue`, `loadFresh` | `Expire` |
| the process or a store dies | `Crash` |

A refusal that changes nothing is no action. The lookup of an identical pending request
that finds one returns it and is likewise no action. The clock is a number that ticks to
`MaxClock`; `MaxRequests` bounds the rows.

### Administrators

Adds `tier`, `status`, `from` (`suspended_from_status`) and `activated` for each account,
and for each request its `identity` (as old as its authentication), the `direct` write it
is about to make and the level `seen` its handler loaded. `Load` and `Write` are the two
halves of a direct action, `Queue` the first half of a queued one; `HandlerLoads` and
`HandlerWrites` are the two halves of the registered handlers; each queue step is taken
together with the accounts' part of it, through `DC == INSTANCE DualControl`. Setting a
level and activating are compare-and-sets (`TierIs`, `StillPending`), suspending and
reinstating are not: the model keeps that difference.

Left out: profile fields, passwords, MFA, sessions; the employee record, whose
incompleteness may refuse an activation at any time (a refusal is no step). A suspension's
reason is part of the request key in the code, so two suspensions of one administrator
for different reasons may be pending together; the model has one intent per target.

### AuditTrail

Several processes (API instances, the CLI `scripts/audit-export.ts`) share one database.
`rows` is `admin_audit_log` with each row's claim (`export_id`) and deadline
(`purge_after`); `exports` the manifests; `files` and `durable` the export directory
before and after fsync and rename; `jobs[p]` what process `p` is in the middle of, with
the position and the copies it holds. A job ends an atomic step at each await.

| Code | Actions |
|---|---|
| `auditedTransaction` | `Allocate` (the row gets its id and `occurred_at` inside the transaction), then `Commit` or `Abort` |
| `auditedAttempt`'s intent, the best-effort `failed` row | `Insert`; an exporter's own intent row is `OwnIntent`, inside its action |
| `runExport`, `performExport` | `RunExport`, `StreamNext`, `StreamEnd` (fsync, rename), `SaveManifest`; the `catch` is `Fail` |
| `stampExported` | `StampNext`, `StampEnd` |
| `purgeExpired`, `deleteExpiredInBatches` | `PurgeFind`, `PurgeDelete`, `PurgeEnd` |
| `resumeUnstampedExports` at start-up | `ResumeUnstamped`, `ResumeNext`, `ResumeEnd`, `ResumeFail` |
| `restampRetention` | `RestampStart`, `RestampNext`, `RestampEnd` |
| the TTL index; a process dies | `TtlDelete`; `Crash` |

The export streams by `occurred_at`, then `_id`; the stamp compares `_id` with that of the
last row streamed. The two orders are kept apart: a row's number is its place in the
stream, `id` the rank of its `_id`, and `exports[e].max` the row whose `_id` is
`max_row_id`. An ObjectId starts with its second, so that a row of a later instant has the
higher id (`Fresh`), and within one instant, where several processes create rows, the ids
are in any order (`Ranks`: `Init` foretells them, so no counter is kept). `AboveWatermark`
is the stamp's comparison. The places themselves are handed out in the order of creation:
a row that a slower clock puts before others of its instant is, to everybody who reads,
like one whose transaction commits late, which the model has.

`late` and `atStart` are history: `late[e]` are the rows that became visible at a place
export `e`'s cursor had passed, or that its stamp will still reach once the file is
durable; `atStart[e]` the rows that were visible when `e` began. What a
row says and the facts appended to it are left out (its status is in `Money`), and so is
the size cap of the API, which refuses before anything is written.

### Sessions

A process is a request; each Redis command and each database call is one step (a `MULTI`
is one command), so the steps of two requests interleave wherever the code awaits. `key`
is `session:<sid>` (a key past its TTL is absent; a deleted one keeps its record as
history), `index` is `admin-sessions:<adminId>` with a TTL of its own, `history` whether the
row in `admin_sessions` has an `ended_at`, `known` the refresh tokens handed out.

| Code | Actions |
|---|---|
| `login`, `completeMfa`, `createSession` | `Login` (the account is read), `CreateSession` (the `MULTI`), `RecordSession` (the history row, best-effort) |
| `authenticate`, `getSession` | `Authenticate` (GET, absolute expiry), `Touch` (EXPIRE), `FindAccount`, then the handler |
| the caller's own handlers | `Logout`, `LogoutAll`, `RevokeSession`, `ChangeOwnPassword`, or `Leave` for any other |
| `refresh`, `rotateRefreshToken` | `Refresh` (first lookup), `RefreshAccount`, `RotateRead` (second lookup, comparison), `RotateTtl`, `RotateSet` |
| `destroySession`, `destroyOtherSessions` | `DeleteSession`, `StampSession`, once per session |
| `destroyAllSessions` | `ReadMembers`, `Wipe`, `CloseHistory` |
| `listSessions`, `revokeAdministratorSession` | `ListSessions`, `LookUp`, `DropMember`, `Listed` |
| suspension; reinstatement; level change, resets, bulk revocation | `Suspend`; `Reinstate`; `EndAll` |
| a process dies or a command throws; time | `Crash`; `Tick` |

Four history variables say what happened: `dead` are sessions whose key was deleted,
`raced` those deleted (or dropped from the index) while a refresh had matched their token
and not yet written the next, `overtaken` those begun while a `destroyAllSessions` of
their owner was between reading the index and closing the history, `contended` the tokens
of refreshes that were between comparison and SET at the same time in one session. The
properties name these as the only exceptions; `RevokedIsRefused` is the promise without
them. What precedes a sign-in is in `SignIn`. Left out: the tokens' signatures and
lifetimes (they only refuse), `markSeen`, and `pendingMfaEnrolment`. An unsuccessful
request that changes nothing is no action; `Quiet` stands for the requests past
`MaxCalls`.

### Projector

One source of the registry: the sources share nothing but the timer. A tick of an instance
is cut at its awaits, and what it read is in `sweep[i]`. `at` is the watermark field of a
row, which its transaction takes first (`BeginWrite`) and makes readable later
(`CommitWrite`); a *place* is a pair of that field and the row's id, ordered as
`withCursor` orders them.

| Code | Actions |
|---|---|
| `resumeCursor` and its `$setOnInsert` | `ReadCursor`, `Seed` |
| `source.fetch` with `withCursor` | `Fetch` |
| the loop of `runSource` | `SkipRow` past the cap, `DeclineRow` (`toDraft` is null), `WriteRow` (`fanOut`, the upsert) |
| `stampRun`; the `catch` | `Stamp`; `Fail`, which may leave a half-written batch |
| `setArchived`, `autoArchive`, the TTL index | `Archive`, `Unarchive`, `AutoArchive`, `Purge` |
| the source's owner | `BeginWrite`, `CommitWrite`, `Settle` |

Drafts, preferences, read marks and entitlement decide only whether a row is declined or
for whom it is, which the model leaves open. `reach`, `handled`, `dropped`, `late`,
`rewritten`, `overlapped` and `echoes` are history.

### Money

One item of one of three kinds, and requests about it. `DualControl` is instantiated for
the acts that can be queued, with the pair of act and amount as the intent, because both
are hashed into the request key. `work[p]` is the write a request is about to make or
waits for; `calls[k]` the `k`-th HTTP call and its audit row. The platform is external: it
applies a call as a compare-and-set on the item, late, or never.

| Code | Actions |
|---|---|
| `markPaid`, `resolveUnknown`, `rejectPayout`, `writeOff`, the verbs of `refund-actions`, up to the gateway or the queue | `Take`, or `Ask` from the threshold up |
| `auditedQueue`, `approve` and its siblings | `CreateRequest`, `BeginDecision`, `Decide` (steps of `DualControl`) |
| the registered handlers | `HandlerLoads`, `HandlerRefuses`, `HandlerEnds` |
| `auditedAttempt` around `platformRequest` | `Attempt`, `AttemptFails`, then `Answered`, `Refused` or `TimedOut`; `Stamp` is `stampOutcome` |
| an instance dies | `Die` |
| the platform and the gateway | `Commit`, `Refuse`, `Drop`, `Settle` |

Left out: proof documents, the creation of a refund and its one-step approval, read models.

### SignIn

The steps of a sign-in, cut at its Redis commands: `Begin` reads the lock, the password is
right (`Accept`, `Challenge`) or wrong (`Increment`, `Expire`, `Engage`: INCR, EXPIRE,
SET), `BeginMfa` and `AcceptMfa` answer a challenge, `Clear` is the `MULTI` of
`clearFailures`. `guesses` counts the wrong passwords in the counter and `cut` notes a
death between two commands of one failure; both are history. A tick is long against one
command, which is why none passes between INCR and EXPIRE.

### FeatureFlags, TransactionFeed, Statements

`FeatureFlags`: `Query` and `Fill` are the two halves of `flagEnabled` on a miss, `SetFlag`
and `Forget` the two of `setFlag`; `Fail` answers the default during an outage; `Restart`.
`until[v]` is when `v` was last the flag's value (history).

`TransactionFeed`: `Answer` is `collect` for one source, `Merge` is
`mergeTransactionPage`, `Grow` a row the platform inserts anywhere. A sort is said by ranks:
a row's place is the number of rows before it (`Rank`), so no step of a sorting algorithm
is modelled. `first` is history.

`Statements`: `apportionBargainFee`, `vendorSaleBreakdown` and `agencyEarningBreakdown` as
operators, one entry printed per behaviour, over every entry of small amounts. `reduce` is
`Total`, a recursive function on the first lines.

## 3. The runs

| Run | Question | Instance and bounds |
|---|---|---|
| `dual_control` | do the queue's invariants hold, and does it implement `FourEyes`? | 2 administrators, 2 intents (one only level 1 approves, one levels 1 and 2), 2 requests at a time, 2 rows, a deadline that can pass; symmetric in administrators and requests |
| `administrators` | do accounts change only as they may under races? | 2 Developers and an account still to be created, 2 requests at a time, 1 row, no failures |
| `administrators_serial` | does the second of two queued actions see what the first changed? do the accounts, with failures and deaths, ever make the queue take a step of their own? | 3 Developers, 2 rows, 1 request at a time, a deadline; failures and deaths in every stage while there is one row (`OneDisturbed`) |
| `administrators_limbo`, `administrators_reinstated`, `administrators_promoted` | three statements of the documentation, each violated | as small as the counterexample allows |
| `audit_trail` | is what is stamped or deleted in a file, and old enough? does a complete file hold its range, a finished stamp all of its file up to the watermark? | 2 rows with ids in either order, 2 exports of one window, 2 processes, retention 1 for exports and 2 for restamps, batches of 1, 1 fault (an exception or a crash anywhere); symmetric in exports and processes |
| `audit_trail_late` | is every deleted row in a durable file, as the comments say? violated | 2 rows, 1 export, 1 process, no fault |
| `sessions` | does an ended session stay ended, is a live one in its index, does the history tell the truth, does a session end in time, is a superseded token refused? | 1 administrator, 2 sessions, 2 requests at a time, 5 in all, 3 tokens, idle lifetime 1, absolute 2, time to 2; any request may die anywhere, any history write may fail; symmetric in sessions, requests and tokens |
| `sessions_revoked` | is a revoked session refused from then on, as the documents say? violated | 1 session, 2 requests at a time, 3 in all |
| `projector` | is whatever the cursor passed accounted for? does a deleted notification come back? does the sweep get past every row? | 2 rows, 1 of them edited, 2 instances, 1 administrator, batches of 2, a cap of 1, 1 failing tick, 2 instants; three scenes: one instance, two instances with nothing archived, one row with everything |
| `back_office` | does large money take two, one signature one call? does the trail agree with the platform? do calls that fail, time out or die ever make the queue take a step of its own? is an approved request resolved? are flags fresh, guesses bounded, counters mortal? does paging lose nothing, a statement add up? | five desks that share no state, one to a behaviour. Money: amounts 1 and 2, threshold 2, 3 administrators, 2 calls, 1 request row, 1 failure, in three scenes (a rush of two requests without failures; one request at a time with a failure; a second attempt at a small payout). Flags: 2 instances, lifetime 1, reads of 1. Sign-in: 2 requests, 2 attempts, 1 open challenge. Movements: 2 sources, 3 ids, 2 sort values, 1 row to a page. Statements: 3 lines, 2 prices and quantities, a floor or none |

Why the bounds are enough. A race in this code is between two handlers that touch one
document: two requests at a time show every order of their steps, and the compare-and-sets
make a third one lose in the same way. Two rows are needed for two intents (and for a
second request for the same intent after the first was closed); one is enough where the
rows are not compared. One tick passes a deadline. Levels 1 to 3 are all there are. For
the audit trail two exports overlap on the same two rows, so a claim can be taken over
while the first exporter stamps or purges; the second process is also the instance that
starts up and resumes a manifest whose exporter is still alive. One fault leaves a
manifest at each of its stages; `RestampFloors` differs from `ExportFloors` so that a
deadline moves under a purge that has already read it. The clock has two instants because
a row ages by one. For the sessions five requests are two sign-ins and three others, of
which two overlap: a refresh against anything that deletes, two refreshes, a sign-in
against a mass sign-out, and a third to see what they left. With these lifetimes a key
idles out before its session's absolute end, and one that a refresh revived reaches it.
That only two refreshes overlap there is the bound that once hid something: with three,
one of them may hold a token that was superseded while it waited, and its SET replaces a
newer one. `SupersededNeverRotates` therefore speaks of every token of refreshes that
overlapped, and its theorem of any number of them. For the projector one row more than the
cap and one instance more than one are what it takes to skip a row and to move the cursor
backwards. Money needs an amount on either side of the threshold and a second call to
spend a signature twice; a threshold of two is as good as two million, since amounts are
only compared with it and with each other. The counter of a sign-in goes past the
threshold by one for every request under way. Two sources, three ids and pages of one make
every insertion fall before, between and after what was shown. The theorems of section 4
remove the bounds for all but what is listed at their end.

Fairness. `DualControl` and `Money` ask for weak fairness of each request's own steps: a
live process finishes what it started, because every database call returns or throws, and
`axios` gives up on a call after `JOVI_MALL_TIMEOUT_MS`. Nothing is assumed of administrators
(nobody has to ask, approve or read the queue, so an overdue row may stay pending for
ever), of the clock, of the platform, or of crashes; a crashed approval counts as `lost`,
which is what the code leaves. `MCBackOffice` checks `ApprovedIsResolved` in this way, except that
in its rush, where nothing is lost, no timeout elapses and the platform answers in the
end instead. `Projector` asks for weak fairness of each instance's sweep: the timer fires
again and again. `AuditTrail`, `Sessions`, `SignIn` and `FeatureFlags` state no liveness:
what they do runs when somebody asks for it, and nothing in the code makes anybody ask.

Deadlock is checked in every run but `back_office`: an idle system can always start
something. The bounds of the desks (calls, ids, pages, one statement) end them, so there
it is off.

### What the runs contradict

- `administrators_limbo`: the row model says of `approved` that the action was performed
  in the same step. It is claimed first and performed after; the shortest way to a row
  that is approved and never performed needs no failure: an Admin may approve the
  suspension of a Developer (the approver permission is `administrators.suspend`, which
  level 2 holds) and the handler's own check refuses them.
- `administrators_reinstated`: reinstating restores `suspended_from_status ?? 'active'`
  whatever the status is, so reinstating a pending account that was never suspended, or one
  suspended twice, activates it.
- `administrators_promoted`: whether a suspension needs a second Developer is decided on
  the level loaded before the write, and the write has no condition on the level.
- `sessions_revoked`: a refresh reads the key, compares the token, and SETs the key whether
  or not it is still there. A sign-out in between is undone.
- `audit_trail_late`: the stamp selects rows by range and watermark, not by what was
  written to the file. A transaction that created its row before the cursor passed and
  commits after it puts a row under the watermark that is in no file; it is stamped and
  later deleted. An export of an empty window has no watermark at all, and its stamp takes
  every row the window holds by then.

Met while modelling and not given a run: the catalogue says a demotion is not
dual-controlled (`permission.catalog.ts:38-41`), the rules queue the demotion of one
Developer by another (`escalation.rules.ts:190-202`); `applyTierChange`'s comment says a
level that moved while the request waited is not overwritten, and the handler passes the
level it loads at approval time, so it is; `escalation.rules.ts:97-99` calls
self-reinstatement unreachable, and a request authenticated before its sender was
suspended reaches it; an approver demoted between the claim and the handler still carries
the action out (`ApproverStillRanks` holds only when requests do not overlap, which is the
hypothesis of its theorem). In the
audit trail, the `catch` of an export also marks a manifest `failed` that was already
complete, though `audit-export.model.ts:18-20` says a failed one never becomes durable,
and `audit-log.model.ts:29-30` that `export_id` points at a completed manifest; such an
export is never resumed. `stampExported` is to mark "every row the file holds"
(`audit-export.service.ts:230`), and the order of the cursor is to make the watermark
"meaningful" (line 162): a row that one process creates in the second of the last row
streamed, before it in `occurred_at` and above it in `_id`, is in the file and not marked,
and `stamped_at` is set, so that no resume comes back to it; until another export marks
it, nothing may delete it. `StampedFileIsClaimed` excepts that row and no other
(`AboveWatermark`), and the run reaches it: without the exception the property is
violated by one process with two rows and no fault. A batch of the purge is deleted by id after it was selected, so a
row may die by a deadline that a restamp has just moved; `NothingDiesYoung` says what
remains true. In the sessions, `destroyAllSessions` deletes the whole index though it read
it a step earlier, so a session begun in between is live and in no index: no later "sign
out everywhere" reaches it, and neither does the teardown of a suspension
(`administrator.service.ts:632` takes it that "a suspended administrator has none"). Two
refreshes with one token can both succeed, and the client that keeps the first answer is
later taken for one that stole it; `admin-auth.service.ts:352-353` knows only two ways to
hold a superseded token, "keeping a copy, or stealing it". Of three that overlap, one
whose token was superseded between its comparison and its SET replaces the newer token.

Before a sign-in, a challenge is read and deleted in two commands, so two answers that
arrive together are both accepted, though `mfa.service.ts:93` has it "exchanged exactly
once"; and a wrong code of an open challenge sets the lock anew while it holds, though
`admin-auth.service.ts:191-192` says that guesses during a lock do not extend it.

In the notifications, `source.registry.ts:55` says "a projector that cannot lose anything"
and `notification-watermark.model.ts:18-19` that "there is no window in which a row is
consumed but not delivered". A row whose transaction commits behind the cursor is never
fetched, and one past the cap is dropped: `notification.projector.ts:172-175` says that
"the next tick picks up where this one stopped", and it does so behind the dropped rows.
`admin-notification.model.ts:41-45` counts on the unique index to make a second reading
harmless; once the retention has deleted a notification, a row read again is announced
again, which the cursor alone prevents. `notification.scheduler.ts:14-20` makes the loop
serial with a flag of the process; a second instance is not held by it. A situation that
is settled and opens again on the same row is never announced again while its
notification is kept.

With money, an answer that is lost leaves a `failed` row and a 503 for an act the
platform carried out; the trail's code `unavailable` is what tells the two apart
(`TrailMatchesPlatform` claims nothing of it). An approval to record a transfer as paid
(`resolve_paid`) survives the transfer's being resolved as failed and sent again: the
handler checks status, amount and currency, and these are the same. In the flags,
`feature-flag.service.ts:18-20` promises convergence within the TTL; a read that was
under way when the flag was set refills the cache afterwards, even on the instance that
set it, so the time of one read comes on top.

## 4. The proofs

All for arbitrary values of the constants: administrators, intents, processes, levels,
rows, sessions, instances, bounds. The assumptions are those the modules name, which TLC
evaluates in the runs: the bounds are naturals, `None` is nobody, amounts of money are
whole, the lockout's threshold and duration are not zero. One theorem has a hypothesis of
its own: `ApproverRanks` is about requests that do not overlap.

`DualControlProofs`. The properties are not inductive: that a handler performs once needs
to know that whoever is in its `perform` stage holds the only claim of an approved row.
The invariant `IInv` adds this link between `job` and `rows`: a process past its claim
handles an approved row whose approver it is, two such processes handle different rows,
and a row nobody performed has `performed = 0`. Each action preserves it, one step per
action and conjunct; `TypeOK`, `OnePendingPerIntent`, `AtMostOnce`, `TwoPeople` and
`TrailAgrees` follow from it, `DecisionIsFinal` is proved of each step under it, and
`Refinement` maps each step to one of `FourEyes` or a stutter. That a decision is begun
before the deadline is a guard of `Begin` and not a property; what a late commit can do
to a row that the sweep is stamping is in `DecisionIsFinal` and `TrailAgrees`.

`ApprovedIsResolved` is liveness; its safety half is a theorem. `ApprovalsAreExplained` says
that no approved request is ever out of everybody's hands without having been carried out,
found moot, marked with a reason, or lost with its instance. `FatesAgree` is what it needs:
a request whose fate is open is in somebody's hands, and a fate, once known, is what
the row and the count of writes say.

`AdministratorsProofs`. `QueueIsDualControl` shows that every step of the composition is
a step of the queue or leaves it alone; with it the queue's `IInv` is available
(`DCP == INSTANCE DualControlProofs`). `ThirdPersonDecides` needs what the handler's
second check of rule 1 gives, `LevelsAreGuarded` that what a direct write carries in
`direct` was decided by rank on the level its compare-and-set names.

`QueueIsDualControl` and the queue's `Refinement` compose: `AdministratorsFourEyes` says that
the accounts, with all their races, keep the promise of `FourEyes`. `ApproverRanks` needs one
process: with it, the level and status in a request's identity are those of the database
until the request ends (`StillRanks`), whereas a second process may demote in between.

The three statements of the documentation that the runs refute have each a theorem that
says what holds instead. `LimboHasAReason`: an approved request that nobody carries out any
more and that was not performed found nothing to do, says why, or lost its instance.
`PromotedMeanwhile`: a Developer is suspended by one administrator alone only if the account
became a Developer between that suspension's load and its write. `ReinstatedUnearned`: what
makes an account active is an activation or a reinstatement that restores nothing kept, a
kept suspension or a kept `active`. A repair of those three places is a repair of the promises.

`AuditTrailProofs`, for any rows, exports, processes, windows, retention periods, batch
sizes and number of faults, from `BoundsAssumption`, `RangesAssumption`,
`FloorsAssumption` and `NoExportAssumption`. `ClaimedRowIsFiled` is not inductive: a stamp
needs to know that the rows its filter selects are filed or late. The invariant `IInv` adds
four parts. `OwnersAgree`: until its file is durable an export has one process to itself.
`BehindIsFiled`: every readable row that an export's cursor has passed, and once the
file is durable every one that its stamp can reach, is in the file or late; a watermark
does not move after the rename, nor an id ever, so the stamp's reach does not grow. `ManifestsAgree`: a complete manifest's file
was renamed, and a renamed file has a manifest. `JobsAgree`: a process that stamps or purges works on
a durable export, and the batch it is about to delete is claimed. The step proof groups
the actions by what they disturb: arrivals of rows, movements of a cursor, departures
and claims, and jobs alone. `LossNeedsLateness` turns the invariant around: as long as no
row is late, `DeletedWasExported` holds, so a late row is the only way to lose one.

Two further invariants stand on `IInv`. `AgeInv`, for `NothingDiesYoung`: a deadline is
only ever dated by `purgeAfterFor`, the row's time plus a floor in force (`DeadlinesHold`);
every floor a manifest or a job carries is one of them (`FloorsAgree`); and a batch that
was found expired stays old, whatever a restamp then does to its deadlines
(`JobIsPatient`), because time does not run backwards. `FileInv`, for
`CompleteFileHoldsRange` and `StampedFileIsClaimed`: nothing changes the file of an
export once it is durable (`FilesAgree`); a stamp that is at row `i` has settled every
filed row before it (`ProgressAgrees`), whichever of two processes stamped it: the row is
marked or above the watermark. `GapNeedsDisorder` says that the exception needs what it
says: where the ids follow the order of the stream, a finished stamp has marked all of the
file. `RowsStand` says once what no
step does to a row: give it another time or take its claim away.

`SessionsProofs`, for any administrators, sessions, requests, tokens, lifetimes and
bounds, from `LifetimesAssumption`, `BoundAssumption` and `NoneAssumption`. `IInv` adds to
`EndedStaysEnded` what makes it inductive: a refresh between its comparison and its SET that
works on a deleted session was there when it was deleted (`JobAgrees`); two sign-ins never
hold one session id, so no `CreateSession` writes a key that was deleted (`OneCreator`);
whatever a request, an index or `dead` names was created, and its record carries the
absolute end of its sign-in (`StoreAgrees`). `ReadingStep` shows for each action that what
the request becomes is good, `AgreementPersists` that the others stay good, and one lemma
per action that writes keys or the index does the rest. `NothingOutlivesItsLifetime` comes
from the same invariant, and `RevocationNeedsNoRace` says that the race is the only way.

`SupersededIsRefused` adds `RivalsAgree`: of two refreshes that are both between
comparison and SET in one session, each has its token in `contended`, since the later of
the two to arrive noted both. `LiveSessionsAreIndexed` and `EndedRowsAreOver` add
`OverInv`. A session is *over* when it can neither be used nor be written again by a
refresh, unless it is one of the two exceptions; being over is stable (`OverStays`).
Every session is over or in its owner's index (`IndexHolds`), which lasts as long as the
longest of them (`IndexLasts`), so an index that has expired hides only sessions that
have too. Whatever a request is about to strike from an index or to call ended in the
history is over by then (`DestroysReach`): the key was deleted or found absent a step
before, and a session that began meanwhile is `overtaken`.

`ProjectorProofs`, from `ProjectorAssumption`. `PassedIsAccounted` is about one cursor that
several ticks overwrite, so the invariant `SweepInv` says the same of every place a cursor
may take: the document, the place each running tick started from, and the last row of
each batch. `EchoNeedsDisturbance` needs `QuietInv`: while nothing is disturbed, one tick
runs, what it has not yet handled was never delivered, and every delivered row lies
behind it. `TypeInv` bounds how far one row may overrun the cap, for finitely many
administrators.

`MoneyProofs`, from `MoneyAssumption`. Every step of the composition is a step of the
queue or leaves it alone, so the queue's `IInv` comes from `DualControlProofs`. `MoneyInv`
adds what ties a call to its approval: a request that writes for an approval is the one
that claimed it (`HoldersApproved`), what it carries is the act and amount of the
approved row (`WorksAgree`), what it sent is what it carried (`CallsAgree`), and an
approval whose handler has not yet sent anything has no call (`NotYetSpent`). The rules
alone would not do: that one signature is one call holds because a handler attempts once
and no write is retried. `MoneyKeepsTheQueue` states the refinement for whole behaviours, and
the queue's theorems follow for money: it implements `FourEyes` (`MoneyFourEyes`), and an
approved payout, refund or write-off that nobody works on explains itself
(`MoneyApprovalsAreExplained`).

`SignInProofs`. Between the threshold and the lock there are requests: `SignInInv` says
that the counter is below the threshold, or some request is about to engage the lock
(`LockIsDue`), or the lock holds at least as long as the counter lives (`LockHolds`);
`Timely` relates the expiries of the two to the clock. `Counted` bounds the wrong
passwords past the threshold by the requests that were past the check of the lock.

`DeskProofs`, flags. `FlagInv`: the flag's value now is its value as of now
(`HistoryAgrees`); a read under way found what was the value when it was sent or later
(`ReadsAgree`); an entry was the value no longer before it was stored than a read takes
(`EntriesAgree`).

`DeskProofs`, movements, from `FeedAssumption`, for any finite sources and tables. `Before` is
a strict total order on rows with distinct ids, so in a finite set of rows the ranks below
its size are each taken by exactly one row: `InOrder` is a sort and `FirstOf` its head. The
invariant `FeedInv` has four parts: the types; the rows sent are in order and end at the
cursor (`SentInOrder`); every row there at the start that does not come after the cursor was
sent (`NothingSkipped`); and a row there at the start and past the cursor is in its source's
answer, or that answer is longer than a page and all of it comes before the row
(`AnswersAgree`), whatever rows arrive between two answers. The merge keeps them because a row of the first page of the union is in the first page of its
source; and a page without a cursor left out no row of any source, because each had room for
one row more than the page.

`DeskProofs`, statements, from `StatementAssumption`, for any number of lines. `Total` is a
recursive function, and the induction theorems of the library are out of the prover's
reach; that strict inclusion of finite sets is well-founded is not. Applied to intervals, it
gives induction up to a bound for a set of numbers (`UpTo`). By it `Total`'s equation has exactly
one solution, and a total is monotone, homogeneous, and grows by what one line grows. The
floors of the shares sum to at most the fee, so the remainder that the largest line takes is
not negative.

Only model-checked: liveness (`ApprovedIsResolved`, `SweepReachesEveryRow`), which is out of
the prover's reach; the safety half of the first is proved. Every other property of a
passing run is a theorem.

## 5. Plan, and what is not modelled

Done, in this order: the queue and its promise; the administrators as its first
composition; the audit trail; the sessions; the projector; money as the second
composition; sign-in, flags, movements and statements. Each has its invariants proved
but for the list above.

Worth adding next: the recovery codes and the enrolment of a second factor, which share
the challenge with `SignIn`; the creation and the one-step approval of a refund, a third
way into `Money`; the liveness of an approval with a crash, if the code ever gets a
recovery for `lost` ones.

Not modelled, and why:

- *articles*: checks and writes without a transaction. What they promise, one slug each, is
  the unique index of the database; the other checks make no promise under two
  administrators that the code could keep or a document states.
- *accounts, agencies, agents, billing, bookings, cod, files, geo, messaging, orders, reviews,
  shipments, support, users, vendors, categories, verification, automation, system*: read
  models and gateways. They validate, call the platform and record the call; the call
  and its record are those of `Money`, and the state machines behind it are outside this
  repository.
- *employees*: one document per administrator, edited in a transaction. Only the
  readiness it gives an activation touches modelled state, as a refusal.
- *the catalogues* (permissions, audit actions, notification kinds, routes), DTOs,
  validators, configuration: static tables and stateless functions, which have nothing to
  interleave. They are most of the source by size; what of them decides something (the
  approver permissions, the levels, the thresholds) is in `Escalation`, `Administrators`
  and `Money`.
- *lifecycle*: the order of start-up and drain. What matters to data, resuming exports at
  start-up, is in `AuditTrail`.
- *rate limits, CSRF, cookies*: per-request checks whose counters live in a library.
