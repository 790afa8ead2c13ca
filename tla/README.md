# AggrSite in TLA+

AggrSite keeps accounts on many third-party panels ("sites": new-api, sub2api,
anyrouter, cubence and others) alive and checked in: it stores credentials in
SQLite, signs every account in once a day at a random time, reads balances every
hour, and renews the short-lived sessions that some panels issue.  It is one Go
process: HTTP handlers, a cron scheduler, per-account check-in timers and a
refresh loop all run as goroutines over one database, with no transaction
around a read and the write that depends on it.  That is what this project is
about.  Paths below are relative to `src/`.

## 1. The system

### Components, their state and operations

| Component | Code | State it keeps | Operations |
|---|---|---|---|
| Managed session refresh | `service/managed_session.go` | per account a mutex, the fingerprint of the last credential, backoff, failure count, dead flag; per scope (platform, URL, route) an in-flight mark and a spacing deadline | `EnsureManagedSession`, `ForceRefreshManagedSession` (both `refreshManagedSession`) |
| Refresh loop | `service/managed_session.go` 693-836 | one stop channel, one wake timer, `passMu` | `StartManagedRefreshScheduler`, `StopManagedRefreshScheduler`, `ExecuteManagedRefreshPass`, wake timer |
| Session exchange | `platform/newapi_v1.go`, `platform/sub2api.go` | none (a rotated cookie in the response) | `RefreshAuth`: exchange, identity check, recovery, classification of failures |
| Site/account archive | `db/archive.go`, `handler/site.go`, `handler/batch.go` | `sites.status`; `accounts.status` with the markers `archivedBySite`, `archivedPrevStatus` in `extra_config` | `UpdateSite`, `BatchSites`, `cascadeSiteStatusChange`, `ArchiveAccountsBySite`, `RestoreAccountsBySite`, `SetAccountStatusUserDriven` |
| Check-in scheduler | `service/scheduler.go` | cron, the set of pending timers and their count, one mutex per account | `StartScheduler`, `StopScheduler`, `ReloadScheduler`, the random draw, timer callbacks |
| Check-in | `service/checkin.go` | account row, `checkin_logs` | `CheckinAccount`, `tryAutoRelogin`, `CheckinAll` |
| Balance | `service/balance.go` | account row | `RefreshBalance`, `RefreshAllBalances` |
| Runtime health | `service/account_health.go`, `service/failure_reason.go` | `extra_config.runtimeHealth` | `mergeAccountExtraConfig`, `freshRuntimeHealth` |
| Account handlers | `handler/account.go`, `handler/account_login.go` | account row, `account_tokens` | create, update, rebind, login, delete, token administration |
| Account tokens | `db/models.go` 427-708 | `account_tokens` with one default | create, update, delete |
| Store | `db/db.go`, `db/models.go` | SQLite, one pooled connection per query | row reads, field-wise `UPDATE`s |
| Settings, events, logs, backup | `handler/event.go`, `handler/backup.go`, `db/models.go` | tables `settings`, `events`, `checkin_logs` | read, upsert, export, import |
| Platform adapters | `platform/newapi.go`, `newapi_runanytime.go`, `cookie.go` and the others of `platform/` | new-api user-id cache | discover the user id, check in, read the balance, sign in per panel |
| Turnstile solver | `service/turnstile_solver.go` | the deadlines of one call | ask external solvers in order, poll their tasks |
| Web UI, middleware, config, crypto | `web/`, `handler/middleware.go`, `config/`, `service/crypto.go` | none of their own | |

### How they interact

* Cron, the HTTP handlers and the per-account timers call `CheckinAccount` and
  `RefreshBalance`; those call `EnsureManagedSession` first and
  `ForceRefreshManagedSession` when the panel rejects the access token.  The
  refresh loop calls `EnsureManagedSession` too.  All of them meet in
  `refreshManagedSession`, on the mutex of the account and the slot of the site.
* Every one of them also writes the account row.  A writer reads the row,
  computes a new `extra_config` and writes the whole text back.  The refresh
  mutex is not taken by any other writer.
* Site handlers rewrite the status of all accounts of the site, one `UPDATE` at
  a time, while users, check-ins and refreshes write the same rows.
* The settings handler (`handler/event.go`) calls `ReloadScheduler`
  while the cron may be drawing today's times and timers may be firing.
* Process exit (a signal, `main.go` 44-52) stops the scheduler and loses
  everything kept in memory: backoff, dead marks, pending timers, requests in
  flight.

### What is hard here

* *Read, then write later.*  Every `extra_config` update is a
  read-modify-write without a lock; whole features (rotated credentials, archive
  markers, health) share that text.
* *A credential that may be used once.*  The panel invalidates the refresh
  credential when it answers; between that answer and the `UPDATE` the only
  valid credential is in a local variable; when the answer is lost, nobody knows
  whether it was exchanged.
* *Cascades that are loops.*  Archive and restore read all rows, then write each
  from that snapshot; a failure ends the loop, nothing resumes it.
* *Timers.*  Callbacks that already fired cannot be stopped; counters and stop
  channels are replaced under them.
* *Attempts within attempts.*  A check-in tries ids, headers, cookies and endpoints
  in turn under budgets and deadlines; what is reported is one of many answers.
* *Rates.*  The refresh routes are limited by client address; pacing is by
  site, backoff is by account, and a new-api refresh may cost two requests.

### What correctness means, per component

* **Managed session refresh**: no exchanged credential is presented or stored
  again; an account nobody works on stores the newest credential of its session;
  a forced refresh asks for nothing once another call has replaced the token its
  caller saw rejected; a site slot is held exactly while one request of the site is out; a consumed
  credential stays on record; every call returns.
* **Archive**: a cascade never changes what the user asked for; an active site
  has no archived accounts once no cascade runs; a disable that comes to its loop
  leaves no account enabled; a round trip is lossless.
* **Check-in scheduler**: at most one *scheduled* check-in of an account runs at
  a time (a manual one may run beside it); the count of pending check-ins is
  never overstated; a cancel reaches every armed timer, as long as the jobs of
  two crons do not overlap; a scheduler stopped for good comes to rest.
* **Refresh loop**: a deferred account has a live timer that fires no later than
  it asked for; every due account is attempted sometime; after a stop every
  loop, pass and timer comes to its end.
* **Check-in window**: a drawn time lies in the window and today; accounts of
  one site keep their distance.
* **Check-in and balance**: a retry presents what the renewal or login before it
  returned; only the verdict that a credential is dead, never a deferral, falls
  through to a password login; only a refused token makes an account expired.
* **Session exchange**: a call never turns its own exchange into a reuse of the
  credential inside the replay window; an exchange whose answer is lost is never
  called retryable; a success carries a credential the panel accepts.
* **Account tokens**: calls that do not overlap keep one default, the oldest token,
  and no duplicate; racing ones a bounded number; a token reported as saved is in
  the table.
* **Platform adapter of new-api**: a check-in the panel made is reported as made,
  whatever is tried after that answer; the right user id is tried before giving up.
* **Turnstile solver**: an instance that hangs takes no time from those after it.

## 2. The modules

| Module | Lines of code it stands for | Builds on |
|---|---|---|
| `ManagedRefresh` | `service/managed_session.go` 206-690, the writers of the same row in `handler/account.go`, `handler/account_login.go`, `service/account_health.go` | |
| `RotatingCredential` | abstract: one credential, used once | implemented by `ManagedRefresh` |
| `SiteArchive` | `db/archive.go`, `handler/site.go`, `handler/batch.go`, the status and marker part of `handler/account.go` and of the check-in | |
| `CheckinScheduler` | `service/scheduler.go`: crons, passes, timers, task mutexes | |
| `CheckinWindow` | `service/scheduler.go` 119-250: delays, clamping, spacing | |
| `CheckinFlow` | `service/checkin.go`, `service/balance.go`: refresh, retry, relogin, captcha, status | |
| `RefreshLoop` | `service/managed_session.go` 693-836: start and stop, ticker, passes, wake timer, pacing | |
| `SessionExchange` | `platform/newapi_v1.go` 46-308, `platform/sub2api.go` 109-277: the requests of one `RefreshAuth` | |
| `AccountTokens` | `db/models.go` 608-697 and its callers in `handler/account.go`, `handler/account_login.go` | |
| `NewApiCheckin` | `platform/newapi.go`, `newapi_runanytime.go`, parts of `cookie.go`: user id, check-in and balance of a new-api account | |
| `TurnstileSolver` | `service/turnstile_solver.go`: one call of the captcha solver | |
| `CaptchaCheckin` | `service/checkin.go` 407-523: the composition of the two | `NewApiCheckin`, `TurnstileSolver` |
| `MC...` | the instances TLC checks | the module of that name |
| `...Proofs` | the theorems; `CaptchaCheckinProofs` has those of the composition and of its two parts, `CheckinSchedulerProofs` those of `CheckinWindow` too | the module of that name |

The modules meet at the account row and at `refreshManagedSession`.  Each takes
the others as one step or one writer: `CheckinFlow` sees a renewal as the step in
which its caller learns the outcome, `ManagedRefresh` sees a check-in as the
health write at its end, `SiteArchive` sees it as a read, perhaps a renewal, and
a write, `CheckinScheduler` as the time a task is locked.  `RefreshLoop` takes a call of
`EnsureManagedSession` as one step, `ManagedRefresh` a call of `RefreshAuth` as one
answer; `SessionExchange` shows what lies between.  In `CheckinFlow` the panel may
answer anything; `CaptchaCheckin` has the requests behind that answer.

Operators marked "Mutant" in the modules are plausible bugs, each put in place of
the operator defined after it; with the bug in place TLC violates the property
it belongs to in `PROJECT.json`.

### ManagedRefresh

State: `row` (token, whether the token is due, refresh credential, proxy route,
status), `session` (the panel: how many credentials a login session was issued,
whether it was revoked), `mutex` and `state` (`managedRefreshState` per account),
`site` (`managedRefreshSiteState` per rate-limit scope), `worker` (the locals of
each `refreshManagedSession` call), `editor` (the locals of a handler or health
update that writes the row back).

| Code | Actions |
|---|---|
| call of Ensure or Force with a row read before | `CallRefresh` |
| lock, re-read, `syncCredential` (551-562) | `Acquire`, `AcquireFails` |
| the early returns (563-608) | `HandOff`, `Throttled`, `NotDue`, `SiteBusy` |
| `tryStart` and `RefreshAuth` | `Send`; the panel: `Rotate`, `RejectReplay`, `Decline`, `UpstreamRevokes` |
| 618-682 with the deferred `finish` and `Unlock` | `Fail`, `Persist`, `PersistFails` |
| health, account form, login | `BeginEdit`/`WriteHealth`/`WriteEdit`, `BeginLogin`/`WriteLogin` |
| a session opened outside the program | `OpenSession` |
| status writes, time, restart | `SetStatus`, `TokenAges`, `Tick`, `Restart` |

Abstractions.  A credential is a pair (session, number); a fingerprint is the
tuple of its parts, where the code has a hash.  Expiry is one flag, set at any
time by `TokenAges`, so an Ensure may be due or not whatever the margins are.
Deadlines are times left.  The panel's reaction to a replay, revoking the
session, is the one `platform/sub2api.go` and `platform/newapi_v1.go` guard
against.  After a restart, a request that was out is forgotten with its caller;
the panel does not exchange its credential afterwards.  Malformed
`extra_config` texts and missing credentials do not occur, nor does a form that clears
the credential: after it there is nothing to renew.  `WriteEdit` stands for the account
form (751-912), `RebindSession` (380-417) and the store at the end of `tryAutoRelogin`
(`checkin.go` 675-697): each writes back the `extra_config` it read, or another refresh
credential the panel issued at any time (`Issued`), with any access token, route and
expiry.  A renewal that fails may be called dead, throttled or retryable, as the
adapters classify it, whether the panel exchanged the credential or not.

The history `replaced` holds, for each account, the access tokens that a renewal has
replaced in the row and that no writer has put back since.

### SiteArchive

State: `site`, `row` (status and archive marker of each account of the site),
`request` (the locals of each HTTP request, check-in or refresh), and two histories:
`choice`, the status last asked for, by a user or at creation, and `leftover`, the
accounts of a disabled site that the last disable left enabled because an error or a
restart cut it short, or that a user enabled since.  A cascade is
`ReadSite`, `StoreSite`, one `SELECT` (`SelectToArchive`, `SelectToRestore`), one
`CascadeStep` per `UPDATE` in id order, `CascadeDone`; `CascadeFails` ends it at
any statement.  `ReadAccount`/`SaveAccount` are the enable/disable toggle, the
account form, a login and a rebind; `StartCheckin`, `FinishCheckin`,
`RefreshGivesUp`, `SaveHealth` a check-in or balance refresh; `StartCreate`,
`InsertAccount`, `MarkCreated`, `CreateFails` a creation; `Restart` cuts all off.

`Overlap` names the kinds of request that run beside each other; a kind outside
it runs while nothing else does.  Deleting a site, and statuses other than the
three the program itself writes, are left out.

### CheckinScheduler and CheckinWindow

`CheckinScheduler` has one action per critical section of `scheduler.go`:
`StartScheduler` (also what a reload does), `StopScheduler`, the three stages of
the check-in job (`JobCancels`, `JobLists`, `JobArms`), the life of a timer
(`TimerFires`, `CheckinStarts` or `CheckinSkipped`, `CheckinReturns`,
`CallbackEnds`) and of the balance task.  `Cron` and `Pass` bound how many crons
have running jobs, and how many passes running callbacks, at one time; their
members are used again once free.

`CheckinWindow` is the arithmetic of one pass for one site: `Draw` (every random
value is a choice), `Sort`, `Space`, with `Clamp` as in `clampCheckinTime`.
Time is in minutes; the random seconds are left out.

### CheckinFlow

State: `setup` (what kind of account and site this is: managed session, check-in
URL of its own, `checkin_credential`, stored password, captcha solver), `row`
(token, status, whether the panel still takes the stored refresh credential),
`issued` (the newest token of the panel), `flow` (the locals of each
`CheckinAccount` or `RefreshBalance`, with the histories `rejected`, what the panel
refused this flow, its balance refresh included; `unsaved`, that its own login could not
be stored; `misjudged`, that its renewal called a working credential dead).

| Code | Actions |
|---|---|
| read the row; nothing to do | `Start`, `Skip` |
| `EnsureManagedSession`, `resolveCheckinCredential` | `EnsureSession` |
| `executeCheckin`, `GetBalance` | `Ask` (any answer), `Solve`, `Proceed` |
| `tryAutoRelogin` | `ForceRefresh` or `NoRefresh`, `Login` or `LoginFails`, `StoreLogin` |
| the end of a balance refresh, of a failed or skipped check-in | `Record` |
| the balance refresh inside a granted check-in, and the end after it | `BeginBalance`, `EndBalance`, `RecordGranted` |

The panel's answers are arbitrary: `AnalyzeCheckinFailure` takes a gateway's 403
for an expired token too.  A renewal is atomic, and the write of `extra_config`
is reduced to the one fact these flows depend on, whether the refresh credential
in it still works.  Left out: the login check-in of AgentRouter
(`checkin.go` 231-312), rewards, logs and events.  The branch of `executeCheckin`
that falls back from the adapter to the external URL cannot be reached, because
`useGeneric` is set whenever there is such a URL, and is not modelled.

### RefreshLoop

State: `life`, `wait`, `site` (how long each token lives, each account must wait,
the site must rest), `stopCh`, `loop` (each loop goroutine with its ticker), `wake`
(each timer: armed, fired or running its pass), `record`
(`managedRefreshWakeTimer`), `pass` (who holds `passMu`, and its locals).

| Code | Actions |
|---|---|
| `StartManagedRefreshScheduler`, `StopManagedRefreshScheduler` | of the same names |
| the goroutine: first pass, `select` (800-812) | `LoopBegins`, `LoopTicks`, `LoopReturns` |
| the timer's callback (767-778) | `WakeFires`, `WakeChecks`, `WakeRuns` |
| the rows of a pass, in order of expiry | `ListRows`, `ListFails`, `SkipRow`, `LookupFails`, `DeferRow`, `RenewRow`, `FailRow`, `ThrottledRow` |
| the end: `scheduleManagedRefreshWake` | `PassEnds`, `ComputesDeadline`, `ArmRefused`, `Arms` |

All times are times left; `Elapse` takes a tick off each, when nothing can run or,
up to `MaxLag` ticks, at the end of a pass, whose requests took them.  The accounts
share one site.  Other callers of `EnsureManagedSession` are not there: they only
renew sooner.

### SessionExchange

State: `newest`, `age`, `revoked` (the panel's session), `stored` (the credential in
`extra_config`), `call` (the locals of `refreshAuth`), `reply` (how the request
under way was answered).  `RefreshAuth` sends the stored credential; `Exchange`,
`AnswerAgain`, `Decline`, `RejectReuse`, `NeverArrives` are the panel and the
network; each of their answers may be lost or cut, and an exchange may be answered with
a failure of a gateway or of a later step (`FailedLater`).  A 429 of sub2api comes from a
middleware before the exchange (`sub2api.go` 167-177).  A request the panel has not
handled while the adapter waits for it never arrives.  `ReceiveNew`,
`ReceiveUnrotated`, `ReceiveIncomplete`, `ReceiveRefused`, `ReceiveError`,
`ReceiveNothing` are the branches of the adapter, which ends with a result
(`Finish`) or sends the same cookie once more (`Recover`).  `platform` tells the two
adapters apart.  The 30 seconds of the HTTP client and of the replay window are two
parameters, the first no longer than the second (`WindowFits`).

### AccountTokens

One action per statement of `CreateAccountToken`: `FindToken`, `RenewToken`,
`CountTokens`, `InsertToken`, `CopyToken`, with the errors that the code ignores
(`FindFails`, `CountFails`; a failing copy is part of `CopyToken`) and the one it
reports (`WriteFails`).  `CreateToken`, `SyncTokens`, `LoginToken` are its callers,
`EditApiToken` and `DeleteToken` the other writers.  The histories `disturbed`,
`raced`, `failed` say which calls were overlapped by another write, whether one of
them wrote, and whether a `SELECT` failed.

### NewApiCheckin, TurnstileSolver, CaptchaCheckin

`NewApiCheckin` has one step per request (`Ask`): `Plan` is the sequence of requests
of a phase (probing ids, header, cookies, alternate id), `Answer` what the panel
says, and `AfterProbe`, `AfterPost`, `AfterCookie`, `AfterPowCookie`,
`AfterBalanceCookie`, `AfterAlternate` what the adapter makes of it.  A request may
not arrive and an answer may be lost.  `setup` is the kind of account and panel.  The
cache of user ids is shared by all flows; `Expire` and `Cleanup` empty it.
Messages are classes, as `isCookieSessionFailureMessage` and
`shouldFallbackToCookieCheckin` tell them apart; refusals always have a text.

`TurnstileSolver` is one call with its own clock: `AskNext` starts the attempt of an
instance, `TaskCreated`, `Pending`, `Poll`, `PollFails` are the task and its polling
for both kinds of solver, `Refuse`, `CreateFails`, `GiveUp`, `Succeed` the ends;
`Elapse` advances up to the next deadline.  `CaptchaCheckin` runs flows through
`CheckinAccount`: check-in, solver, check-in again, balance.  One solver call is on
at a time; calls share no state.  A panel verifies a token once.  The day does not
end during the run.

## 3. What the runs check

| Run | Instance | Shows |
|---|---|---|
| `refresh_safe` | 1 account, 2 workers, 1 editor, 2 sessions of 3 credentials, logged in or opened in a browser; no faults | types; `NeverReplays`, `StoredIsCurrent`; the refinement `RotatesCredential` |
| `refresh_faults` | 2 accounts behind one scope, 2 workers, writes and answers lost | `SiteSlotExact` on every path; `ConsumedIsRemembered`: a loss stays on record against the credential it spent |
| `refresh_live` | 1 account, 2 workers, 1 editor (forms and health updates), 1 session of 2 credentials, failing writes, revocation, restarts; fair | `CallsReturn`; `ForceNeverRepeats` |
| `refresh_loop` | 2 accounts of one site, 2 loop goroutines, 2 wake timers; fair | types; `RecordAlive`, `WakeNotLost`, `DueIsAttempted`, `StopEndsRefreshing` |
| `session_exchange` | both panels, 5 credentials, a browser beside the program | types; `OwnReplayIsSafe`, `RetryableIsAnswered`, `OkIsUsable` |
| `archive_cascades` | 2 accounts, 3 requests; cascades overlap and fail, other requests run alone | types; `ChoiceStands` |
| `archive_repair` | 3 accounts, 1 request at a time, every kind, failing statements, restarts | `DisableCompletes`, `EnableCompletes` |
| `scheduler_reload` | 1 account, 2 crons, 3 passes; fair | types; `TaskAlone`, `PendingNotOverstated`, `StopQuiets` |
| `window_day` | 3 accounts, a day of 6 hours of 4 minutes, 5 starting minutes | types; `InWindow`, `GapInside` |
| `checkin_flow` | 2 flows, 8 setups, 3 tokens, writes fail | types; `PanelRetryIsFresh`, `LoginOnlyWhenDead`, `ExpiredIsRefused` |
| `account_tokens` | 2 writers, 2 tokens, 3 rows inserted, statements fail | types; `DefaultsBounded`, `SerialTokens`, `SavedIsStored` |
| `captcha_checkin` | 2 flows, 9 kinds of account and panel, 3 ids, 3 cookies, 2 solver instances | types; `DoneIsReported`, `RealIdNotStarved`, `LaterInstancesHaveTime` |

### The bounds

* Two workers suffice for every race inside `refreshManagedSession`: the mutex
  admits one, and what a third could do while waiting the second does as well.
  Three credentials are a rotation before, during and after a stale read; two
  sessions are a login beside a rotation.  Two accounts share a scope in
  `refresh_faults`, the only place where accounts meet.  Backoff is cut after one
  doubling (`ShortBackoff`); longer ones only repeat its last entry.  `refresh_live` has
  no doubling (`FlatBackoff`) and one session, whose first credential a form may write
  back over its second: what the form does to a forced refresh and to the locks takes no
  more.  Forms that write the credential of a second session are in the theorem only.
* Two accounts and three cascades are a disable, an enable and one more between
  them, each in the middle of its loop; cascades treat accounts alike and in
  order.  `archive_repair` has three accounts so that a loop has a middle.
* Two crons are a reload with the old job running; three passes let callbacks of
  two older passes end during a third.  Accounts do not interact except through
  the count, which three timers of one account change just as well.
* The clock of `window_day` keeps the order of all its boundaries: hours before,
  in and after the window, first half and second half, today and tomorrow.
* Two flows are one that renews or logs in while the other waits.  A panel
  comes with a captcha solver, but for the largest setup and the sites with a check-in
  URL; without one `Solve` only never happens.  Three tokens
  are the first, one renewal or login of each flow.  When the tokens of an
  instance are used up, no more are issued, and a login can still fail.
* Two accounts of `refresh_loop` are one that is deferred or fails and one behind
  it.  Two loops are one that was replaced in the middle of a pass and its
  successor; two timers are one whose callback waits for the lock and the one
  recorded, whose place a new one takes.  Lead, spacing and backoff keep the order they have in minutes.  The
  deadline of a wake does not lapse between its computation and the lock
  (`SlowLock` is FALSE); it is a moment in the code.
* Five credentials of `session_exchange` are the stored one and four exchanges of
  it, by requests and by the browser in any order.  The client's timeout and the replay
  window are both 2 ticks, as both are 30 seconds in the code.
* Two writers of `account_tokens` are any race of two calls; the one listing
  has two tokens, the first of them disabled upstream.
* `captcha_checkin` has an id before, an id after and the right id in each
  position of the candidates, and a budget that covers one id's extra cookies.  The
  solver's times are scaled (attempt 3, client 2, pause 1 ticks), so that one kind
  of polling ends by its count and the other by its deadline, as 3+30*2 s and 2+45*2 s
  do against 75 s.

`window_day` ends when every account is spaced, as the code does, so it does not
check for deadlock; all other runs do.

### Where the code does not do what is said

No run states these; each was found by a run of its property while modelling, and the
properties above are stated so that they hold beside them.

* `freshRuntimeHealth` re-reads `extra_config` (`account_health.go` 46), but the
  `UPDATE` of its caller comes later and takes no lock, so a refresh credential rotated
  in between is replaced by the spent one; the comment above it says that re-reading
  prevents this.  With "health" in `EditorOps`, `StoredIsCurrent` is violated.
* When an `UPDATE` of `RestoreAccountsBySite` fails, the enable is a success with
  accounts still archived, and asking again changes nothing, since the site is active
  already (`handler/site.go` 117, 150), although line 129 says that an enable restores
  exactly the archived accounts.  Only disabling and enabling the site again does:
  `EnableCompletes` says that this works.
* A check-in at a URL of the site's own that is refused is repeated after the renewal
  with the token resolved before it (`checkin.go` 490), and the account is written
  expired although its session was just renewed.  `PanelRetryIsFresh` therefore speaks
  of panels; the comment at lines 702-704 says more.
* The comment at `newapi.go` 432-434 says that the alternate id is cached so that the
  balance refresh reuses it; with a `platform_user_id` configured, the cache is not read.
* The comment at `newapi_v1.go` 32-36 wants the retry after a race well inside the
  replay window.  A race whose immediate retry is then answered 429 or 5xx waits 20
  or 2 minutes with the credential still called retryable; by then it is a reuse.
* `newapi_v1.go` 119-122 repeats a cookie "inside the 30-second replay window".  The
  client's timeout is 30 seconds too, so after a request that takes all of it the window
  is over.  `OwnReplayIsSafe` therefore ends when the call is older than the window, for
  a cookie; for a one-time token, which is never repeated, it does not.
* Both adapters say that a credential which may be spent must not be sent again
  (`newapi_v1.go` 119-137, `sub2api.go` 168-172).  When the panel exchanges a cookie and
  a gateway, or a later step, answers 5xx, 403 or 429 (`newapi_v1.go` 272-288), the
  result is retryable and a later call presents the spent cookie.  `RetryableIsAnswered`
  allows this one case.
* `checkin.go` 604-606 wants a password login only after a "definitively rejected"
  credential.  The verdict it goes by also falls on a cookie whose two requests got no
  status (`newapi_v1.go` 96-137), and on a one-time token after any failure but a 429
  (`sub2api.go` 168-172), although the panel may never have seen them: a working session
  is given up for a login.  `LoginOnlyWhenDead` allows a flow's own such verdict
  (`misjudged`), and no other reason.
* A failed `UPDATE` of a new login is dropped (`checkin.go` 697).  When the check-in is
  then granted, its balance refresh (519) reads the row again and presents the token the
  flow was refused, although "otherwise the generic / external checkin path would keep
  using the stale token" is why the check-in renews first.  `RetryIsFresh` makes this one
  exception (`unsaved`).
* `SetAccountStatusUserDriven` promises that a choice of the user supersedes the site's
  snapshot (`archive.go` 286-289).  A cascade that read the row before writes it back
  over the choice: with `Overlap` containing `choose`, `ChoiceStands` is violated.
* `clampCheckinTime` promises a time within the window (`scheduler.go` 132-133).  A cron
  that fires after the window's end gets delays clamped to 0 (146-148).  `InWindow` holds
  for crons before it, and for windows that start before they end, which the settings
  handler does not check (`event.go` 73-103).
* Accounts of a site are "guaranteed a minimum gap" (`scheduler.go` 193-195).  Near the end
  of the window one is spaced and then clamped back onto others (245): with 2 accounts,
  hours of 6 minutes and a cron in the last hour but one, two get the same minute.
  `GapInside` is what holds.

### Not so, and not claimed

These interleavings exist in the code too; no document of the repository promises
otherwise.

* With `Overlap` containing `checkin`, `ChoiceStands` is violated: the end of a
  check-in writes back what it read before a user's request.  A cascade that overtakes another leaves an active site with archived
  accounts, so `EnableCompletes` is checked one request at a time.
* An account created as "disabled" under a disabled site comes back active when
  the site is enabled (`handler/account.go` 519-525); `Asked` leaves that status
  out.
* When the jobs of an old cron still list accounts while the new one arms its
  timers, the list of timers is replaced (`scheduler.go` 253) and the earlier
  timers are out of reach of a cancel (`CancelsAll` fails).
* When an `UPDATE` of `ArchiveAccountsBySite` fails, accounts stay enabled under a
  disabled site, and saving the site's form as disabled once more changes nothing, since
  the status is stored already (`handler/site.go` 117); a batch disable does.
  `DisableCompletes` says of such a form that it leaves no more than that.
* The account form, a rebind, and a login stored at the end of `tryAutoRelogin` write
  back an `extra_config` they read before.  With "edit" in `EditorOps`, `NeverReplays`
  and `StoredIsCurrent` are violated as with the health update; a form may even store a
  credential the user copied long ago.  `ForceNeverRepeats` holds with them.
* A flow may write "expired" over a session another flow renewed meanwhile, two
  flows that saw the same dead credential may both log in, and a solved captcha
  token is sent again with the retry.
* A wake timer whose callback waits for the lock clears the record of its successor
  (`managed_session.go` 773): that timer is armed and no stop reaches it.  Its
  callback sees that its channel is gone, so nothing comes of it.
* Where the upstream answers 429 for ever, or the loop is replaced at every deferral,
  an account may be starved; `DueIsAttempted` assumes calm (`Calm`) and a loop that
  is left alone.  It also needs backoffs longer than the spacing of a site and the
  requests of a pass, as they are in the code.
* The first listed token becomes the default and `api_token`, although it may be
  disabled upstream or the user gave another; deleting the default leaves none until
  the table is empty, and `api_token` keeps the deleted one.  A failing COUNT reads as
  an empty table (`models.go` 631) and makes a second default, a failing SELECT
  (620) reads as not found and makes a duplicate.
* A panel that refuses with a text in a 200 answer gets "already checked in" of one
  cookie replaced by "unauthorized" of a later one (`newapi.go` 306-308), so that the
  check-in counts as failed.  A captcha asked for by the next request, or a lost answer,
  replaces it in the same way.  This takes a panel whose adapter goes on after the answer,
  asking `sign_in` before `checkin`; there `DoneIsReported` is about refusals by HTTP
  status without captcha and loss, and on all other panels it holds without condition.
* When a panel has both check-in endpoints, a solved captcha token is verified by
  the first request that reaches either, and the other asks for a captcha again.
* A header refused as "invalid token" or "expired" ends the check-in without trying
  the cookies (`newapi.go` 415), and a panel without the endpoint that is asked answers
  nothing to any id; `RealIdNotStarved` leaves both out.  The budget guarantees only the
  first cookie of each id.  The conditions of this property and of `DoneIsReported` are
  all the theorems need: nothing else is assumed of the panels.

### Fairness

Only `refresh_live`, `refresh_loop` and `scheduler_reload` assume any.  A worker waiting for an
account mutex gets it infinitely often offered (strong fairness of `Acquire`):
Go's `sync.Mutex` hands itself to a waiter that starves for more than a
millisecond.  A worker that runs keeps running, and the panel's answer or the
HTTP client's timeout ends a request (weak fairness).  Goroutines of the
scheduler are scheduled, an armed timer goes off, and a check-in or balance
refresh returns, since each of its requests has a timeout (weak fairness).
In `refresh_loop` the loop goroutine, the pass and the callbacks run, an armed timer
goes off and time passes (weak fairness); a `select` that finds both its channels
ready again and again takes the closed one sometime, since Go chooses among them
at random (strong fairness of `LoopReturns`).  In the other runs nothing makes a cron fire, a user act, a token age or time pass.

## 4. What is proved

The theorems hold for every number of accounts, goroutines, sessions and tokens,
under the assumptions declared with the constants (types of the parameters, and
that `Nil` is none of the values) and those of the statement.

* **Types**: `TypeCorrect` of each component, `SolverTypeCorrect` and `WindowTyped`.
* **ManagedRefresh.**  `Serialised`: the mutex names exactly the one call of an
  account between lock and return; inductive with the types.  `SlotExact`: the
  mark of a scope is set exactly while one request is out.
  + `HolderUnique`, `ReplayFree`, `StoreCurrent`, if no write, answer or process is lost
    and only logins and status changes write the row beside refreshes (`NothingLost`).
    `NeverReplays` is not inductive: it needs to know who holds what between the
    exchange and the write.  `OneHolder` says it: the row's credential is current
    unless one call carries its successor (`RowIssued`), a call before its request
    holds the current one and after it the successor (`CarriedCurrent`), and a
    login brings a session nobody else has (`LoginApart`).
  + `Rotates`, under the same condition: `ManagedRefresh` implements
    `RotatingCredential`.  An exchange and a login replace the abstract credential, a
    write that stores the carried one changes nothing of it, and every other step
    stutters; each case rests on `OneHolder`, by which only one call carries one.
  + `ConsumedRemembered`: `ConsumedIsRemembered`, if the process keeps its memory and
    only logins overwrite the credential (`KeepsMemory`, which `refresh_faults` satisfies);
    writes and answers may be lost at will.  The invariant `Remembering` adds what is
    true in the middle of a call (`Noted`): the state of the account is about the row the
    call read, and a spent credential that is still stored has failures noted, or the
    call that spent it has its answer in hand.
  + `ForceExact`: `ForceNeverRepeats`, for every instance: all faults, logins, forms and
    health updates.  The strengthening `NotReplaced`: a replaced token is neither
    in the row nor in a row read under the mutex, and a forced call that presents a
    credential was refused the token of the row it read there.
* **RefreshLoop.**  `RecordIsAlive` and `WakesKept`, for any number of loops, timers
  and all delays, `SlowLock` included.  `RecordAlive` is not inductive alone: that
  the timer freed at the end of a pass is not the recorded one needs `PassHeld`, by
  which a timer that holds the pass is past its check, where the record was cleared.
* **SessionExchange.**  `OwnReplaySafe`, `RetryableAnswered` and `OkUsable` for both panels,
  any number of credentials and all timeouts no longer than the window (`WindowFits`).  The
  invariant ties the age of the newest exchange to the time the call has taken
  (`StillAnswered`), so that a repeated cookie arrives inside the window; says that a
  request that exchanged it, unless the call is recovering, is answered with success or
  a failure without a code, or not at all (`SpentIsAnswered`); and that a success on its way names a credential the panel
  still takes (`RepliedUsable`).
* **SiteArchive.**  `CascadesLossless`: `ChoiceStands` if only cascades overlap
  (`CascadesApart`).  The invariant is `LosslessInv`: a row waiting in a cascade's
  snapshot may be stale but has the `Intent` the user chose, an archived account
  is disabled, and any other writer works on the row as it is.
  + `EnableSweeps`: `EnableCompletes` if a cascade has no other request beside it
    (`CascadesSingle`).  In the middle of the loop, every account still archived is still
    before it (`RestoreSwept`).
  + `DisableSweeps`: `DisableCompletes` if requests run alone (`OneAtATime`), with the
    accounts that are enabled under a disabled site among `leftover`.  A disable
    skips an account that is archived already, so it is complete only because an
    archived account is also disabled; beside a cascade another writer may break that.
* **CheckinScheduler.**  `TasksAlone` by `LockExact` (a task's mutex is taken
  exactly while it runs).  `PendingBounded`: the count never exceeds the timers and
  callbacks alive.  `CancelComplete`: with one cron at a time, every armed timer is
  in the list (`ArmedTracked`), so a cancel reaches all.
* **CheckinWindow.**  `DrawsInWindow` and `DrawsApart`, for all clocks, windows, draws and
  gaps and any number of accounts, if every cron begins before the window's end
  (`BeginsInTime`; the other case is in section 3).  A time is written as a minute of an
  hour of a day (`ClockOf`), and an account is *free* if it lies in the window but not in
  the hours others are clamped into.  `GapInside` is not inductive: an account clamped
  back stands between two free ones.  `BehindFree` is: each account spaced later is
  behind every free one before it, by a gap if it is free too.  The sorting plays no part.
* **CheckinFlow.**  `RetriesFresh`, `LoginJustified`, `ExpiryJustified` from one
  invariant: tokens in use were issued (`Issued`), so that a new one differs from
  all; a login that is not stored yet is nobody else's (`Unstored`); and, phase by
  phase, what a flow was refused (`Refused`).  A granted check-in passes what it was
  refused on to its balance refresh, so `Refused` also says that the row has none of it,
  unless the flow's login was not stored.
* **AccountTokens.**  `DefaultsAreBounded`, `TokensSerial`, `SavedStored` for any finite
  number of writers (`WriterFinite`), any tokens and any number of rows.  The first
  needs a count: no row is there when a writer counts none, so the defaults and the
  writers about to insert one are together never more than the writers.
  The others say of each call under way what its `SELECT` and `COUNT` still mean
  while nobody else writes (`FoundStored`, `NotFoundMissing`).
* **CaptchaCheckin.**  `AsksTheSolver`: in the solver's variables, the composition is
  `TurnstileSolver`, so `SolverTypeCorrect` and the bound of `InstancesHaveTime` carry
  over to it.  The latter holds for any number of instances and all durations with which
  the sleeps of a call fit into one attempt: after n instances at most n attempts and n
  sleeps have passed, because every wait of an attempt but the sleep ends at its deadline.
  + `ReportsDone` and `TriesEveryId`, for every list of candidate ids, any number of
    cookies, any budget and all kinds of panels.  Their invariant `CheckinInv` says where a
    flow can be that was told the check-in is made, and which message it then keeps
    (`TellsDone`), and that a flow which goes on without an answer has not had a right
    id behind it (`Asks`).  Both rest on what the plan of each phase contains, for which
    `FlattenSeq` is shown to keep every element of its sequences and add none
    (`FlattenGathers`).

Of the assumptions on parameters, the code provides these: the candidates of ids are
distinct (`cookie.go` 558-576), delays and counts are natural numbers, the client's timeout
is no longer than the replay window (both are constants), and `Nil` is no value.  That a
check-in window starts before it ends is assumed of the settings, which nothing validates
(`handler/event.go` 73-103).

Only model-checked: the liveness properties `CallsReturn`, `StopQuiets`,
`DueIsAttempted` and `StopEndsRefreshing` (the proof system has no ENABLED and no
fairness rules).  All other properties of the runs are theorems, some under the condition
named with them, which the runs satisfy but for one thing: `refresh_safe` also lets a
browser open sessions, which `NothingLost` leaves out.
The library's induction theorems take an operator as well.  Where a proof needs an
induction (`SetInduction` in `CaptchaCheckinProofs`, for the folds over a plan), it goes
through a minimal counterexample of a well-founded order, a statement about a set.
No module of the project declares a RECURSIVE operator.

## 5. Not modelled

* The other panels' adapters, and of the new-api adapter the login form, tokens,
  models and verification: requests and parsing without state of their own.  So are
  cookie and id extraction and the shield challenge in `cookie.go`; the models take
  their results as parameters.
* The web UI, configuration, encryption and the middleware: pure functions.
* Schema creation, listings, logs, events, export and import: single statements or
  loops over a file.
* The login check-in of AgentRouter (`checkin.go` 231-312) and rewards.

## 6. Plan

The modules of section 2 exist.  Left, most useful first:

1. The login check-in of AgentRouter in `CheckinFlow`.
2. `SessionExchange` as the panel of `ManagedRefresh`, by a refinement of its answers.
