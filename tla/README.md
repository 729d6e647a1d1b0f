# HealthGrid in TLA+

HealthGrid is a Django application that watches locks and sessions of registered
databases (PostgreSQL, MySQL, MariaDB, SQL Server), posts summaries to Teams
webhooks, and lets operators terminate sessions and run single INSERT/UPDATE
statements. This directory holds specifications of its concurrent parts, the TLC
configurations that check them and TLAPS proofs about them. Paths below are
relative to `src/monitor/` unless they start with `src/`; `README.md:n` with a
line number means `src/README.md`.

## The system

Everything runs in a handful of Gunicorn worker processes that share one
application database. Each process serves web requests and also runs one monitor
thread (`background.py`). `ATOMIC_REQUESTS` is not set: outside an explicit
`transaction.atomic()` every statement commits by itself, so between two
statements of one request anything else may happen.

| Part | State | Operations | Talks to |
| --- | --- | --- | --- |
| Lock monitor (`management/commands/monitor_locks.py`) | `LockAlert`, `LockNotificationState` rows | `process_instance`: snapshot, upsert, clear, decide, send, record | monitored database, webhooks |
| Long-query alerts (same file, 56-113) | `LongQueryAlert` rows | track, resolve, notify | monitored database, webhooks |
| Monitor loop (`background.py`) | `MonitorLease` row, thread state | acquire lease, run cycle, weekly report, cleanup, sleep | all of the above |
| Notifications (`notifications.py`) | `LockReport` rows (not modelled) | build and post cards and reports | webhooks |
| Notification settings (`views.py` 277-372) | `NotificationSettings` row | save the whole row | read by every pass |
| Kills (`views.py` 106-156, 766-804, 885-1007; `db.py` 744-893) | `AuditLog`, attribution in `LockAlert` | kill one, kill many, kill chain, terminate or drop a slot | monitored database |
| Query runner (`views.py` 1277-1460; `db.py` 488-600) | `QueryRunnerExecution`, `QueryRunnerGrant` | enable, grant, preview, commit, discard | target database |
| Users and permissions (`permissions.py`, `views.py` 375-529) | users, scopes, grants, slot rights | role, slot and instance access, new users | read by every request |
| Login and MFA (`auth_views.py`, `mfa.py`, `middleware.py`) | `UserMFA`, sessions, throttle counters | enrol, verify, recover, step up | cache |
| Instance registry (`views.py` 1022-1274, 1463-1497; `serializers.py`) | `RDSInstance` rows | register, extend, rename, remove, credentials, exclusion flag | monitored database |
| Cached partials (`views.py` 699-763) | cache entries | fill, invalidate | monitored database |

Interactions that matter: monitor passes share the tables with each other and
with dashboard kills; the lease decides which process runs a cycle; webhooks are
called inside a database transaction; the query runner writes two databases that
share no transaction; the settings row is read by every pass and rewritten as a
whole by the settings form; a removed registration takes the grants of every
account with it; a cycle works on the registrations as they were when it began.

What makes each part correct:

* lock monitor: one open incident per PID pair; the notification state says what
  the last card said; no card repeats the one before; one card per storm;
  attribution survives; once things settle the last card agrees with the database;
* lease: at most one process runs a cycle; a dead owner never blocks monitoring;
* query runner: previews change nothing; a commit takes effect once; the status
  agrees with what happened; effects are audited;
* long queries: no incident is sent twice, the marker tells the truth, a query that
  keeps running is reported;
* weekly report: one a week, and a week is marked only when a report was accepted;
* kills: what is audited and credited is what was killed, what is reported as not
  killed could not be, and a cached table does not show what is gone;
* users: a read-only account holds nothing of an operator, access is what was last
  saved, lists and requests agree;
* MFA: a recovery code works once, an enrolled secret was proved, a session's flags
  stand for a code, attempts are bounded, nobody loses an enrolment unasked;
* registry: the stored password fits the role and server, removals are audited, a
  group has one name, excluded instances stay off the shared channel.

The hazards of each, at their lines, are in `PROJECT.json`.

## Modules

| Module | Models |
| --- | --- |
| `LockMonitor` | `process_instance` of one database, with concurrent passes, kills, cleanup |
| `MCLockMonitor` | the lock keys of its TLC instances |
| `LockMonitorProofs` | theorems about `LockMonitor` |
| `MonitorLease` | `acquire_monitor_lease` and `monitor_loop`, with time |
| `MonitorLeaseProofs` | theorems about `MonitorLease` |
| `QueryRunner` | preview, commit and discard of one database's query runner |
| `QueryRunnerProofs` | theorems about `QueryRunner` |
| `LongQuery` | `process_long_queries` and `notify_long_query` of one database |
| `LongQueryProofs` | theorems about `LongQuery` |
| `NotificationSettings` | the settings row, the weekly report and history cleanup |
| `NotificationSettingsProofs` | theorems about `NotificationSettings` |
| `CardLedger` | abstract: what the readers of a channel are promised about the cards of one database |
| `KillActions`, `MCKillActions` | kills, slots, audit, credit and the two cached partials of one database |
| `KillActionsProofs` | theorems about `KillActions` |
| `MfaLogin`, `MCMfaLogin` | sign-in, enrolment, recovery codes, throttle, the middleware |
| `MfaLoginProofs` | theorems about `MfaLogin` |
| `UserAccess` | the user management forms and `permissions.py` |
| `InstanceRegistry` | registrations, their credentials, names and removal |
| `Exclusions` | the flag that keeps an instance off the shared channel, its writers and its reader |
| `Administration`, `MCAdministration` | `UserAccess`, `InstanceRegistry` and `Exclusions` composed |
| `AdministrationProofs` | theorems about the registry (part I), accounts (II) and flags (III), and for the composition (IV) |

`LockMonitor` implements `CardLedger` (`INSTANCE ... WITH` at the end of the module):
`shown` is the set on the last card, `pending` a card that is not recorded yet,
`unsure` is `drift`, `storm` is `stormSaid`. `Administration` composes the three
modules about `RDSInstance` and the accounts: the `registered` of `UserAccess` is the
domain of the registry's `row`, a removal is one step of both, and `active` is one
column for accounts and flags. The other modules meet in three places and are not
composed. A `LockMonitor` or `LongQuery` with one poller is a pass under a lease that
is held, with two it is a lease that was overrun, which `MonitorLease` shows to
happen when a cycle is long; for the same reason the loops of `NotificationSettings` do
not exclude each other. And `cleanup_monitor_history` deletes from three tables;
`LockMonitor` and `LongQuery` have its effect on theirs.

### LockMonitor

A pass is a sequence of actions named for what the code does; each is one
transaction or one autocommitted statement. `pc[p]` says where pass `p` is.

| Action | `monitor_locks.py` | Atomic because |
| --- | --- | --- |
| `Fetch` | 158-171 | reads of another system; locals only |
| `Upsert` | 116-155 | one `transaction.atomic()`; the partial unique index `unique_active_lock_alert` and `select_for_update` order concurrent ones |
| `Scan` | 175-188 | one SELECT; what follows works on the copies it returned |
| `Resolve`, `Label` | 189, 190 | two UPDATE statements, each committed by itself |
| `ListEligible` | 192-199 | one SELECT, before the state row is locked |
| `QuietPass`, `Suppress`, `NoChange` | 203-258 | the transaction on the state row, when it sends nothing |
| `ReportStorm`, `ReportChange` | 203-275 | the same transaction up to the webhook call |
| `Deliver`, `Commit`, `DeliveryFails` | 231-243, 267-279 | the webhook call, and the rest of the transaction after it |
| `Abandon` | `background.py` 34-41 | an exception or a crash: the open transaction is rolled back |

`RowLocked` is `SELECT ... FOR UPDATE`: no second pass decides while the first
is delivering. Between `Deliver` and `Commit` the card is out and nothing is
recorded; `Abandon` there is the lost record.

The environment: locks appear, pass the threshold and disappear (`Block`, `Age`,
`Unblock`); the notification window opens and closes; an operator kills a session
(`KillSession`), and a separate statement, which may fail or never run,
attributes the incidents (`MarkManualKill`, `MarkFails`); `cleanup_monitor_history`
deletes old resolved rows.

Abstractions: a lock is its PID pair, the incident identity of `lock_key`;
waiting time is relative to the threshold; fingerprints are injective on key
sets; a card is its event and its PID pairs; a delivery succeeds when at least one
webhook accepts it (README.md:581 says that is what "sent" means). Three history
variables record what the properties compare the tables with: `announced` (the
PID pairs on the last card accepted), `drift` (quiet hours or a rollback since)
and `stormSaid` (a recorded storm has not cleared).

### MonitorLease

Each process has one loop: `Start` draws an owner id, `Stamp` reads the clock,
`Acquire` or `Refuse` is the transaction on the lease row, `FinishCycle` ends the
cycle and sleeps, `Fail` is an exception, `Crash` the end of the process. `Tick`
advances time. The clock is read *before* the wait for the row lock, and both the
expiry test and the new `lease_until` use that reading; `age[w]` is how old it
is. The lease is never renewed during a cycle and never released.

`MaxDelay` bounds the wait for the row lock, `CycleLimit` the time from the clock
reading to the end of the cycle. The code bounds neither; the theorems hold for
every value.

### QueryRunner

A request is a record in `req` with its operation and the step it is at: `Begin*`
(permission and status checks), `RunPreview`/`RunCommit` (the target database),
`Save` (the execution row), `WriteAudit`; `Die` ends it anywhere. `applied[e]`
counts how often a statement took effect in the target database, which the
application never knows. `Autocommits` is the engine: `autocommit=True` for MySQL,
MariaDB and SQL Server (`db.py` 513, 532), a transaction for PostgreSQL. Histories:
`overlapped` (two decisions on one execution at once), `died`.

### LongQuery

`Fetch` is the snapshot with the two settings that steer the pass (`monitor_locks.py`
56-80). `ResolveAll` is the early return when alerts are off; otherwise `Track` is
one iteration of the loop of 82-104 (one `get_or_create`), in any order of the
candidates, and `ResolveEnded` the resolution and the decision of 106-111. `Post` is
one webhook of `notify_long_query`, whose failure is only logged; `Mark` sets
`alerted_at` if any of them accepted. `got[h]` records the rows webhook `h`
accepted, `lost` those of passes that died between a delivery and `Mark`. An
execution is its key (PID, user, start and SQL), so it ends only once. A row's
key, which `Fresh` and `Mark` do not look at, is its execution.

### NotificationSettings

`cfg` is the row. The settings form is `LoadForm` and, later, `SaveForm`, a
`save()` of every column; between the two, the weekly report writes its marker
(`FinishSending`) and the cleanup its own (`Cleanup`). `Loop` is the set of monitor
loops, one to a worker process. `StartWeekly` reads the marker without a lock
(`background.py` 44-58), whatever another loop is doing: its lease may have run out
under a report that is still being sent. A loop posts to one destination after the
other (`Post`) and dies anywhere (`Die`). Time counts slots of a day; weeks have
`WeekLength` of them. Histories: how many automatic runs some webhook accepted per
week, weeks whose run died before its marker (`crashed`), weeks whose marker a form
overwrote (`reverted`), weeks of runs that were under way together (`overlapped`).

### KillActions

`use[p]` counts how often the server has used PID `p`, so that a process is told from
a later one with its PID; `Exit`, `Start` and `Consume` are the monitored database.
`pg_terminate_backend` only sends a signal (`Signal`): a process in `dying` is still
there, is seen by snapshots and holds its slot until it exits. A request goes through the
stages of the code: `CheckLocks` (`_current_lock_pids`, on a connection of its own),
`KillNext`/`SkipNext` for its PIDs in any order and any number of times (the form may name
a PID twice, `views.py` 963), or `SelectBackend` and `TerminateBackend`, or `Drop`; then
`Audit`, `Credit`, `Invalidate`. A later result for a PID replaces the earlier one (`Other`,
`db.py` 838). `Unreachable` is a connection that fails first, `Fail` everything that ends a
request with HTTP 500 or kills its worker, before or after the termination it waits for.
`ReadPartial` and `StorePartial` are a cache miss of a dashboard request on a worker; of a
snapshot the model keeps what it shows of things that no action had touched.
`hit` records what a request really terminated, `yes` what it believes.

### MfaLogin

A request is two steps: `Read` takes the profile (`PostCode`, `OpenSetup`,
`AskAction`), and the action that answers writes back the fields the code saves, from
that copy. Secrets and recovery codes carry the number of the `new_enrollment` that
made them. The throttle has a counter for each pair of client address and account
(`Keys`), and a browser may send each request from another address. `RejectCode` and
`CountFirst` are `cache.incr` and the `cache.add` after it. A reset with a recovery code
saves the profile twice: `PopForReset`, then `Regenerate`.
`Bounce` is the middleware, which flushes a session that has not passed MFA.
Histories: `spent`, `respent` (codes accepted, and accepted again), `revived` (codes an
overlapping request made valid again), `mixed` (a save over an enrolment the request
had not seen), `wrong` (codes checked since each counter began), `proof`.

### UserAccess

A transaction is an action for the locks it takes and one for its end: `LockRole`
and `CommitRole`, `LockSlot` and `CommitSlot`. `UpdateGrants` between the first two is the
snapshot of the UPDATE of the grants (`views.py` 403-407), which misses rows inserted by a
form that commits while it waits; locks on the rows of grants are left out otherwise, since
they only take orders away. Instance access reads the role without a
lock (`ReadAccess`), deletes the rows it sees (`DeleteGrants`) and inserts the chosen
ones (`ReplaceGrants`), which the unique constraint may refuse (`Collides`). `RollBack`
is every failure. `InstanceRole`, `CanView`, `CanOperate`, `CanNotify`, `CanUse` and
`Accessible` are the functions of `permissions.py`. `Legacy` accounts are those older
than grants and scopes. Histories: `stale` (access saved by a request that had read an
older role, or saved while the role was being switched), `merged` (access left by two saves that overlapped), `intended`.

### InstanceRegistry, Exclusions, Administration

A password is the pair of the role and the server it was issued for, so that
`ControlPasswordFits` can say what no single form checks. Requests load a row (`Load`)
and save it later: `SaveCredentials` three columns, `SaveApi` every column, `Extend` a
copy of it as new rows; `Rename` updates a group at once. `LogRemoval` and `Delete` are
two statements. `_log_audit` swallows a `DatabaseError` (`views.py` 118-122), after which a
removal goes on without its entry: `LogFails`, with the history `lost`. `DeleteGroup` is one
transaction over rows listed before; an error caught inside it still makes the database
refuse the rest of the transaction, so a group whose entry fails is not removed (`GiveUp`).

In `Exclusions`, `ClearFlags` and `MarkChosen` are the two UPDATE statements of the global
form, `SaveOwnerForm` the owner form, `SaveRow` the API's save of a whole row, and
`ReadInstances` the one query of a monitor cycle, whose rows `ProcessInstance` uses one
after the other. `AddInstance` and `ExtendGroup` write the flag of new rows, in
`Administration` as one step with `Register` and `Extend` of the registry. `doubtful` names the instances whose flag may not be the last choice.

A behaviour of `Administration` has one `subject`, because the components meet only in
removals and in `is_active`: accounts while instances are removed; the credentials of
registrations; their names and removals; their flags. The product of all four would be
their interleaving and nothing more.

## Runs

| Run | Checks | Instance |
| --- | --- | --- |
| `storm` | the state row against the cards sent; `ImplementsCardLedger` | 1 poller, 2 locks sharing a blocker, 2 rows, storm threshold 2, quiet hours |
| `overlap` | incidents, attribution and `NoRepeatedCard` under concurrency | 2 pollers, 1 lock, 2 rows, one killable session |
| `live` | `AnnouncementConverges` under fairness | 1 poller, 2 locks, storm threshold 2 |
| `lease` | one unexpired holder whatever the length of cycles, monitoring resumes | 2 workers, lease 4, delay up to 2, cycles up to 6 |
| `query` | record, effect and audit agree | 3 requests, 1 execution, a user and an administrator |
| `query_autocommit` (violated) | db.py:557-558 | 2 requests, autocommit engine |
| `long` | the marker against the cards accepted, no incident sent twice, `LongQueryReported` under fairness | 1 poller, 2 executions, 2 rows, 2 webhooks |
| `weekly` | one report per week, truth of the marker | 2 weeks of 2 days, 2 destinations, 2 loops |
| `signin` | codes, secrets, session flags, throttle, enrolment | 2 browsers, 2 addresses, 2 accounts of which one enrols, 2 enrolments with one recovery code, limit 1 |
| `kill` | audit, credit, refusals, cached partials | 2 interchangeable PIDs used up to twice and named any number of times, 1 slot, 1 operator, 1 worker, PostgreSQL |
| `kill_mysql` (violated) | db.py:805 | as `kill`, another engine, no slots |
| `desk` | accounts, credentials, names, removals, exclusion flags | 2 administrators, 1 account, 2 registrations, 1 slot right, 2 names, 2 servers, 1 control role |

Why the bounds are enough. Two locks are the smallest number for which a card can
be an update rather than the first or the last, for which a storm threshold
differs from "any lock", and for which a storm can shrink below its threshold
without clearing. One lock suffices for the interleavings of two passes, which
only meet on rows of one key or on the state row. Two incident ids let a resolved
row and a new row of the same pair coexist; `CleanupHistory` frees ids, so a run is
not limited to two incidents in all. `Upsert` waits for a free id when none is
left, which happens in no run for ever because cleanup is fair. Two
workers, one of them overrunning its lease by as long as the cycle of the other,
show every way in which two cycles can overlap; the theorem holds for any number.
Three requests let a third one find what two overlapping ones left. `MaxApplied = 2`
tells "once" from "more than once", and the counter saturates there. Two
executions let one be found while the other is already marked, and two webhooks
are the smallest number for which a card can be accepted by one and refused by the
other. Two days are the shortest week in which the day of the report can move
forward and backward, and two weeks are needed for a marker of the week before. Two
loops are every overlap of runs: what a third one does to the marker, the second can do.
In `signin`, `Enrolling` keeps one of the accounts from ever enrolling: it is there to
sign in and out in the browser of the other, which needs no more. One recovery code is
enough to be used twice, and two enrolments to be mixed; `wrong` is bounded by
`AttemptsBounded` itself. Limit 1 has a counter below the limit and one at it, and two
browsers reach every one of the further checks that the property allows; two addresses
are enough for an account to have two counters. In `kill`, an operator's actions do not look at another
operator's request, and interfere through the database only, which `Exit`, `Start` and
`Consume` already move as they like; a snapshot misses what another operator has hit as
it does what has exited. Two uses of a PID are one reuse. In `desk`, two administrators are every pair
of overlapping forms, and one account suffices because no form touches two. Two
registrations are one group with a sibling; a second group appears in no property
that compares rows, and `Group` has one element.

The two violated runs are disagreements between the code and its own text; the
`findings` of `PROJECT.json` quote both sides. Others were met while modelling. They
have no run of their own; most appear as exceptions of the properties, and the
definitions that state them remain in the modules:

* README.md:507 promises a final clear. A pass that dies after its card was
  accepted rolls the record back (`drift` in `AnnouncementConverges`); if the lock
  is gone by the next pass, the record and the database are both empty and nothing
  is sent (`monitor_locks.py` 254-258).
* README.md:511 promises that manual kills are labelled in the final update; an
  attribution that arrives after the pass has read its rows is not
  (`LockMonitor!KillReported` is violated). Nor is a kill of a PID that the request names
  twice: the second result, FALSE, replaces the first (`views.py` 963, `db.py` 835-838; the
  table has a check box per blocking pair, `activity_table.html` 107-108), so the terminated
  session is logged as not running and not credited (`KillActions!KillsAreCredited`).
* README.md:517 promises a fresh summary after quiet hours; a storm that was
  recorded stays silent (`LockMonitor!SurvivorsAnnounced` is violated).
* README.md:527 promises one alert per execution. Switching the alerts off resolves
  every row (`ResolveAll`), so switching them on again alerts a running execution
  once more: `IncidentSentOnce` is about rows, not executions.
* README.md:535 promises tracking to avoid duplicate weekly sends; a settings form
  loaded before a report overwrites its marker (`TrackedOncePerWeek`; `reverted` in
  `OneReportPerWeek`), and two loops whose reports overlap both pass the check of the
  marker before either writes it (`overlapped`).
* apps.py:14 says that the lease prevents duplicate cycles; a cycle longer than the
  lease overlaps the next one (`MutualExclusion`, which `CyclesExclusive` proves for
  short cycles).
* views.py:1459 tells the user that a discarded preview changed nothing. A discard
  that overlaps a commit can be saved after it (`overlapped` in `RecordIsTruthful`
  and `DecisionIsFinal`).
* README.md:47 promises an audit history of control actions. An entry that the application
  database refuses is dropped and the action goes on (`views.py` 118-122; `lost` in
  `RemovalsAudited`, `fault` in `EffectsAudited`).
* README.md:438 says that grant changes are audited: a switch to Read-only clears the
  slot rights with no entry (`views.py` 395-411).
* README.md:440: an older account without a scope keeps its access until one is
  assigned; saving its role creates the scope, and hides every instance (`CommitRole`).
* `serializers.py:90` asks whether `control_password` is in `validated_data` after
  removing it, so repointing always clears the credentials, new ones included
  (`Repointed`); `serializers.py:106` inserts a registration again that was removed since
  it was loaded (`SaveApi`).
* `views.py:484` lets a new read-only account be stored with
  `can_manage_notifications`, which no check honours (`ReadNew`), and saving a role turns
  every grant of the account to that role (`RoleGrants`).

## Fairness

`AnnouncementConverges` and `LongQueryReported` assume weak fairness of each
poller's pass (the loop runs until its process dies and every step is a bounded
call: database and webhook calls have timeouts) and of `CleanupHistory`, which the
loop calls in every cycle. Their premise is that the locks, or the one query, stop
changing, that the window stays open, and that from some point on no delivery
fails and no pass is abandoned (`Healthy`; the step that ends a pass with nothing
to send changes the state exactly as an abandoned pass does, so `Healthy` allows
it). Without the premise nothing can be promised: a webhook may reject every card.

`MonitoringResumes` assumes weak fairness of each worker's loop (Gunicorn restarts
a dead worker and `time.sleep` returns) and of time; its premise is that
exceptions and exits stop. No strong fairness is used anywhere.

## Proofs

The `*Proofs` modules are checked by TLAPS for every value of the constants that
satisfies the modules' named assumptions:

| Theorem | Says | Argument |
| --- | --- | --- |
| `TypeCorrect` | `[]TypeOK` | inductive as it stands, one step per action |
| `CardsSerialised` | `[]OneCardInFlight` | a transaction starts only when `~RowLocked` |
| `FingerprintTruth`, `RecordTruth`, `CardsDiffer` | `[]FingerprintMatchesKeys`, `[]RecordMatchesLastCard`, `NoRepeatedCard` | `NoteInv` |
| `StormFlagTruth`, `StormsReportedOnce` | `[]StormFlagKept`, `OneStormCardPerStorm` | `StormInv` |
| `OneIncidentPerLock`, `AttributionKept`, `ResolutionFinal` | `[]OneOpenIncidentPerKey`, `ManualKillSticks`, `ResolvedIsFinal` | `RowsEvolve`: what any step may do to a row |
| `LeaseTypeCorrect` | `[]TypeOK` | inductive as it stands |
| `UnexpiredHolderUnique` | `[]OneUnexpiredHolder` | `LeaseInv` |
| `CyclesExclusive` | `[]MutualExclusion` if `CycleLimit < LeaseLength` | from `LeaseInv` and the bound on `age` |
| `AlertTypes`, `MarkerTruth`, `MarkerComplete` | `[]TypeOK`, `[]AlertedMeansSent`, `[]SentIsMarked` | `AlertInv` |
| `OneRowPerExecution` | `[]OneOpenRowPerExecution` | only `Track` opens rows, and it looks first |
| `SentOnce` | `[]IncidentSentOnce` if there is one poller | `SentInv`, from `SentIsMarked` at each lookup |
| `RunnerTypes`, `DecisionsFinal` | `[]TypeOK`, `DecisionIsFinal` of `QueryRunner` | `OrderInv` |
| `RecordTruth`, `AppliedOnce` | `[]RecordIsTruthful`, `[]AppliedTwiceOnlyIfExcused` if `~Autocommits` | `TruthInv` |
| `EffectsAreAudited` | `[]EffectsAudited` if `~Autocommits` | `CommitsAudited` |
| `LedgerImplemented` | `ImplementsCardLedger` | `NoteInv` and `StormInv`; one step of `CardLedger`, or a stutter, per action |
| `AccessTypes`, `ReadOnlyAccounts` | `[]TypeOK`, `[]ReadOnlyHoldsNothing` of `UserAccess` | `AccessInv` |
| `FlagTypes`, `FlagsFollowChoices`, `ChannelFollowsChoices` | `[]TypeOK`, `[]FlagsAsChosen`, `[]ExclusionsRespected` | `FlagInv` |
| `RegistryTypes`, `RemovalsLogged`, `PasswordsFit`, `GroupsShareName` | `[]TypeOK`, `[]RemovalsAudited`, `[]ControlPasswordFits`, `[]MembersShareName` | `RegistryInv` |
| `ReadOnlyAtTheDesk`, `RemovalsAuditedAtTheDesk`, `PasswordsAtTheDesk`, `NamesAtTheDesk`, `ChannelAtTheDesk` | the same five properties of `Administration` | `DeskInv` |
| `AccessAtTheDesk` | `[]GrantsAreTheLastSaved` of `Administration` | inductive with the types of accounts (`AccountsInv`) |
| `ListsAtTheDesk` | `[]ListedAreViewable` of `Administration` | `SeenAlike`: the two definitions agree on every account |
| `SettingsTypes`, `WeeklyOnce`, `MarkerIsTrue` | `[]TypeOK`, `[]OneReportPerWeek`, `[]MarkerMeansSent` | `ReportInv` |
| `KillTypes`, `AuditedEffects`, `CreditsEarned`, `PartialsCurrent` | `[]TypeOK`, `[]EffectsAudited`, `[]CreditedWereKilled`, `[]CacheShowsFinishedActions` | `KillInv` |
| `RefusalsTrue` | `[]RefusedWereMissingOrProtected` if `Postgres` | `KillInv` |
| `LoginTypes`, `EnrolmentStays` | `[]TypeOK`, `EnrolmentKept` | inductive as it stands; what any step does to a row |
| `FlagsAreProved` | `[]SessionFlagsProved` | `SessionInv` |
| `GuessesBounded` | `[]AttemptsBounded` if there is a browser | `ThrottleInv` |
| `CodesSpentOnce`, `SecretsAreProved` | `[]CodeAcceptedOnce`, `[]EnrolledSecretIsProved` | `RowInv` |

`NoteInv` is needed because the recorded fingerprint says nothing of the card
that is out but not yet committed. It says that one card is in flight, that the
fingerprint matches the stored keys, that a blank fingerprint without drift goes
with an empty key set, that a card already delivered is `announced`, and that a
change card still in flight differs from `announced` unless there was drift.
`StormInv` says that while a recorded storm lasts the flag is set, open rows exist
and no card is in flight: a storm is silent until it clears.
`RowsEvolve` is a relation between two states rather than an invariant: no row is
reopened, no key changes, no attribution is overwritten, and a new open row's key
had none; the three theorems follow. `LeaseInv` says of every worker inside its
lease that the row is its own and `left + age` is exactly the length of the lease,
so that another worker's stale reading of the clock cannot see it expired.
`AlertInv` adds to the two properties of the marker that a pass holds an accepted
card only between the first webhook and `Mark`, that all its rows are then on what
that one webhook accepted, and that neither the copies of a pass nor the history
names a deleted row: without it a new row with a reused id would count as sent.
The run `long` has one poller; `MarkerTruth`, `MarkerComplete` and
`OneRowPerExecution` hold for any number of overlapping passes.

`SentInv` needs one poller, and the hypothesis says so: with two, a long-query card
sent twice is a real behaviour.

`AccessInv` speaks of the accounts and of the forms under way. Access
that was saved by a request which had read an older role, or while a role form was waiting
to rewrite the grants, is excused (`stale`), nothing else is; what a form is about to write is consistent with the role it read; the
account of a pending slot form is an operator; and the two transactions that lock
the account exclude each other, without which the role could change under a slot form.
`FlagInv` says that the flags a global form still has to mark are down. `RegistryInv`
says that what pending requests hold is fit to be written: every stored or copied row
has a password issued for its role and server (none without lock control), copies
agree with their row and with each other on its group, and the rows about to be
deleted have their audit entries or lost them. `DeskInv` is `RegistryInv` with one of the other two,
for the component a behaviour of `Administration` is about; its steps are steps of the
components, so their step lemmas carry over. It assumes in addition that `Name` and
`Endpoint` are not empty. About accounts it has `GrantsAreTheLastSaved` beside
`AccessInv`: that property needs the types only, since the transaction of a form becomes
visible as a whole at its INSERTs, which either find no row but its own or make the
account `merged`.

`ReportInv` is about the weekly runs. The marker stands for an accepted report in the row
*and in the copies that forms have loaded*, which a save may put back. Nothing has been
sent for a week that has not come. Outside the weeks that are excused, nothing has been
sent for a week after that of a run, and a week whose report is out is over, or marked, or
is the week of a run that is still sending: this is why the next run finds the marker or
another week, and why a second run makes the weeks of both `overlapped` when it does not.
The week of a slot is a division, so `WeeksInOrder` proves first that it is monotone.

`KillInv` is a conjunction over operators (`Good`), because requests meet through the
database and the cache only. It says what a request has recorded at each stage, among it
that every process it hit is told of by the last result for its PID (`Recorded`); that what
it hit is out of reach of later snapshots (`Taken`: exited or signalled, which only grows);
that a refused PID was last used not later than now (`Refused`); and that no snapshot of the
worker shows an effect as untouched unless it was read too early (`Shown`). The hypothesis of `RefusalsTrue` excludes the other engines, on which the
run `kill_mysql` finds the opposite.

`MfaLogin` has three invariants, independent of each other. `RowInv` says of rows and of
the copies that requests hold that enrolments are numbered in the order they were made and
belong to one account, that what waits for confirmation is the row's own secret, that a
spent code can be used again only if it was `revived`, and that a row which is not `mixed`
has codes of its own secret only; what a step can do to a row (leave it, take a code from
it, make a new enrolment, confirm one) is proved once. `SessionInv` adds to
the property that an anonymous session has no flags, and that a request behind the sign-in
form acts for the account of its session. `ThrottleInv` counts, for each key: the counter plus
the codes waiting to be checked never exceed the limit plus the further browsers, and the wrong codes
exceed the counter by at most one for each of those, since `cache.incr` and `cache.add` are
two steps. Without a browser `AttemptsBounded` would compare with a negative number of
further browsers, hence the hypothesis of `GuessesBounded`.

TLC checked the inductive invariants on the instances of the runs, and `KillInv` besides
with two operators on one PID and with `Postgres` false, before they were proved.

`OrderInv` says that a preview is alone on its execution until the row exists, that
two undecided requests on one execution have made it `overlapped`, and that a decision
that has not been saved finds a pending status otherwise. `TruthInv` says what is known
of the target database at each point: nothing was applied before there is a row, the
status is truthful while no decision is under way, and a decision knows what its
statement did (`Knows`; after an error on commit, only that it applied at most once).
`CommitsAudited` says that every effect has its entry, or a request that is still to
write it, or a request that died. The three theorems with `Autocommits = FALSE` as
hypothesis are false without it, as the run `query_autocommit` shows.

Every property of a passing run is proved but the three liveness properties
(`AnnouncementConverges`, `LongQueryReported`, `MonitoringResumes`): liveness and ENABLED
are beyond the prover, and those stay with TLC. Where a theorem has a hypothesis (one
poller, no autocommit, PostgreSQL, short cycles) the property is false without it. The
proofs are about the specifications as they are, bounds of counters included: `MaxUse`,
`MaxTime`, `MaxApplied` and the like may have any value the modules' assumptions allow.

## Not modelled

Formatting of cards and CSV, SQL text and row shaping of the catalog queries,
templates and static files, `LockReport` rows with the expiry of their links and the button
that sends a report at once (it writes nothing that the other writers read), encryption and masking, security headers, dashboard
links, Django admin, migrations, deployment. `PROJECT.json` lists every component
with its status. Deleting a registration while a pass over it runs is not
modelled either: the cascade makes the rest of the pass fail, which is `Abandon`.

Parts of modelled components that are left out: the password form and its throttle
(`auth_views.py`), which uses the functions of the one of the codes with a key of client
address and user name; the expiry of session cookies; registry columns that no other step reads
(main credentials, database names, webhook addresses, query-runner credentials), which
`SaveApi` and `Extend` copy along with the ones that are modelled; the middleware's
redirects of sessions that are signed in, which change no state.

## What is left

1. The composition of `MonitorLease` with `LockMonitor`, in which a second poller
   runs only while a lease is overrun.
2. A refinement for the weekly report: an abstract channel that gets one report per week,
   implemented by `NotificationSettings` as `CardLedger` is by `LockMonitor`.
3. The registry columns named above, should a property come to need them.
