# AbuseBox in TLA+

AbuseBox watches IP addresses and domains: it checks each of them against DNS
blacklists, looks at its server, certificate and domain registration, keeps a
history of the results, logs what changed and sends alerts. This directory
holds TLA+ models of the parts of it where order, concurrency and failure
matter, the TLC runs that check them, and proofs of the results that should
hold for any number of threads, assets and checks.

Paths below are relative to `src/backend/app/` unless they start with `src/`.

## 1. The system

One FastAPI process serves the API from a pool of threads, next to one poll
thread of the scheduler, a small pool of threads for background re-checks, and
short-lived threads for manual scheduler runs and for alerts. They share an
SQLite database through SQLAlchemy sessions, one session per request, job or
cycle, and a few module-level variables. The web interface is a React client.

| Component | State | Operations | What is hard about it |
|---|---|---|---|
| Recording check results (`services/monitoring.py`) | rows of `check_histories` and `asset_events`; `last_checked`, `is_blacklisted` of the asset; `_queued` and the job queue of `_recheck_pool` | `record_check`, `latest_check`, `queue_rechecks`, `_recheck_one`, `prune_history` | many sessions record for one asset; values read before a check of several seconds are used after it; assets vanish meanwhile |
| Check cycle (`services/scheduler.py`) | the cycle's session, its due assets and their results; `_cycle_lock` | `run_cycle`, `due_hostnames`, the save loop, `_maybe_prune` | objects that expire at a commit; one failed save among many; assets that a re-check has taken already |
| Scheduler control (`services/scheduler.py`, `api/routers/settings.py`) | `_scheduler_thread`, `_stop_event`, `scheduler_enabled` | start, stop, restart, poll loop, save settings, run now | a join that times out; two handlers changing the same event and variable |
| Event detection (`services/events.py`, state readers of `services/health.py`) | the previous result, `is_blacklisted`, the log | `detect_events` | sequences of checks in which parts have no answer; thresholds and lists that change between two checks |
| Assets API (`api/routers/hostname.py`) | `hostnames` | create, bulk create, CIDR import, update, bulk action, re-check, delete | first checks in the request; delete beside a running check; count, then insert |
| Check runner (`services/check_runner.py`) | none | run the enabled checks of an asset in parallel | nothing is shared by its threads |
| Settings (`services/app_settings.py`, `models/app_settings.py`) | one row | read, create on first use | the creation commits the caller's session |
| Blacklist checks (`services/dnsbl.py`) | cache of list health | query lists in two passes, test points, the inconclusive threshold | failed, refused and lying lists must not decide an asset's status |
| WHOIS lookups (`services/whois_lookup.py`) | bounded cache | look up, keep, serve stale answers | threads evict and store at once; failures must not be kept |
| Notifications (`services/notifications.py`) | none (reads settings) | select, mail, post | a crash between commit and send |
| Sign-in and accounts (`api/routers/auth.py`, `core/security.py`) | `users`, `token_version`, failed attempts per address | log in, log out, refresh, change users and passwords | the last administrator; a bounded table of attempts |
| Token refresh in the browser (`src/frontend/src/services/auth/authProvider.jsx`) | `isRefreshing`, `failedQueue`, the token | intercept 401, refresh once, retry | many requests fail at once; sign-out meanwhile |
| Asset list in the browser (`src/frontend/src/pages/dashboard/Assets.jsx`) | the list, the selection, answers under way | fetch, select, delete, bulk actions | answers overtake each other; others change the list too |
| Public check and delist tracking (`api/routers/blacklist.py`) | sliding window per address; status in a stored result | check, set the delist status | a result read before it is written |
| DMARC reports (`services/dmarc_parser.py`, `api/routers/dmarc.py`) | `dmarc_reports` | upload | duplicate check, then insert |
| Start-up (`main.py`, `db/`, `core/config.py`) | schema, first user, key and password files | migrate, seed, load the key | a crash between two of its steps; two processes at once |
| Health summary (`services/health.py`) | none | grade an asset, decide what is overdue | boundaries of intervals and thresholds |
| Single checks (certificate, server, mail security, DNS records) | none | one network call each | nothing but the network |

How they interact: the settings handler starts and stops the poll thread; the
poll thread and "Check due assets now" call `run_cycle` under `_cycle_lock`;
the cycle asks the pool which assets are queued, runs the checks and calls
`record_check` for each; so do pool jobs and the create and re-check handlers.
`record_check` reads the previous result, calls `detect_events`, writes
results and events in one transaction, and starts a thread that sends alerts.
Deletes and changes of assets come in at any time from other requests. Every
check looks at blacklists and WHOIS through caches that all threads share. The
browser keeps its session alive by refreshing tokens behind the pages' backs.
Before all that, each process reads or makes the signing key, migrates the
schema and creates the first administrator.

What makes each correct, in a sentence: an asset has one current result, its
newest, and it survives pruning and concurrency; a result is never saved for a
deleted asset, and never lost for an existing one; `is_blacklisted` and the log
say what the checks found, once per change; a queued re-check ends and a due
asset is checked; two cycles never overlap; the scheduler runs exactly while it
is switched on; no account locks everyone out; a failed lookup is not cached
and a failed list decides nothing; start-up can be repeated from any point.
`PROJECT.json` lists the places where each of these can go wrong ("hazards").

## 2. The modules

| Module | Models | Extends or instantiates |
|---|---|---|
| `Monitoring` | recording, the cycle, the pool, the requests that touch checks | |
| `MCMonitoring` | symmetry of threads for TLC | `Monitoring` |
| `MCScheduling` | check cycles and the threads that run them, for TLC | `Monitoring`, instance of `SchedulerControl` |
| `CheckLedger` | abstract: what readers of the history rely on | |
| `MonitoringLedger` | `Monitoring` implements `CheckLedger` | `Monitoring`, instance of `CheckLedger` |
| `MonitoringProofs` | theorems about `Monitoring`, the flag and the log | `Monitoring` |
| `MonitoringLedgerProofs` | theorems about the refinement | `MonitoringLedger`, `MonitoringProofs` |
| `EventDetection` | `detect_events` over the history of one asset | |
| `MCEventDetection` | the days to expiry used by TLC | `EventDetection` |
| `EventDetectionProofs` | theorems about `EventDetection` | `EventDetection` |
| `SchedulerControl` | poll thread, its control, manual runs | |
| `SchedulerControlProofs` | theorems about `SchedulerControl` | `MCScheduling` |
| `TokenRefresh` | the session in the browser and the server's token rules | |
| `AssetList` | the list of assets in the browser | |
| `MCBrowser` | the two together, for TLC | `TokenRefresh`, instance of `AssetList` |
| `BrowserProofs` | theorems about `TokenRefresh` and `AssetList` | `MCBrowser` |
| `WhoisCache` | WHOIS lookups over their cache | |
| `WhoisCacheProofs` | theorems about `WhoisCache` | `WhoisCache` |
| `Dnsbl` | blacklist lookups, retries and test points | |
| `PublicLimit` | the sliding window of the public check | |
| `LoginLimit` | the lock-out after failed logins | |
| `Startup` | signing key, migrations, first administrator | |
| `StartupProofs` | theorems about `Startup` | `Startup` |
| `MCServer` | the five server parts together, for TLC | `WhoisCache`, instances of `Dnsbl`, `PublicLimit`, `LoginLimit`, `Startup` |
| `ServerProofs` | theorems about `Dnsbl`, `PublicLimit`, `LoginLimit` and `Startup` as `MCServer` instantiates them | `MCServer`, instance of `StartupProofs` |

Definitions named `Wrong...` are faulty variants of the definition that follows
them. No specification uses them; each property is tested against one.

### Monitoring

Threads are the constant sets `Cycle` (whoever holds `_cycle_lock`), `Workers`
and `Requests`. `session[x]` is what thread `x` has read and where it is; the
database is `exists`, `monitored`, `fresh`, `flag`, `checks`, and `told`, the
kind of the asset's last blacklist event. The semantics of the database are
those of SQLite under sessions with `autoflush=False` and
`expire_on_commit=True`:

- a SELECT before a write is a transaction of its own, hence `ReadPrevious` and
  `Save` are two steps, and so are the two halves of a delete;
- from the first UPDATE to the COMMIT a session holds the only write lock,
  hence `Save` is one step that marks older rows, adds the new one, sets the
  asset's columns and logs the event;
- the ORM writes a column only if it differs from the value it loaded
  (`FlagWritten`); an UPDATE that matches no row raises (`RowMatched`);
- objects expire at each commit and rollback, and touching one whose row has
  gone raises (`expired`, `LoopRaises`);
- the next row id is the largest plus one, so ids are reused.

| Action | Code |
|---|---|
| `ReadPrevious`, `Save`, `SaveFails` | `record_check`, for every caller |
| `StartCycle`, `SelectDue` | `due_hostnames`: first the queued ids, then the query |
| `NextResult`, `SkipEmpty`, `NextAsset` | one turn of the save loop |
| `AbortCycle`, `FinishCycle` | the outer handler; `_maybe_prune` and the end |
| `QueueRecheck`, `StartJob`, `FinishJob` | `queue_rechecks`, `_recheck_one` |
| `Create`, `BulkCreate`, `Recheck`, `SetMonitored` | the handlers of those names |
| `Delete`, `CommitDelete` | `db.delete` loads the children, the commit deletes those |
| `Elapse`, `Crash` | an interval passes; the process dies and restarts |

Abstractions: a result is its blacklist outcome (`EventDetection` has the rest):
listed, clean, an errored check, or an inconclusive run with a listing
("partial") or without one ("unclear"); an interval has passed or not; the prune cutoff is any id; `told` remembers the
last event even if pruning has removed its row. `Elapse` waits for the first
checks of a create request: intervals are minutes, those checks are seconds.
The settings row exists. Alerts are not part of this module.

### EventDetection

One asset, whose checks follow one another. A result has a part per check, and
`None` where that check was off, raised, timed out or had no date. A result
holds the days a certificate had left, but the date on which a registration
expires: `detect_events` counts from now to the dates of both results
(`DaysLeft`), so the model has a day, which `NextDay` moves on. `Missing`
says which parts may be without an answer, `Watched` which are switched on;
`Adjust` changes the thresholds and `Upgrade` the lists between two checks.
`said` is what a reader of the whole log believes: the lists the asset is on,
whether the server is down, the state of the certificate, a standing warning
about the domain. The properties compare it with the last result and the day on
which that was recorded (`checked`).

### SchedulerControl

Each step touches one shared thing: the settings row, `_stop_event`,
`_scheduler_thread` or the state of the thread it refers to. A cycle is held or
not. `join(timeout=5)` returns when the thread has ended, when a cycle outlasts
it (`LongCycles`), or when another request has cleared the event so that the
thread polls on. `Threads` bounds the poll threads that are alive or referred
to; the name of one that nothing refers to any more is used again.

### TokenRefresh

One account, any number of tabs. A token pair is abstracted to the
`token_version` and the epoch it was made in; an access token is good while both
are current, a refresh token while its version is. JavaScript runs to
completion, so one callback with the promise continuations it releases is one
action. React's part is three values per tab: the pair last handed to the state
setters (`requested`), the pair rendered, and the pair the effects last ran for;
beside them are axios' header (per tab) and localStorage (shared).

| Action | Code |
|---|---|
| `Send`, `Answer` | a call of a page; the response interceptor and what the page does with the answer |
| `RefreshGranted`, `RefreshRefused` | the continuation of the refresh, with `processQueue` and the retries |
| `Render`, `RunEffects` | the provider renders, its effects write header and storage |
| `Serve`, `ServeRefresh` | `get_current_user` with login, logout, `change_password`; `refresh_token` |
| `LoseCall`, `LoseRefresh`, `Expire`, `Revoke` | network, time, other devices |

A call under way never carries a token that expires before it is served: tokens
live for minutes, calls for seconds.

### AssetList

The page's list and selection against the ids in the database. `Open`,
`AutoRefresh`, `ServeFetch`, `Fetched`, `FetchFailed` are `fetchAssets`;
`Toggle` is `toggle` and `toggleAllShown`; `handleDelete`, `runBulk` and
`handleSubmit` each have a step of the page, one of the server, one for the
answer, and one for its loss. `Elsewhere` is another user. A target may turn out
to be a duplicate or over the limit; filters, sorting and paging only decide what
can be toggled.

### WhoisCache

An answer is abstracted to the moment the registry gave it, so that its age is
what the properties are about. Each critical section of `_cache_lock` is one
step (`Begin`, `Keep`, `Refuse`), the query between them takes up to `MaxQuery`.
The clock is read just before the lock, which is folded into the step. One entry
per registered domain. `Keep` prunes expired entries and evicts the oldest, even
when the domain it stores has an entry already; hence `MaxEntries - 1` in
`RefusalsAreCovered`.

### Dnsbl

A list answers as RFC 5782 wants it, or in one of the wrong ways the source
names (silent, flooding, refusing), and may change between them; any query may be
lost. `Begin`, `Complete`, `Retry`, `BeginTests`, `Finish` are the passes of
`check_dnsbl_providers`. `_answers_test_points` runs in a thread per list of a
check, and in one per request for the health of the resolver (`Dashboards`):

| Action | Code |
|---|---|
| `Remembered` | the provider passed not long ago |
| `Ask`, `FirstAnswer` | the query for 127.0.0.2, which has to be listed |
| `SecondAnswer` | the query for 127.0.0.1, asked only then |
| `Remember` | both were as wanted: the clock is read, and the success stored |

So a list may go wrong between the two queries, or before the clock is read, and
is remembered as passed from then on. A test takes up to `MaxTest` from its first
answer to there (the resolver's timeout); `Steady`, which the properties rest on,
allows for that time beside `TTL`. Which resolver answers is left open. A test is
remembered for some time (`_TEST_POINT_TTL` is 1800 seconds), so `TTL` is
positive.

### PublicLimit and LoginLimit

Both keep time stamps per address in a table behind a lock, and read the clock
before they wait for it; so stamps are entered out of order, up to `MaxWait`
apart. `Arrive` and `Enter` are the two halves of `_enforce_public_check_limit`;
`Begin`, `Fail`, `RecordFailure`, `Succeed`, `Inactive` are `login` around
the verification of the password, which holds no lock. Each has the history of
what was let through or failed, which the properties count. A list of stamps is
the set of its elements, numbered in the order they were entered.

The windows of the properties are shorter than those of the code by twice
`MaxWait`, and both halves are needed. A stamp is dropped by a request whose clock
is ahead of one still waiting, which then counts it no more. And an entry is
forgotten by its last stamp, which may be older than the one before it. For the
lock-out, `LockTime` is at least `Window` (both are 15 minutes in the code): a lock
shorter than the window would let a key fail again inside it.

### Startup

Processes start on one data directory, on what any release has left there, and
may die at each step (`Crash`). On SQLite each CREATE, ALTER and DROP is committed
by itself until the first INSERT or UPDATE opens a transaction; hence one step
for each of these and one for the rest of an upgrade (`FinishUpgrade`). The
indexes of a table follow its CREATE TABLE as a step of their own
(`CreateIndexes`); `unindexed` holds the tables that lack them, `indexing` the
table whose indexes a process has to create before it goes on.

| Action | Code |
|---|---|
| `ReadKey`, `OpenKey`, `WriteKey`, `RereadKey` | `load_secret_key` |
| `Inspect`, `FindMissing`, `Execute`, `CreateIndexes`, `Stamp` | `run_migrations` for a database from before 1.3.0 |
| `EnsureVersion`, `Plan`, `CreateBaseline`, `FirstChange`, `FinishUpgrade` | alembic's upgrade with the three revisions |
| `Seed`, `InsertAdmin`, `SavePassword` | `seed_default_admin` |
| `ChangePassword`, `Forget`, `CommitPassword`, `ResetPassword` | `change_password`, `forget_initial_password`, `update_user` |

Abstractions: a few tables and columns stand for those like them; the indexes of
one table are created at once; the columns a table lacks are read at once; `APP_SECRET_KEY` is unset, as by default; a file is
written whole or not at all, and there is no key file before the first start; a
password file that cannot be removed is left out.

## 3. What the runs check

| Run | Bounds | What it shows |
|---|---|---|
| `scheduling` | cycle: 2 assets, 3 check rows, no other recorder, saves may fail; threads: 2 requests, 3 poll threads, 1 manual run, long cycles | the flag is the last conclusive outcome, the log agrees with it, no event repeats, one failed save costs no other asset its result; two cycles never overlap, however many poll threads a race leaves |
| `overlap` | 1 asset, 4 rows, all listed; cycle, 1 worker, 2 requests; crashes | the current row is the newest and is never lost to pruning or to another session; an asset being created is not due |
| `pool` | 2 assets, one of them without checks, the other deletable; cycle, 1 worker, 1 request | `_queued` matches the pool; nothing is saved for a deleted asset; the history implements `CheckLedger` |
| `scheduling_live` | checks: 1 deletable asset, 3 rows, cycle, 1 worker, 1 request; threads: 1 request, 2 poll threads, 1 manual run, short cycles or long ones | queued re-checks end, due assets are checked; an enabled scheduler is running and keeps running cycles (short ones), there is one poll thread at most, a disabled scheduler comes to rest |
| `lost_results` | as the cycle of `scheduling`, with a delete | **violated**: see 5 |
| `twice_told` | 1 asset, 2 requests | **violated**: see 5 |
| `events` | 3 lists, 2 of which failing make a run inconclusive, releases that change them; or all four parts, days around a threshold of 7 and one past expiry, 2 days, thresholds 0 and 7, blacklist checks that may error | the log names the lists the asset is on; delistings are real; server and certificate are reported as found; nothing is reported twice |
| `events_flapping` | 2 lists, runs may be inconclusive | **violated**: see 5 |
| `domain_ageing` | 3 days, a registration that expires on day 8, a threshold of 7 | **violated**: see 5 |
| `browser` | session: 2 tabs, of which one makes calls of every kind or both make reads, 3 calls, 1 expiry, 1 revocation, 1 loss; list: 2 ids, 2 requests, 2 changes, 1 loss | nobody waits for a refresh that will not come; expiry is invisible; what a page shows, sends and stores agrees; every call settles; the list follows the server and the selection the list |
| `server` | WHOIS: 2 domains, 2 threads, 2 entries, 4 ticks; blacklists: 2 lists, of which one goes wrong, 1 check and 1 request for the resolver's health, a test of up to 1 tick, 2 ticks; limits: 2 addresses, 2 threads, limit 2, windows and lock of 4 ticks, a wait of 1, tables of 1; start-up: 2 processes, 3 starts | see the properties of each module |
| `lost_index` | 1 process, 2 starts | **violated**: see 5 |

`scheduling`, `scheduling_live`, `browser` and `server` check parts that share no
state, each with the others at rest: `focus` says which part a behaviour is of, and
fairness is that of this part. They are sums, not products, and stand in one run
because each part is small.

Why these bounds are enough. A wrong step of `record_check` needs at most two
recorders with the same previous row and a third to see the result: four rows
and four threads in `overlap`, whose properties do not depend on outcomes. `told` and `flag` depend on the outcome before
an errored run, the errored run and the one after it: three rows. The pool has
one job waiting and one running per asset at most, and ids interact only through
reuse, which takes two assets. `detect_events` looks at one earlier result and at
the persisted status; the shortest way to make these two disagree takes three
checks, and there is no bound on the number of checks in `EventDetection`. Two
lists tell "some" from "all", three add "another". For the poll thread, two
names are one old and one new thread; three are needed when two requests race.
A refresh takes the call that starts it, one that waits, and one that comes after;
two tabs have nothing in common but the storage and the account, so one call in
each makes them meet. The WHOIS cache makes room with two domains and two entries,
as it does also for a domain that has an entry, while two lookups of one domain
overlap; four ticks pass a stale window of three. A limit of two is passed with
three requests, two of them at once; a table of one is pruned as soon
as the other address has an entry. Two processes meet at each step of a start, and
three starts are a start that dies and two that overlap, one of which may die too.
`MaxChanges` bounds the blacklists of `server`: all start well and one goes wrong
in one of the ways the code names, at any time. With the network losing any query
and a limit of two failed lists, the other list still decides whether a result
counts. A clock of 2 is a test remembered for
one tick that may take another; the clock of the rest of `server` goes to 4.
`SYMMETRY` is used in `overlap`, which has no liveness property.

Actions whose bound stops them, such as `Save` when `MaxChecks` rows exist, are
covered by the other actions, so these runs check deadlock. `browser` and `server`
do not: calls, changes, ticks and starts run out. The liveness
properties of `Monitoring` say "or `Full`": the bound, not the program, stops saving.

Fairness. The poll loop starts cycle after cycle (`StartCycle`), a cycle goes on
(`CycleStep`), every thread inside `record_check` goes on, workers take jobs and
finish them, and a delete commits: each is a running thread, and weak fairness
is what the operating system's scheduler gives it. Nothing is assumed of users,
of time (`Elapse`), or of crashes. In `SchedulerControl` threads and started
handlers go on; nobody has to save settings or ask for a run.
`EnabledRunsCycles` holds only while the settings are left alone, because every
save starts the wait of 60 seconds anew. In `TokenRefresh` there is one weak
fairness, of `SystemStep`: as long as an answer is due, a continuation is ready or
a render is requested, one of these happens. In `AssetList` requests are answered
or fail, answers are handled, and AutoRefresh is on, which is what makes the page
ask again.

## 4. What is proved

`MonitoringProofs` proves, with TLAPS, for any `MaxAssets`, `MaxChecks`, sets
of workers and requests, outcomes and choices (under `BoundsAssumption`,
`ActorsAssumption`, `ChoicesAssumption`: bounds are natural numbers and the
three kinds of threads are disjoint):

- `TypeCorrect`: `Spec => []TypeOK`. The type of a session couples its place
  with what it holds (an asset outside the idle places, a result while
  recording), which is what makes it inductive.
- `CurrentRowIsTheNewest`: `Spec => []CurrentIsTheNewest`. The invariant is
  inductive as it stands, given `TypeOK`: a save marks every row of its asset
  historical and its new id is above every other, which is all that other
  sessions can do to it; pruning and deleting only remove rows.
- `QueueAlwaysMatchesPool`: `Spec => []QueueMatchesPool`. The pool's queue is a
  sequence without repetitions; taking its head and appending an id that is not
  queued keep it one, and no other step moves a worker in or out of idle.
- `FirstCheckIsLeftAlone`: `Spec => CreatedIsNotDue`, if nothing is deleted. An
  asset whose first check still runs has `last_checked` from its creation, and the
  intervals are longer than that check takes (`CreatedIsFresh`). Without
  deletes it keeps its id; with them a bulk import may be given the id while the
  request that created it is still at work.

`MonitoringLedgerProofs` proves, for the same constants:

- `MonitoringImplementsLedger`: `Spec /\ []OneDelete => ImplementsLedger`. Each
  step of `Monitoring`, crashes and prunings included, is one of `CheckLedger` or
  changes neither the assets nor the rows.
- `LatestCheckFindsTheNewest`: `Spec /\ []OneDelete => []CurrentIsLedgerNewest`.
- `CurrentRowIsKept`: `Spec /\ []OneDelete => CurrentIsKept`, from the same
  invariant.

`OneDelete` says that at most one request is between the two halves of a delete.
It is needed: SQLite gives the ids of deleted rows to new rows, and a second
delete that still holds those ids would remove them. The inductive invariant
`LedgerInv` adds to `CurrentIsTheNewest` that an asset with rows has a current
one, that an id belongs to one asset, and four facts about the rows a delete
holds: it holds some only while its asset exists; they are rows of its asset; the
current row of the asset is no older than any of them (so that no new row is
given one of their ids); the rows it does not hold are newer than all it holds.
The last is why a prune beside a delete, and a check recorded between its halves,
never leave an asset whose rows are all historical.

`MonitoringProofs` also proves what holds while only the cycle records results
(`OneRecorder`: no pool worker and no request; users still add assets and switch
monitoring, saves fail, the process dies):

- `FlagFollowsChecks`: `Spec => []FlagIsLastConclusive`. The invariant
  `RecorderInv` says that what the cycle holds is true when it uses it: before the
  first commit the flags it loaded are those of the database, after it every object
  is loaded again; the previous result it has read is still the latest. Pruning
  keeps the property because the row it spares among older ones is the current,
  hence the newest.
- `LogFollowsFlag` and `ChangesAreToldOnce`: `[]ToldMatchesFlag` and
  `OnlyTransitions`, if no run is inconclusive, with or without a listing
  (`NoneUnclear`). With such runs both are false, see 5. A previous result
  that is usable agrees with the flag, so the events are the changes of the flag
  (`EventsAreChanges`).

With a second recorder these are false, see 5.

- `CycleLosesNothing`: `Spec => CycleKeepsResults`, if nothing is deleted
  (`Deletable = {}`) and the process does not die, for any workers and requests
  that record beside the cycle. A result is saved or counted as failed only of an
  asset that exists, so no object the cycle touches is gone, and nothing but the
  last result ends it (`CycleGoesOn`). A delete makes it false, see 5.

`EventDetectionProofs` proves that the log says what the last check found, for
any lists, days and thresholds: `LogTellsListings`, `LogTellsOutages` and
`LogTellsCertificates`, with `TypeCorrect`. Each assumes that the part it is about
is switched on and always has an answer (for blacklists: a conclusive one; lists
may be added and dropped), and the last one that the threshold stays. There is no
such theorem about domains, of which it is false, see 5. Without an answer, or with a threshold that changes,
these are false, see 5. On the same invariants rest the action properties:
`DelistingsHaveAnswers` (`DelistingsAreReal`, which also needs that every list
answers), `NewListingsAreNews` (`OnlyNewListingsAreReported`) and
`NothingIsToldTwice` (`ReportedOnce`, whatever days pass and however a
registration is renewed). For the last, a standing warning about the domain means
that the date last found is within the threshold counted from the present day
(`WarnedInv`): days only bring it closer, so the code sees no crossing. Each other
invariant states `said` as a function of the previous result; the common lemma
`TypesInTheLog` splits the events of a check by the part they come from.

`SchedulerControlProofs` proves, for any sets of threads and whether or not
cycles outlast the join (under `SchedulerAssumption` of `MCScheduling`):

- `OneCycleAtATime`: `Spec => []CyclesNeverOverlap`, inductive given `TypeOK`.
- `NoSecondPollThread`: `Spec => []OnePollThread` if there is one request thread.
  The invariant `OnlyScheduler` says that a thread that is alive is the one
  `_scheduler_thread` refers to, and that none is alive from the answer of
  `is_alive()` until the new thread starts. With two requests it is false.
- `EnabledRuns`: `Spec => []EnabledIsRunning` under the same assumption, for
  cycles shorter than the join. The invariant `RunInv` adds to `OnlyScheduler` what
  each step of the handler leaves behind: the event is set while it stops and joins
  and clear from then on, the thread it joins is the one `_scheduler_thread` refers
  to, no thread is alive while it makes a new one, and between two saves an enabled
  scheduler has a polling thread.

`BrowserProofs` proves, for any tabs, calls and bounds, `TypeCorrect` and
`WaitersAreServed`: `Spec => []NobodyWaitsInVain`. The invariant is inductive:
`isRefreshing`, the request and the one call that leads rise and fall in one
callback, and no other callback moves a waiting call. On it rests
`PagesAgreeAtRest`: `Spec => []AgreeAtRest`. `RestInv` adds that a page without
calls is at rest, hence writes nothing; every other write of a page sets header and
storage to the pair that it then shows.

`ExpiryStaysInvisible`, `Spec => []ExpiryIsInvisible`, is about behaviours without
a revocation, a lost message or a sign-out. `SessionInv` says of these that every
pair in a page, in the storage or in an answer is of version 0; that a page which
has shown a pair keeps one, as does the storage; that no refresh is refused and one
that is granted brings a token that is still valid; and that a call repeated
after it carries such a token, hence never gets a second 401. The step that needs
all of it is the refresh that is granted while other calls wait: they are sent
again with its token, whatever pair the page shows by then.

`SelectionFollowsList`, for `AssetList`: `Spec => []SelectionIsListed`, which is
inductive as it stands, because every handler that takes assets off the list takes
them off the selection in the same callback.

`WhoisCacheProofs` proves, for any threads, domains, entries and times:

- `AgesAreBounded`: `Spec => []AnswersAreRecent`. `AgeInv` adds that an answer
  was at most `MaxQuery` old when it was stored, and that no lookup under way is
  older than that.
- `RefusalsHaveReasons`: `Spec => RefusalsAreCovered`. `KeptInv` says that an
  answer kept within the stale window is still there, with its time, or that
  `MaxEntries - 1` domains were kept later. The lemmas about it count sets with
  the library's theorems on cardinality: an eviction spares that many.

`StartupProofs` proves, for any number of processes and starts:

- `SigningKeyIsKept`: `Spec => KeyIsKept`. `KeyInv`: while a process writes, the
  file is empty and it alone writes, since only the creator of the file writes it.
- `PasswordFileOpensAccount`: `Spec => []FileOpensAccount`. `FileInv` follows the
  account and the file through `saving`, `forgetting`, `clearing` and
  `committing`: whoever saves the file knows that nobody else can change the
  account yet; a change is committed after the file is gone.
- `CurrentSchemaIsServed`: `Spec => []ServesCurrentSchema`. `SchemaInv` is the
  conjunction of what the database may look like in each version
  (`DatabaseInv`), and of what each process knows at its place in the legacy
  branch (`LegacyInv`) or in the upgrade (`UpgradeInv`); and it says that a
  process that gets through revision 0001 was alone in it, because its CREATE
  raises for everybody else. The property is about tables and columns; of indexes
  it is false, see 5.

`ServerProofs` proves, for any addresses, keys, providers, threads and times, under
the assumptions named with each module in 2:

- `PublicChecksAreLimited`: `Spec => []AtMostLimitInWindow`, for `PublicLimit`.
  `PublicInv` relates the list of a client to the history (`KeptList`): a stamp
  that is missing from the list is out of the window, up to `MaxWait`; a stamp is at
  most `MaxWait` older than one entered before it. A check that gets through sees
  fewer stamps than the limit, hence there were fewer in every shortened window it
  falls into (`WindowIsSeen`).
- `GuessesAreBounded`: `Spec => []FailuresAreBounded`, for `LoginLimit`. Beside
  `KeptList`, `LoginInv` says that a window with as many failures as the limit is
  over, or the key is locked to its end (`FullWindowsAreLocked`); and that the
  failures in a window and the logins that may still add to it stay below the
  limit and the number of threads (`PendingAreCounted`). A login begins only
  while the key is not locked, so no window of the present is full then; pruning
  drops a lock only when it is over, and an entry only when its window is.
- `BlacklistResultsAreTrue`: `Spec => []ResultsAreTrue`, for `Dnsbl`.
  `BlacklistInv` says of each test under way that a provider which does not answer
  as it should has changed since its first answer, at most `MaxTest` ago
  (`TestsAreRight`); hence of one that is remembered that it answers as it should or
  has changed since then (`TestsAreFresh`); and of each check under way that what it
  has noted of a provider that is steady is what that provider answers
  (`ChecksAreRight`).
- `SchemaIsCurrent`, `InitialPasswordWorks` and `KeyStaysSame` are the theorems of
  `StartupProofs` for the properties of the `server` run: `MCServer` names the
  constants and variables of `Startup` differently, and the definitions of the two
  instances are shown to be equal (`SameStart`, `SameSteps`, `SameProperties`).

Every invariant and every action property of a passing run is thus stated by a
theorem, under the hypotheses named above where it needs any. Only model-checked
are the liveness properties, `RecheckFinishes`, `DueIsChecked`,
`EnabledRunsCycles`, `DisabledComesToRest`, `CallsSettle` and `ListConverges`:
they rest on fairness, and TLAPS does not reason about `ENABLED`.

## 5. Where the code departs from what it says

Each of these is a run in which TLC finds the property violated.

- `lost_results`: the save loop of the cycle promises to keep the results of all
  finished checks (`services/scheduler.py:114`), but it touches ORM objects
  outside the inner `try`. Once a commit has expired them, a deleted asset
  raises there, the outer handler ends the cycle, and the remaining results are
  dropped.
- `twice_told`: two overlapping checks read the same previous result before
  either has the write lock, and both report the transition, although only
  transitions become events, one per outage (`services/events.py:3`).
- `events_flapping`: the result of an inconclusive run, which changes neither the
  status nor the log, is what the next run is compared with: listed, then
  inconclusive without the listing, then listed gives a second "newly listed",
  although the persisted status is meant to prevent that
  (`services/events.py:53`).
- `domain_ageing`: `detect_events` calls `domain_expiry_days` for the new and for
  the earlier result without a time, so both dates are counted from now
  (`services/events.py:118`, `services/health.py:96`). With an unchanged date the
  two are equal, and a registration that comes within the threshold by the passing
  of days is never reported, although "Domain registration is close to expiry" is
  an event (`services/events.py:24`).
- `lost_index`: `create_all` sends CREATE INDEX after each CREATE TABLE, and SQLite
  commits each by itself (`db/migrate.py:39`). A start that dies in between leaves
  a table that every later `create_all` skips; the database is stamped, upgraded
  and served without those indexes, some of which are unique, although the
  differences to the models "must be none"
  (`src/backend/tests/test_migrations.py:12`).

The models have further behaviours of this kind, for which no run is kept.

Checks and events. Overlapping checks can leave `is_blacklisted` contradicting the
newest result, because the ORM writes only what differs from the value it had
loaded (`FlagIsLastConclusive` with `Requests = {r1, r2}`). A listing first seen by
an inconclusive run is never reported, because the run that confirms it finds it
in the earlier result (`was_blacklisted = bool(old_set)`): the flag is set and
nothing is logged, and a clean run after it reports a delisting of which no
listing was told (`ToldMatchesFlag` and `OnlyTransitions` with `Outcomes`
containing "partial", `ListingsAreReported` with `Missing = {"inconclusive"}`). Nor
is one on another list right after an errored run (`ListingsAreReported` with
`Missing = {"blacklist"}` and more than one list). A list without an answer, or a dropped one after an errored run,
counts as a delisting (`DelistingsAreReal`). A part without an answer repeats a
warning (`ReportedOnce`), and a raised threshold skips one
(`CertificatesAreReported` with `MayAdjust`). A check recorded between the two
halves of a delete outlives its asset (allowed by `CheckLedger`'s `Remove`).

Scheduler. A poll thread that leaves its loop between the join giving up and
`is_alive()` leaves an enabled scheduler without a thread (`EnabledIsRunning` with
`LongCycles`); two overlapping saves of the settings can be applied in the other
order (`EnabledIsRunning` with two requests).

Browser. A refresh that is answered after a sign-out or a password change in the
same page puts its tokens in the place of what these left; any failed refresh
drops the session, also one that the network lost; that is why `ExpiryIsInvisible`
excludes both.

Start-up. A process that dies, or finds the disk full, between creating
`.secret_key` and writing it leaves an empty file, which no later start fills:
every restart makes a new key, though the key is meant to be generated once and
reused (`core/config.py`, `load_secret_key`). Two processes that meet there sign
with different keys until then. A process that dies in the middle of revision 0001,
or between the creation of `alembic_version` and its first row, leaves a database
on which every later start raises (`CreateBaseline`, `Execute`), indexes included:
nothing is served. One that dies between the commit of the
first administrator and the saving of the generated password leaves an account
whose password nobody knows. Another administrator's reset of that account leaves
the password file in place.

## 6. What is not modelled, and why

- Notifications: one message per channel with failures swallowed; what there is to
  lose is the thread that sends them, which the code does not promise to keep.
- The text of registry answers, mail and pages, XML of DMARC reports, the single
  network checks, the health summary and the read-only endpoints: functions of
  their input, or presentation. They keep no state that another part relies on.
- Registration and the profile; the rules on the last administrator; asset limits
  and the check for duplicates; the delist status: each is a read and a write of
  two requests, and that two of them can pass together is plain from the code.
  They are listed as hazards with that note.
- Other pages of the web interface. Two of them can show an answer that came
  late: the page of one asset stays mounted while it moves on to another one, and
  the activity log appends a page it asked for under an earlier filter. Both are
  a missing comparison in one callback.
- The vendored package manager under `src/frontend/.yarn`, build files and tests.

What would add most to this project: the alert thread composed with
`EventDetection`; and `MonitoringLedger` without the assumption `OneDelete`, for
which `CheckLedger` would have to allow what reused ids then do.
