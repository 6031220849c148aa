# A verification project for the Grafana server

TLA+ models of the parts of this Grafana server whose correctness depends on
order, time, failure or concurrency; TLC configurations that check them on small
instances; and theorems, checked by TLAPS, that hold for all values of the
constants. Paths below are relative to `src/grafana-ext/src/grafana/pkg/` unless
they start with `docs/` or `public/`, which are beside `pkg/`.

`PROJECT.json` lists components, runs, mutants (for every checked property a
plausible defect of the code that violates it; such operators are marked
`Defect:` in the modules), the source lines behind every definition, findings,
hazards and theorems.

## 1. The system

One process runs an HTTP API on a bus of synchronous handlers, an alerting
engine, a cleanup service and a hub for live streams. All persistent state is
in one SQL database, which several servers may share. The components, with
their state, operations, interactions and what makes them correct:

| Component | State | Operations | Talks to | Hard behaviour | Correct when |
|---|---|---|---|---|---|
| Alert ticker `services/alerting/ticker.go` | last tick, offset | run, updateOffset | clock; unbuffered channel to the engine | slow receiver, offset that changes while a timer runs | every second once, in order, not too early |
| Alert scheduler `services/alerting/scheduler.go` | map of jobs: rule, offset, waiting for it | Update (reload), Tick | ticker goroutine calls it; fills `execQueue` | offsets shift at reloads; zero frequency; jobs that run when due | each period of a rule queues it once |
| Alerting engine `services/alerting/engine.go`, `reader.go`, `result_handler.go`, `notifier.go`, alert table in `services/sqlstore/alert.go` | jobs and rules shared by pointer, `execQueue`, goroutines, rows | ticker loop, dispatcher, processJob, SetAlertState, PauseAlert | database, API, other servers, notifiers | stale rules, shared rules, panics, failing calls, crashes, several servers | pauses are respected, a change is notified once, no job is stuck, rows follow the data |
| Rule evaluation `services/alerting/eval_handler.go` | evaluation context | Eval, getNewState | conditions; the engine | operators folded from TRUE, errors, no data, keep_state | state is what operators and options say |
| Query conditions `services/alerting/conditions/` | none | reduce, compare | data sources | null points, empty series, no series | nulls are no data, reducers agree |
| Notification channels `services/alerting/notifiers/`, `notifier.go`, `test_notification.go` | channel rows, a context that all channels of an announcement share; incidents at the services | sendNotifications, Notify of 15 types, test | queries, image store, external services | one channel fails or panics, shared image path, incident keys | every due channel is tried, incidents end with their alert |
| Server process `cmd/grafana-server/`, `api/http_server.go` | goroutines, shared context, HTTP server | Start, Shutdown, signal | all child routines | shutdown at any moment, two at once, evaluations that hang | it ends, and leaves nothing unfinished |
| Migrations `services/sqlstore/migrator/`, `migrations/`, `sqlstore.go` | tables, migration log | Start, Exec, EnsureAdminUser | startup | a kill or a rollback between migration and log | applied once, logged truly, no rows lost |
| Dashboards `services/sqlstore/dashboard.go`, `dashboard_version.go`, `alert.go`, `api/dashboard.go`, `plugins/` | rows, versions, alert rows, plugin setting | save, restore, delete, expire, SaveAlerts, import, plugin sync | alert extraction, evaluations, events of transactions | optimistic versions, two transactions per save, retries, crashes in a sync | no lost update, history complete, alerts are those of the dashboard |
| Live streams `api/live/` | connections, streams, send buffers | register, subscribe, publish | websockets | bounded buffers, a hub that has stopped | every subscriber gets each message in order or is dropped |
| Data sources `services/sqlstore/datasource.go`, `services/provisioning/`, `api/dataproxy.go`, `models/datasource_cache.go`, `tsdb/sql_engine.go` | rows; cached rows, transports, tokens, engines | add, update, delete, provision, proxy, query | clients, files, data sources | versions, default flag, secure data left out, stale caches | one default, no lost update, bounded staleness |
| Organisations, users, invites, quotas, LDAP roles `services/sqlstore/org*.go`, `user.go`, `quota.go`, `api/`, `login/` | rows of eight tables | the requests of the API, sign-up, LDAP login | each other, LDAP | check, then act, in two transactions; a login in many | an administrator is left, a quota is exceeded by overlap only |
| Sessions and logins `middleware/`, `api/login*.go`, `login/`, `services/notifications/codes.go` | session files, cookies, reset codes | sign-in by form, OAuth, cookie, proxy; sign-out | browsers, LDAP, OAuth providers | requests that read and write a whole session | a browser's session is that of its last sign-in; a proxy's user is synchronised in time |
| Annotations, playlists, preferences, stars, snapshots, search `services/sqlstore/`, `api/`, `services/search/`, `services/cleanup/` | rows, index of files, images on disk | save, update, delete, search, clean up | each other | statements without a transaction, a limit on rows | what was saved is shown, a search finds all |
| Log files, Graphite bridge, mail queue, avatars `log/file.go`, `metrics/graphitebridge/`, `services/notifications/mailer.go`, `api/avatar/` | files, last values, channel, cache | write and rotate, push, send, fetch | file system, Graphite, SMTP, gravatar | failures in the middle, a full queue, refresh in place | nothing is lost or stuck |
| Message bus, HTTP translation, time series backends, configuration | see `PROJECT.json` | | | translation or I/O without a protocol | |

How the alerting parts interact: the ticker goroutine receives a tick, on every
tenth reads the alert table (`Fetch`) and gives the jobs new rules (`Update`),
then looks at all jobs (`Tick`) and sends those that are due to `execQueue`. The
dispatcher starts a goroutine per queued job (`processJob`), which evaluates the
rule's conditions (`Eval`), stores the new state (`Handle`, `SetAlertState`) and
notifies. Rules and jobs are Go pointers that outlive the reload that replaced
them; the table is shared with the API and with other servers.

All other components meet in the database. A request is a sequence of commands
of the bus, each a transaction (or, where the code opens none, a statement) of
its own, and what makes them hard is what other requests do in between.

## 2. The modules

| Module | Models |
|---|---|
| `AlertEngine` | the engine on all servers, with API requests, data that changes, and faults |
| `AlertHistory` | what the engine promises about rows and notifications (abstract) |
| `Ticker`, `TickStream` | the ticker goroutine, and what it promises its receiver (abstract) |
| `Scheduler` | when jobs are queued, in real seconds |
| `EvalRule` | an evaluation of a rule, condition by condition, and the next ones |
| `QueryCondition` | one condition: reducers and evaluators over series |
| `Notifiers` | channels, one announcement at a time, and the incidents of the services |
| `DataSources` | the table, provisioning, and the four caches in front of it |
| `GrafanaServer` | the life of the process: start, serve, shut down |
| `Migrations` | every migration in its order, the log, and starts that are killed |
| `LiveHub` | the hub goroutine, the readers and writers of connections |
| `Dashboards` | dashboards, versions, alert rows and plugin dashboards, under threads with transactions |
| `Accounts` | organisations, users, memberships, invitations, keys, quotas, LDAP roles |
| `Logins` | sessions, cookies and the ways to sign in |
| `Contents` | annotations, playlists, preferences, stars, snapshots, search, clean-up |
| `Outlets` | log files, Graphite bridge, mail queue, avatars |
| `*MC` | values of constants for TLC |
| `ServicesMC`, `AlertPathMC`, `KeepingMC` | parts side by side: a behaviour is one part, and the others stand still |
| `*Proofs` | the theorems |

They are cut along the interfaces of the code. `AlertEngine` lets any job be due
at any tick that may run it; `Scheduler` says when it really is. `EvalRule` lets
a condition say anything; `QueryCondition` says what it says. What the engine
calls an evaluation is one `Eval` step, whose outcome `keep` stands for the
keep_state options that `EvalRule` models. `AlertEngine` announces a change;
`Notifiers` says what becomes of an announcement. `SetAlertState` meets evaluations
in `AlertEngine` and dashboard saves in `Dashboards`.

**AlertEngine.** `state`, `changes`, `annotated` are the alert and annotation
tables; `ticker`, `sched`, `queue`, `worker` are the ticker goroutine,
`SchedulerImpl.jobs`, `execQueue` and the processJob goroutines of each server.
Pointers matter: two evaluations of one job share a `Rule`, and a reload
replaces the rule a job points to while an evaluation holds the old one. So `job`
and `rule` are heaps with cells that are recycled when unreachable (`Collect`).
The handlers are cut where another goroutine can intervene: `Update` per rule,
`Tick` per job, the blocking send, `StartJob`, `Eval`, `Handle`, the save, the
annotation, the notification, `Finish`. `SetAlertState` is one transaction if
`Serializable`, and `ReadRow` then `WriteRow` if a SELECT takes no lock, as on
MySQL and PostgreSQL at their default isolation; the write puts the columns back
that were read. `Fetch` that fails returns no rows and no error, as in
`reader.go`. Faults: a failing SELECT or save, a panicking evaluation, a crash.
The panic of `GetStateModel` is not a fault but what the code does
(`NotifyPanics`): it ends the process, for the goroutines of the notifiers
recover nothing.

**Scheduler.** `jobs` carries frequency, offset, `wait` (`OffsetWait`) and
whether the job is queued or runs. Timestamps count modulo `Cycle`, a multiple of
all frequencies and offsets, so remainders are exact. Rules are
any lists a SELECT may return, in any order, since it has no ORDER BY.
A panic in `Tick`, which visits a Go map in random order, ends `alertingTicker`.

**Ticker.** Clock and timestamps count in parts of a second, so a tick can be
late by a fraction. `Look` is the body of the loop up to the send or the timer.

**EvalRule, QueryCondition.** The loops with one step per condition or series.
Numbers are exact fractions in place of floating point, with the infinity and
the NaN that a division by zero gives; rounding is not modelled.

**Notifiers.** A round is one announcement or test: choice of the channels, image,
then one goroutine per channel, each with its own steps up to the request. The
context's image path and link are shared, as in `EvalContext`. `open` is what the
services show, from the requests that arrived. An incident is known by what the notifier
sends: the alert, the rule's name, or with Sensu a source and the name. Rules get new
names between announcements (`Update`); `stranded` has the incidents of the names that
they gave up. Alerts are not deleted here (that, too, would leave their incidents).

**DataSources.** Transactions are steps; a handler with two of them is two. On PostgreSQL, where a
statement sees what is committed, the two statements of a save are two steps and may
wait for a row that another transaction has written. A value
is the number of the write that made it, so that what an update carries over from an
older read can be told from what it was given. Caches are per data source: rows of
the proxy (`TTL` seconds), HTTP transports (by the whole second of the last update),
access tokens, engines of SQL back ends. Fetching a token is one step.

**GrafanaServer.** One action per statement of `Start`, `Shutdown`, the ticker,
the dispatcher and `processJob` at which another goroutine can intervene. `Listen`
sets the HTTP server and lets it listen in one step. A request may begin once
the server listens. An evaluation may hang.

**Migrations.** A table is the columns and indexes it was given and whether it holds
the users' rows. A migration is a record; `AddMigrations` is the list of all of them in
the order of `migrations.go`. `Exec` and `Log` are apart where a kill may come
between; MySQL commits DDL at once, other databases roll it back.

**LiveHub.** Channels to the hub are unbuffered, so a reader that sends and the hub
that receives are one step; send buffers hold `Buffer` messages. `Stray` lets
clients unsubscribe from what they have not subscribed to, which subscribes them
(see section 5); the runs and the theorem are about clients that do not.

**Dashboards, Accounts.** A request is the list of commands it has still to run. In
`Dashboards` a transaction reads, then writes: on SQLite it is serial, may find the tables
locked and is then run again (`inTransactionWithRetry`); elsewhere transactions
overlap, held together by unique indexes. In `Accounts` a handler that has read
something replaces its entry by what it does next; `RemoveOrgUser` and `UpdateOrgUser`
write and then check, so two may be in between on a database that is not serial.

**Logins.** A session is a file that a request reads when it starts and writes when
it ends. Each request is `Send` (with the cookies that the browser has), `Start` (which
reads the file or makes a new one), its handler (`LoginPost`, `LoginView`, `Logout`,
`OAuthRedirect`, `OAuthLogin`, `Page`, or `SwitchUser`, `Restart` and `AuthProxy`) and
`Release` (the file is written whole and the answer changes the cookie), with others in
between. `owner` is whom the browser was last told that it is signed in as; `late`, `astray`, `revived`
and `mixed` name the requests, browsers and sessions of the exceptions of section 5.
Time counts in ticks; `Lifetime`, `Ttl` and `CodeLife` are the configured lifetimes. One
tick makes every session, code and sync either of this time or old.

**Contents, Outlets.** Several parts each, told apart by `topic` and `outlet`, that share
no state. Statements outside a transaction are steps of their own; a request may be
killed between two.

## 3. The runs

Twelve runs: nine pass, three show a disagreement. Wherever CHECK_DEADLOCK is
FALSE the modelled program may stop, or its bounds may be used up: a process that
ended, a scheduler that panicked, the last request served.

| Run | Instance | Shows |
|---|---|---|
| `engine` | 1 server, 2 goroutines, 1 alert; a change of the data, a request and a fault at any moment; reload at every tick | a job marked running is being processed, no two goroutines share a job, notifiers know the state (`JobsOwned`); changes belong to one goroutine; a paused row is not touched; a change is notified at most once |
| `engine_late` | 1 server, 2 goroutines whose jobs may start late and be queued twice; two changes of the data | with shared rules, too, rows and notifications follow `AlertHistory`; here notifiers do panic and end the process |
| `engine_live` | 1 server, 1 goroutine, SELECT without lock, reload every second tick, a request | settled data reaches the row; active alerts are evaluated for ever; deleted alerts leave schedule, queue and goroutines |
| `services` | process: 2 evaluations, 1 request, a queue for all 3 jobs. Migrations: 4 servers, new and old databases, 3 starts. Hub: 2 connections, 1 stream, buffers of 2. Ticker: half seconds, every phase and offset, 3 s of clock. Scheduler: 3 rules with frequencies 0 to 6 that come, go, move, change and pause, reload every 4th second of a cycle of 12 | an orderly exit leaves nothing unfinished and a shutdown ends; a started server has the whole schema and all rows; subscribers get what is due and dropped connections end; no tick is early, lost or repeated; once per period, no period skipped, only frequency 0 stops the scheduler |
| `alert_path` | data sources: 2 names, 2 clients, 3 writes, 2 s, 4 sets of files. Conditions: 10 reducers, 5 evaluators, 503 lists of series. Rules: 1 to 3 conditions after a first AND. Channels: each of 15 types beside a mail channel, Sensu also with a source, 3 rounds, 1 edit of a channel or of a rule's name | two defaults only from overlapping writes on PostgreSQL; updates keep what they do not change; caches are stale no longer than stated; nulls are no data and reducers agree; rules fire as documented; incidents follow alerts, all channels are told, mails show their own image |
| `accounts` | 2 overlapping requests, 4 users, 2 organisations, 3 LDAP mappings, serial and other databases | an administrator is lost only to an overtaken check; the key quota is exceeded by overlap only; logins leave the mapped roles |
| `logins` | 1 browser, 2 overlapping requests out of 3, 2 users, 2 passwords, 1 tick | a browser has the session of its last sign-in, and after a sign-out nobody's, unless a late request took the cookie or missed a renamed session; a proxy's user was synchronised in time, unless a session was taken over |
| `dashboards` | 2 overlapping requests out of 3 and the start-up task, 4 contents, 2 releases of a plugin, crashes, locked tables | histories have no gaps or twins; alerts follow their dashboard; expiry, paused states and plugin versions are kept |
| `keeping` | contents: 2 requests out of 3, 3 dashboards, 2 files, 4 playlists. Outlets: 2 clients, 2 lines per file, 2 days, 2 faults, a mail queue of 1 | what was saved is shown and found; images go; no line and no delta is lost; mails are taken unless the server is silent; an avatar is a whole image unless it is fetched anew |
| `engine_dedup` | 2 servers, SELECT without lock | *violation:* both servers notify one change |
| `query_condition_diff` | series of nulls only | *violation:* `diff` and `percent_diff` panic |
| `server_grace` | shutdown with an evaluation in flight | *violation:* the main goroutine returns and ends the process, before the grace is over |

Several properties are conjunctions of named parts, each with its own comment in
its module: `JobsOwned` (RunningIsProcessed, OneGoroutinePerJob, NotifierKnowsState),
`PeriodsKept` (OncePerPeriod, EveryPeriod, StopsOnlyForFrequencyZero), `UpdatesKept`
(NoLostUpdate, SecretsSurvive, ConfigApplied), `RuleRight` (FiresAsDocumented,
NoDataHandled, LeavesForGood), `ReducersRight` (NullsAreNoData, NullsAreIgnored,
ReducersAgree), `ChannelsTold` (AllOrNone, TestTellsTruth), `Migrated` (SchemaComplete,
RowsKept), `HubRight` (NeverPanics, GetsWhatIsDue), `SavesKeep` (KeepsVersions,
StateSurvivesSave, MarkedMeansSynced), `ShownAsSaved` (RegionsWhole, TagsFound,
ItemsSaved, LastSaveShown), `SearchFindsAll` (SearchesFind, PlaysWhatWasSaved),
`NothingLost` (LinesKept, FilesBounded, DeltasAdd).

Bounds, and why they suffice. Alerts do not interact except through the queue,
so one alert shows every race of its evaluations; two goroutines are the fewest
that can share a job, two servers the fewest that can share a row (what they do
with serialized transactions is proved for any number, section 4). A reload waits
while all rule cells are in use: with three cells in `engine` the schedule and two
goroutines hold three different rules at most, with two in `engine_late` a shared
rule and a newer one. `engine_live` has cells for every pointer and one to spare,
so nothing waits there. One flip, request or fault at any moment covers each of
them in every state; longer combinations are left to the theorems, which have no
bounds. Reloading at every tick (`FetchEvery = 1`) is the worst case for stale rules;
the liveness run uses 2, so that ticks without a reload occur. In the scheduler
reloads come at any phase of the rules' periods (the first timestamp is any of the
cycle), and periods of 1, 2, 3, 4 and 6 seconds shift against the reload period of 4.
The lists of series have up to four points over a negative, two positive
values and null, so medians of odd and even length, ties and nulls
first, between and last all occur.

Two requests are the fewest that overlap, and the properties of `accounts`,
`dashboards`, `logins` and `keeping` relate at most two of them to one row; a third
request (`MaxRequests = 3`) follows in the state that two have left. Two LDAP groups map
one organisation and a third another one that need not exist. Two releases of a plugin
drop one dashboard and change another. Three starts of the migrations are two kills
and a start that may end. Two messages fill a send buffer, a third one drops the
connection. `MaxNum = 2` log files a day let the numbers (999 in the code) run out.
`WhatClientsDo` (`DataSourcesMC`) restricts the data source part: two clients work on one
data source without time, or one with time; with PostgreSQL two clients work on two data
sources without files. The theorems about data sources have none of these bounds.

`PromptStart` says that a queued job starts before the next tick, a second later.
It holds unless the dispatcher is starved, and it is an assumption of the runs
about notifiers and of `JobsOwned` (`NotifiedOnce` and `RunningIsProcessed` are proved
without it).

### Fairness

* `AlertEngine`: goroutines that can run do (weak fairness per goroutine), the
  ticker ticks, and a job that may run at tick after tick is due at some of
  them (strong fairness of `Due`). The last is what `Scheduler` establishes as
  `DueAgain` from its own rules. Nothing makes users act, data change or calls
  fail. Queries return, as they run under a timeout of 30 s (`engine.go:96`).
* `Scheduler`: ticks keep coming (`Ticker`: `CatchesUp`) and evaluations end.
* `Ticker`: its goroutine runs, the engine comes back for a tick, time passes.
* `GrafanaServer`: goroutines run and requests end. Evaluations may hang. The
  dispatcher and the ticker stop in the end by strong fairness: both cases of
  their `select` may stay ready, but Go chooses among ready cases at random.
  A start that has not come to serving need not go on.
* `LiveHub`: the goroutines of each connection run and a broken connection is noticed
  (the write of a ping fails, `conn.go`). Nothing makes clients act or the server stop.
* `Migrations`: the start goes on; nothing makes it be killed or started again.
* `Contents`: the clean-up service's ticker ticks and it cleans up.
* `Outlets`: the mail goroutine sends (a dial has a timeout, a session that is answered
  comes to an end), and a goroutine that is blocked on the queue goes on when there is
  room. Nothing ends a session whose server stays silent (`gomail.v2/smtp.go:61` bounds
  the TCP dial only); `FallsSilent` starts one, and `MailTaken` promises nothing while it lasts.
* The others have safety properties only. In `ServicesMC` and `KeepingMC` each part has
  its own fairness while it runs.

## 4. The proofs

For all values of the constants, under the named ASSUMEs of the modules, which
say only that bounds are numbers, lists are lists, and values that stand for
nobody or nothing are not somebody or something (four are worth a word:
`DataSourcesAssumption` wants `TTL` at least 1, as with 0 a kept token would outlive
its bound, and the code uses 5 s; `LoginsAssumption` tells `Nobody` and `Kept` (an
answer that signs nobody in or out) from users and browsers; `PanelsAssumption` gives the panels of a dashboard different ids, as the editor
does: see section 5; `FilesAssumption` gives a plugin's dashboards different slugs, by
which `GetPluginDashboards` tells them apart: of two with one slug the second import overwrites
the first).

| Theorem | Statement | Rests on |
|---|---|---|
| `AlertEngineProofs!TypeCorrect` | `[]TypeOK` | the types alone are not inductive; with `PointersOK`, that nothing reachable is recycled, they are |
| `!PausedRows` | serialized transactions keep evaluations out of paused rows | step by step from types |
| `!Ownership` | `[]ChangesOwned` if serialized | the inductive invariant of the next |
| `!OneNotification` | a change is notified at most once if serialized | `ChangesOwned`: the number of a saved change is held by one goroutine, past its save, until it is announced |
| `!HistoryImplemented` | the engine implements `AlertHistory` if serialized | types and ownership: each action maps to an action there or a stutter |
| `!RunningProcessed` | a job marked running is being processed, on any database, with late jobs, panics and crashes | whoever processes a job resets the mark, on every way out |
| `!OwnedJobs` | `[]JobsOwned` if jobs start promptly | a job is queued or processed at most once, so what an evaluation found is what its rule was when it was set off |
| `ServicesProofs!TickerTypeCorrect`, `!NeverTooYoung`, `!GivesTickStream` | types; no tick early; refinement of `TickStream` | `NotTooYoung` is inductive with the types: what `Look` saw stays true while the clock only grows and the offset changes only asleep |
| `!SchedulerTypeCorrect`, `!OnlyFrequencyZero` | no offset is 0, so only a frequency of 0 makes `Tick` divide by zero | arithmetic of `Offset` |
| `!OnceAPeriod` | once per period, for any reloads | `WaitsInPeriod`: a job that waits has begun a period and was not queued since; nothing is queued when `Tick` starts |
| `!ServerTypeCorrect` | the queue keeps its capacity | with `Queueing`: a ticker about to send may send |
| `!OrderlyExit` | `os.Exit` leaves no request, no engine goroutine and no evaluation that has not had its grace | `Orderly`: once drained the server is closed for good, and a stopped dispatcher has nothing in flight |
| `!HubIsRight` | the hub never panics and every subscriber gets what is due, for clients that leave only what they have joined | a closed buffer is out of every table of the hub, and a connection unregisters once |
| `AlertPathProofs!TypeCorrect`, `!FiresSerially`, `!NoDataOptionDecides`, `!NeverPendingAgain`, `!RuleIsRight` | for rules of any length | `FoundSoFar`: the accumulated value is the serial reading of the results so far; `KeepsPrev`: prev is the state until the evaluation concludes. The theorems about meaning assume the first operator is AND, where the code needs it |
| `!EveryChannelIsTold`, `!OwnImageIsShown` | no channel silences another; a test that reports success arrived; a mail shows its own image | `AnnounceInv`: before the goroutines start nothing is tried and no image is embedded; afterwards each goroutine is at a step that fits what it has tried, and a foreign image means that a Slack channel with a token takes part and there was none of its own |
| `!IncidentsFollow` | incidents follow their alerts, for services that close them, while rules are renamed; but for shared incidents and names given up | `FollowInv`: the announcement under way is of the state that the alert has, or a test; whoever was told of it has sent that state; `Explained`: an open incident is that of an alert not known to be ok, since only a resolve or a new name takes an incident from its alert, and a new name makes everyone it concerns untold |
| `DataSourcesProofs!TheOneDefault` | one default at most, whatever clients, files and restarts do; on PostgreSQL two only if one was made the default while the insertion of the other was open | a row becomes the default only in a step that unsets the others it sees; who has written a row keeps it from the others until it ends, so that an update misses insertions only, which `missed` records |
| `!UpdatesOfWhatWasLoaded`, `!SecretsAreKept` | an accepted update with a version was made from the row it replaces; an update loses no secure data but what it was given | versions only grow, and tell rows of one id apart |
| `!CachesAreFresh` | bounds on how stale a cached row, transport or token is | each cache holds a row that was there when it was filled, and at which second |
| `KeepingProofs!NothingIsLost` | lines are kept for KeepDays, files stay bounded, deltas add up | each line is in one file of its day; a rotation renames or fails; what was pushed, broken or counted is what was counted |
| `!AlwaysAnImage` | a page is given a whole image, unless the avatar is fetched anew meanwhile or such a fetch broke off | `AvatarsRight`: whatever buffer an avatar has is full, cut or being filled by its task; an avatar that is cached or served has one; who has waited for a fetch has a full one from it |
| `!SavedIsShown` | regions, tags, playlists and preferences are shown as they were saved | `RegionRight`: each region is as far as the one request for it has come (one row, marked, two rows, the first rewritten), or requests have shared it, which `torn` tells; ids are not used twice; the same for the statements of a playlist, whose items the deletion of a dashboard takes away in between |
| `LoginsProofs!SessionsApart` | no session is shared by two browsers or their requests, however anybody signs in | `Private`: only the request that has made a session knows its id until it is answered |
| `!SignedInStays` | the session of a browser is that of its last sign-in, and nobody's after a sign-out, with the exceptions of section 5 | `RowsAgree`: the file and the copies of it that requests hold are of one user; `Follows`: a request that is not late has the browser's session, or nobody is signed in |
| `!SyncedInTime` | a proxy's user was read from LDAP within the TTL, but in a session taken over from another | `SyncedSince`: the time that a session keeps is not later than the last sync of its user |
| `DashboardsProofs!HistoryIsKept`, `!VersionsAreKept` | histories have no gaps and no twins, and keep their newest versions | `HistoryInv`: versions are an interval that ends at the row, so what a transaction counts on either still holds, or the unique index refuses its write; the version that an expiry is to delete is never the newest |
| `!AlertsAreThose`, `!StatesSurvive` | a dashboard's alerts are those it wants; saving it keeps their states | `AlertsInv`: alerts of an undisturbed dashboard are those wanted, or one thread has still to save them, and what that thread has read are the alerts there are but for their states |
| `!MarkedAreSynced`, `!AllIsKept` | a plugin's version is marked when its dashboards are those of that version; with the above, `SavesKeep` | `SyncInv`: what a sync has still to do, with what is there, makes the dashboards those of the files, and only one thread syncs |
| `AccountsProofs!AdminIsKept` | an organisation loses its last administrator only to an overtaken check, and never where transactions are serial | `TransactionsRight`: what a written transaction counted on until it commits; a request's list of commands keeps its shape |
| `!RolesAreMapped` | an undisturbed LDAP login leaves exactly the mapped roles | `Synced`: in every organisation the role is right or the list has a command that makes it so |
| `!KeysInQuota` | the key quota is exceeded by overlap only | a key is added only right after a check of the quota of its organisation |

Proved of a property in part: of `PeriodsKept` all but `EveryPeriod`, which needs number
theory of offsets and periods; of `UpdatesKept` all but `ConfigApplied`, which says what a
fold over the files of a directory leaves behind.

Only model-checked:

* Liveness, which needs ENABLED: `SettledResultReachesRow`, `EvaluatedAgain`,
  `DeletedIsForgotten`, `CatchesUp`, `DueAgain`, `ShutdownEnds`, `DroppedEnds`,
  `EventuallyStarts`, `ImagesGo`, `MailTaken`.
* `ReducersRight`: the reducers are folds over data of any length, and induction over
  data is out of the prover's reach.
* `Migrated`: a run of the migrator is a walk through one list of about 150 migrations; what
  it leaves is a fold over that list.
* `SearchFindsAll`: what is found is cut from sorted and concatenated lists (`SetToSortSeq`,
  `FlattenSeq`), which are defined by recursion. A playlist is played from such a search; it
  names a dashboard once, as the code plays only its last place.
## 5. Disagreements

Three are runs (table above; quotations in `PROJECT.json`). Others met while
modelling. Those with a configuration named are reproduced by that change of
constants; the others are read off the actions.

Alerting:

* A job that waits in the queue for a period is queued twice, since `Running` is
  set when it starts (`engine.go:110`). Its evaluations share a rule, and when one
  puts *pending* back, the notifiers of the other reach `panic("Unknown rule
  state ")`. `AlertEngine.cfg` with `PromptStart = FALSE`, `MaxFlips = 2`,
  `MaxRequests = 0`, `MaxFaults = 0` violates `JobsOwned`; the action
  `NotifyPanics` of `engine_late` is that panic.
* A pause that commits between the SELECT and the UPDATE of `SetAlertState` is
  overwritten. `AlertEngineDedup.cfg` with one server and `MaxRequests = 1`
  violates `PausedRowUntouched`.
* A reload that reads the table while an evaluation is about to save gives the
  next evaluation a stale state. If the data goes back in time the change is
  not noticed then, and a change from a stale *pending* to *ok* is saved
  without a notification, though the row said *alerting*.
* A rule whose first condition is joined with OR fires whatever the conditions
  say, because the loop starts with TRUE (`eval_handler.go:43`). `AlertPath.cfg`
  with `OperatorLists <- UpToThree` violates `RuleRight`.
  `docs/sources/alerting/rules.md:65-68` reads operators as standing between conditions.
* A rule to be evaluated every second is evaluated every other second: no job has
  offset 0, so one tick finds it due and the next one queues it. `EveryPeriod`
  with `frequency > 0` in place of `frequency > 1` is violated.
* A frequency of 0 ("0s" in the dashboard) divides by zero in `Tick`, which ends the
  scheduling of all rules until the next start.
* `NewEngine` starts the ticker in the middle of a second, so ticks are not "on
  second marks or very shortly after" (`ticker.go:12`).
* Notifiers: OpsGenie's trigger drops the error of its request; DingDing panics when
  the rule's text breaks the JSON of its message (`dingding.go:64-78`); one channel with invalid settings silences all channels of a
  rule; Slack with a token puts a stock picture into the context that all channels
  share; VictorOps keys incidents by rule name, Sensu by a source and the name (with spaces as
  "_"), so rules of one name share an incident at VictorOps and at a Sensu channel with a
  source of its own, and a rule called "Test notification" shares one with the test messages; a rule
  that is renamed while it alerts leaves its incident open for ever and has no other until
  it alerts again; LINE sends nothing for *ok*; a test
  message of an incident service opens an incident that nothing closes; a mail to
  several addresses stops at the first that fails.

Process:

* A shutdown before there is an HTTP server, as after failing provisioning,
  calls a method of a nil server and panics (`server.go:138`; action
  `NilHttpServer`), where `server.go:71` means to exit with code 1.
* With a full `execQueue` at shutdown the ticker may block for ever in the send:
  once the dispatcher has stopped nobody receives. `Services.cfg` with
  `QueueSize = 1` violates `ShutdownEnds`. The code's queue holds 1000 jobs.
* After the hub has stopped, readers of live streams block for ever as they unregister.
  An unsubscribe without a subscription subscribes (`Services.cfg` with `Stray = TRUE`
  violates `HubRight`). A message that is not JSON panics the reader.
* Migrations: a start that is killed between the copy of users and the copy of
  data sources of an old database loses the data sources, for both have one id
  (`user_mig.go:74`), where `docs/sources/installation/migrating_to2.md:10` promises an
  automatic migration. MySQL commits DDL before the log entry, so some kills make every
  later start fail. Two processes may migrate at the same time. `TableCheckSql` names
  the schema "grafana".

Accounts and sessions:

* `auto_assign_org = false` and an LDAP user who is in an organisation of his own only:
  the login fails. Deleting a user leaves rows of `org_user`; deleting an organisation
  leaves quota and alert rows. Revoking an invite looks at neither organisation nor
  status. The quota of users is not checked by the second step of a sign-up nor by an
  invite that is completed.
* Requests of one browser that overlap a sign-in or sign-out undo it in two cases, which
  `StaysSignedIn` leaves out (`astray`): a request sent before, which is started after its session
  was renamed (`login.go:148`) or removed, makes a session of its own, and its answer
  replaces the cookie; a sign-out that does not find the renamed session leaves it, and
  with it the user signed in. `Release` writes sessions back that were removed meanwhile
  (`revived`): one that has expired may so come back for a browser that is told nobody is signed
  in. Under a proxy, a request that removes another user's session may find it written back
  and take it over with the time of its LDAP sync (`mixed`, left out by `SyncedWithinTtl`). `Logins.cfg`
  violates each property without its exception. The
  OAuth state is lost when a page request overlaps. The request that syncs with LDAP is served with the roles from
  before. With several LDAP servers a proxy's user must be found on each; if the first
  is down the others are not tried. Sessions survive a change of the password.

Dashboards and contents:

* On SQLite a save that is retried is refused for its own version. Overwriting by slug
  writes the other dashboard. `GetAlerts` returns neither alerts nor an error when an
  alert is not valid to save, so that all alerts are deleted. `DeleteDashboard` ignores
  errors of the deletion of alerts. Importing a dashboard saves no alerts. A plugin's
  sync takes over a user's dashboard of the same slug. Two overlapping `SaveAlerts`
  duplicate alerts on databases that are not serial. There, a save that has been overtaken by two
  others while an expiry deletes the version it is about to write sets the row back to that version,
  below the newest in the history (four requests; what such dashboards keep is left out of
  `HistoryMatches` by `overtaken`). JSON with two alerts on one panel, which the editor does not
  make, updates one row twice (`alert.go:160`) and is left out by `PanelsAssumption`.
* Expired snapshots are never removed (`dashboard_snapshot.go` passes the function
  `time.Now` in place of a time). A playlist whose items were lost can neither be edited nor deleted.
  Deleting a dashboard takes it out of every playlist (`dashboard.go:262`), and a playlist of which
  nothing is left is lost in that way. A playlist whose insert fails has its items stored for playlist 0.
  An annotation updated without tags keeps its old tags in the search; one with two
  tags of one key is not found by the key. The search limits rows, not dashboards. Setting the home
  dashboard resets theme and timezone. Preferences may be there twice after overlapping saves.

Data sources and outlets:

* On PostgreSQL two overlapping additions of a default data source leave two defaults: the
  UPDATE that unsets the others (`datasource.go:128-137`) does not see the row that is not
  committed, and neither does one that makes another data source the default. Two updates with the
  flag may wait for each other's row, which PostgreSQL ends with an error.
* Saving a page of a data source that was loaded by name makes it read-only. Empty fields
  and secure data are never cleared. Provisioning sets versions back to 1 at each start.
  Provisioning allows one default over all organisations. Two updates in one second leave a stale
  transport. A token is kept by the data source's id only, and outlives an update of its
  credentials. SQL engines are never reused, though `sql_engine.go:47` says they are.
* After one failure to create the log file nothing is logged any more. The file outgrows
  `max_lines` by lines of concurrent writers. A failed push to Graphite loses the deltas. An avatar that
  failed once is never shown again. While an avatar is fetched anew its empty buffer is served
  (`avatar.go:254`), and a fetch that breaks off leaves it cut for ten minutes, with whoever shares it.
  A mail server that takes the connection and does not answer stops `processMailQueue` for as long as
  it is silent, and with a full queue every request that sends a mail. `email_sent` is set when the mail
  is only queued.

## 6. Not modelled

The message bus (a synchronous call), the time series back ends (requests and
conversion; in CloudWatch a counter of answers is decremented without
synchronisation, so a response may lack answers), configuration, JSON accessors, the
build. Log output, wording, layout and templates are left out of the models. In the
alerting models: how a rule is parsed from its row (a row that cannot be is left out of the
list, as one that is deleted), the time an evaluation takes. Floating point is exact.
The keys by which the renderer signs in (`render_auth.go`) are a map under a lock. Unsynchronised maps (`tokenCache`, the avatar cache) are modelled as synchronised, one
step per access: a Go map that is written concurrently may end the process. The error that
`Sessioner` shares between requests is likewise its own in the model. A fetch of an avatar makes its
buffer and the writer to it in one step (`avatar.go:254-255`); two fetches that do so at once may share
one buffer. Columns
that nothing depends on are left out of rows.

## 7. Plan

What remains to prove is the rest of `PeriodsKept` (`EveryPeriod`). `Migrated`, `ReducersRight`,
`SearchFindsAll` and `ConfigApplied` stay with TLC, for the reasons given above.
