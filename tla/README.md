# Ansible Web: TLA+ models, checks and proofs

Ansible Web is a FastAPI service that manages servers and network devices. An administrator keeps a
list of devices, tests them with ansible playbooks, runs commands on them, and watches the CPU,
memory and interface traffic of those that speak SNMP. A background thread polls the monitored
devices; a page draws what it collected.

This directory models the parts of it where threads, database sessions, timeouts and stale copies
meet. Paths below are relative to the repository (`src/`).

## 1. The system

### Components

| component | files | state it keeps | operations |
|---|---|---|---|
| SNMP collector | `app/snmp_collector.py` | tables `device_ports`, `port_traffic_samples`, `device_metric_samples`, the `snmp_last_*` columns of `devices` | `poll_all_monitored_devices` (a tick), `collect_device_metrics` (a poll), `discover_ports`, `prune_old_samples` |
| traffic rates | `app/snmp_collector.py:89-92, 179-302` | the samples | `_counter_delta`, `_get_octet_maps`, previous sample, average |
| scheduler | `app/scheduler.py` | one `BackgroundScheduler`, up to 3 instances of `_tick` | `start_scheduler`, `_tick`, `stop_scheduler` |
| database session | `app/database.py`, `app/models.py` | engine (SQLite or MySQL), one session per request or tick | `get_db`, commits, expiry of copies, foreign keys |
| device API | `app/routers/devices.py` | table `devices` | create, patch, delete, test, bulk test, command, SNMP poll |
| ansible service | `app/ansible_service.py` | table `jobs`, the file `dynamic_inventory.yml` | `sync_inventory`, `run_connectivity_test`, `run_command` |
| SNMP job service | `app/snmp_service.py` | table `jobs` | `run_snmp_poll` |
| monitoring API | `app/routers/monitoring.py` | none | overview, ports, traffic history, discover, poll |
| SNMP client | `app/snmp_client.py` | none | `walk`, `get_multi`, each a subprocess with a timeout |
| monitor view | `static/js/monitor.js` | selected device, port and range, charts, refresh timer | open, close, refresh every 10 s, poll, discover, draw |
| web client | `static/js/app.js` | the key, in a variable and in `localStorage`; the device list as drawn, the device form | `api`, login, logout, list, add, edit, delete |
| API keys | `app/auth.py`, `app/bootstrap.py`, `app/routers/api_keys.py` | table `api_keys` | create, revoke, check, register and print one at startup |
| job API | `app/routers/jobs.py` | none | read-only queries |
| startup | `app/main.py`, `app/config.py`, `run.py` | settings | `lifespan`: create tables, bootstrap, start and stop the scheduler |

### How they interact, and what is hard about it

* Ticks run in up to three scheduler threads at a time, HTTP handlers in a thread pool. They share
  nothing but the database and the inventory file. There is no lock anywhere.
* A SQLAlchemy session keeps copies of rows. `commit` writes only the columns that differ from the
  copy, then expires all copies; the next access reads the row again and raises when it is gone.
  After a commit that failed every access raises until `rollback`, which the collector never calls.
* `discover_ports` commits in the middle of a poll; `poll_all_monitored_devices` handles an error by
  reading and committing on the very session that failed. A test (`ansible_service.py:199-208`) swallows the
  error of a poll without a rollback, and a bulk test goes on with that session.
* SQLite is opened without `PRAGMA foreign_keys=ON` and reuses ids; MySQL enforces foreign keys,
  reads from a snapshot, which the first query of a transaction takes, and never reuses an id.
* A silent device costs a tick up to 105 s (15 s for the first `snmpget`, 30 s for each of three
  walks), and a device that answers late even more; the trigger fires each 30 s, and `max_instances=3`.
* Every change of a device, every test and every command rewrites the one inventory file that
  running playbooks of others read.
* The page computes a range, asks, and draws when the answer comes; anything may change in between.
* The page is one event loop, but each function that awaits a call lets others run and goes on with
  globals (`monitorDeviceId`, `selectedIfIndex`, `monitorPollTimer`, `apiKey`) they may have changed.
  No call is ever cancelled.
* The device list is drawn whenever its answer comes, and its buttons and the form it fills go on with
  what it said. A save sends every field of the form; the form can be submitted again while the first
  save is under way, and an error may come after the commit.
* A generated key is stored as a hash and told once: on the console by startup, in the answer by
  `create_key`. A crash or a lost answer at that moment leaves an active key nobody has.

### What makes it correct

* collector: one failing device does not cost the others their poll; status and time of the last
  poll come from one poll; polling never undoes an edit; samples tell which polls came to an end;
  every poll settles.
* rates: a rate stands for the octets really counted; rates tile time; averages are over the newest
  samples.
* scheduler: runs are lost only when the ticks are too long; no device is forgotten; a poll finds a
  sample to compare with.
* polls, as their users see them: what is written for a poll is written before it is over, a poll ends
  once, one that was given up leaves nothing behind.
* jobs: no job stays `running` but for a restart, an error nobody handles or a deletion; a playbook reads a complete inventory with its
  device; the file catches up; every request ends.
* chart: it shows the samples of its range, the newest among them.
* keys: a key has one active row, so revoking it works; it stays revoked; startup leaves a way in.
* page: it comes to show the device and port that are selected, never loses an interval it could not
  clear, falls silent when the view is closed, and keeps a key that works.
* device list and form: no two devices have one name; a save undoes nobody's edit but one made since the
  list was read; a page shows what it changed.

## 2. The modules

| module | models | composed with |
|---|---|---|
| `Collector` | ticks, the requests that poll, discover or test, their sessions, the device tables, the administrator | |
| `PollLedger` | abstract: what polling promises | instantiated by `Collector`, which implements it |
| `CollectorProofs` | theorems about `Collector`, and that it implements `PollLedger` | extends `Collector`, `TLAPS` |
| `OutcomeProofs` | that samples, status and the end of a tick tell what became of the polls | extends `CollectorProofs` |
| `Counter` | an octet counter and `_counter_delta` | |
| `TrafficSeries` | the samples of one device: readings, previous sample, rate, average, pruning | extends `Counter` |
| `TrafficProofs` | theorems about `Counter` and `TrafficSeries` | extends `TrafficSeries`, `TLAPS` |
| `Scheduler` | trigger, `max_instances`, durations of polls | |
| `SchedulerProofs` | theorems about `Scheduler` | extends `Scheduler`, `TLAPS` |
| `Jobs` | device, test, command and SNMP-job handlers, table `jobs`, the inventory file | |
| `JobsProofs` | theorems about `Jobs` | extends `Jobs`, `TLAPS` |
| `ChartWindow` | traffic history endpoint and the chart's buckets | |
| `ChartProofs` | theorems about `ChartWindow` | extends `ChartWindow`, `TLAPS` |
| `ApiKeys` | table of keys, startup, the check of requests, creation and revocation | |
| `MonitorView` | the monitor page as an event loop: user, timer, awaited calls, answers | |
| `Console` | the page calling a server that checks its key | extends `ApiKeys`, `MonitorView` |
| `ConsoleProofs` | theorems about `Console` | extends `Console`, `SequenceTheorems`, `TLAPS` |
| `DevicePages` | device list and form in several browsers, and the handlers they call | |
| `PagesProofs` | theorems about `DevicePages` | extends `DevicePages`, `TLAPS` |
| `MC_*` | symmetry sets and initial values for TLC | extend the module they are named after |

The modules cut the system by what its parts share. `Collector` has sessions and rows but no numbers;
`TrafficSeries` has the numbers, and of failures only that they leave no sample; `Scheduler` has time but no
database; `Jobs` has the inventory file and treats what follows an SNMP poll as one step that may fail,
`Collector` has that step and of jobs only their commits; `Console` has the page
and the keys but of the data only whose it is; `DevicePages` has the fields of a device, which the
others leave out. Each says so in its header.

### State and actions against the code

**Collector.** `devices`, `ports`, `metrics`, `traffic` are tables. `sess[w]` is a thread: `pc` is
where it stands, `rows` its copies of rows, `open` and `snap` its MySQL snapshot, `pend` and `dirty`
what it added or assigned and has not flushed. A step ends where the code waits for SNMP or at a
commit, because other threads can act there: `TickStart` is the query of `:319`; `Begin` runs to the
walk of `:225`; `Walk` ends with the query of the ports; `DiscoverWalk` and `DiscoverCommit` are
`discover_ports`; `Reload` is `db.refresh` at `:232`; `Commit` computes rates and commits; `Except` is
the handler at `:333-338`, without a rollback; `TickEnd` prunes. `WalkFails`, `ReloadGone`,
`BeginGone`, `CommitConflict`, `ExceptFails`, `PruneFails` are the exceptions, and `Abort` is one that leaves
the function. `collect_device_metrics` has three more callers besides the tick and `PollRequest`: `SnmpRequest`
is `POST /snmp/poll`, `TestRequest` a test of one device or of several. `StartTest` is a test up to its
playbook, with the commit of its job (`ansible_service.py:175`); `PlayedOut` and `Played` its end; `Tell` the
commit of `run_snmp_poll`, which writes status and time; `Told` and `Collect` go on to `discover_ports` and
`collect_device_metrics`. `Raise` is `except Exception: pass` of a test: there is no rollback, so `Left` keeps
what the poll had added, and the next `StartTest` publishes it or fails with it. `Flushed` is the UPDATE: it writes the time always, the status only if it differs from the
session's copy. `gen` tells apart devices that had the same id. `polls`, `last`, `disturbed`, `asked`
only observe. `enabled` and `snmp_monitor_enabled` are one flag, `mon`.

**PollLedger.** A poll is a pair of a run (a tick or a request) and a device. `Announce` makes polls
due; `Note` puts a sample on record while its poll goes on, which is the commit inside
`discover_ports`; `Tell` has the device's page name the poll while it goes on, which is the commit of
`run_snmp_poll`; `Settle` ends a poll with its sample on record and the device's page naming it; `Leave`
ends it with its sample on record or not: there was nothing to do, or a test swallowed its error; `GiveUp` ends all polls of a run, which is an exception that leaves the
loop; `Crash` is a restart; `Forget` is the deletion of a device, and the creation of one that reuses
its id. `Collector` maps to it by `announced <- runs`, `due <- DuePolls` (what some session has in hand
or ahead; what a test left uncommitted counts as in hand until the next commit), `book` and `flows` <- the polls with rows in the two sample tables, `board <-`
`snmp_last_polled`. Commits are the only visible steps; reads, walks and failed commits of a session
without a run change nothing the ledger sees. The mapping reads only sessions and tables, none of the
variables that observe.

**TrafficSeries.** `Open` is the first query of a MySQL transaction, which takes the snapshot that all later
ones read: that of the API key, of the devices of a tick, or the refresh of the next device. `Start` takes the
time, `Read` the counters (64-bit, or 32-bit after a walk that gave nothing), `Compare` makes the queries and
the rates, `Commit` inserts, unless a reading does not fit the signed column (`Column`); `Fail` is any poll that
raises. A rate is kept as the octets and the time it was computed from. `table` is the set of rows, each with
the number of its commit; `Visible` is what a query reads of it, the table on SQLite and the snapshot on MySQL.
`Newest` and `Tops` are `ORDER BY recorded_at DESC` with and without `LIMIT`: what the order leaves open between
rows of one time is a choice. The two queries are one step: between them another commit could only be seen by
the second, on SQLite, and it is the later poll then that the average may take in. The ports are
known; the first poll, which discovers them, has no earlier samples. One direction of traffic is modelled; the
code treats both alike. The clock is that of `recorded_at`; its unit is longer than the second to which MySQL
rounds it.

**Scheduler.** A unit of time is 15 s. `Fire` and `Skip` are the trigger with and without a free instance,
`FireInVain` a tick whose query fails; `Poll` chooses how long the poll of a device takes: any time up to `Slow`
if it is one that may be silent or answer late, up to `Quick` if not. A poll that ends leaves a sample or none
(`Sampled`); `CutShort` is the exception in the handler (`snmp_collector.py:334`) that `_tick` logs, at any
device. All clocks are relative, so time is unbounded. `age`, `ended` and `fresh` observe when each device
last had its turn and its newest sample. Misfire grace time and coalescing do not come into it: the trigger's
own thread is never late in the model.

**Jobs.** `req[w]` is a request and the place in its handler: `Sync` queries the devices and truncates
the file, `Write` writes it, `StartJob` inserts and commits the job, `Prepare` reads the device again,
`Run` is the playbook (it can succeed only with a complete file that has its host), `Finish` commits
the result, `After` reads the device again and goes on to the SNMP job `SnmpStart`, `SnmpRead`,
`SnmpSave`, `Collect`. `Raise` is `except Exception: pass` of a test, and the end of the request
anywhere else. `Fails` is an error that no handler names, at any step: an `OSError` or undecodable output of a
playbook (`_run_ansible_playbook` catches two exceptions only), a query, refresh or commit that fails, a full
disk while the inventory is written. It leaves the job running, which `cut` records, and the file truncated,
mixed or, before it was opened, out of date. `Refuse` is a 404 or 400.

**ApiKeys.** `rows` is the table, `server` where the process is between start and end. `NeedsKey` and
`Bootstrap` are `ensure_api_key`, `PrintKey` the print of `lifespan`, `Crash` the end of the process at
any step. A request is split at its check: `Arrive` is `require_api_key`, `CreateKey` and `RevokeKey`
what follows, so a key may be revoked between the two. `CreateKey` may lose its answer. A generated key
is named after the row it is put in, which makes it new; two keys with the same 12-character prefix,
for which `verify_api_key` compares both hashes, are left out.

**MonitorView.** `calls` holds the awaited calls, each with the function that awaits it: `Open` is
`openDeviceMonitor` up to its `await`, `Restarted` the two lines after it, `Render` and `Draw` what is
done with an answer, `GoesOn` a function that makes its next call with the globals of that moment,
`Fail` the `throw` of `api` and the `catch` of `refreshMonitor`, `KeyAfter` the logout on 401 and 403.
`Tick` is the interval, `ChangeRange`, `SelectPort`, `Post`, `Close`, `Login`, `Logout` and `Reload` the
user. `shown` and `chart` are the device whose data is on display.

**Console.** `Handle` lets a call reach the server, which answers by the state of the keys at that
moment (`Verdicts`) or not at all while it is down; answers come back in any order. Of the endpoints' own errors it
has those the page provokes: a range beyond a day (`Declined`, the 422 of `monitoring.py:109`), and a port
clicked in a row left from another device, which this one may lack (`Strange`, the 404 of `:118-119`). `Administer` is
another program with a key.

**DevicePages.** `table[p]` is the list a browser shows, `form[p]` its form, `calls` the requests under
way from the browser to the answer. `Submit`, `DeleteRow` and `LoadDevices` are the functions of
`app.js` up to their `await`, `Draw`, `Changed` and `Failed` what follows it. A handler is split at its
query and its commit: `CreateCheck` and `CreateCommit`, `ReadRow` and `PatchCommit` or `DeleteCommit`.
A commit may be followed by an error: `sync_inventory` may raise, or the answer get lost. `Filled` is the
form `openDeviceModal` fills: a menu that lacks the stored value shows something else. The fields of a device
stand for kinds of them: `name`, unique; `host`, for all the list returns; `platform`, for the menus;
`password`, which the form leaves empty; `community`, which the list does not return and the form shows as
`public`. An instance has some of them.
`Columns` is the UPDATE: the fields that differ from the row the handler read. `gen`, `ver`, `at` and
`typed` only observe which device a row is, when it last changed, when the list was queried, and what
the user typed.

**ChartWindow.** `Ask` counts the minutes, `Answer` queries at a later time, `Draw` sorts the samples
into buckets at a still later time. `Refused` is the 422 of a range beyond a day.

## 3. What TLC checks

| run | instance | properties |
|---|---|---|
| `ticks` | 2 ticks, 2 ids, 2 devices ever, 2 runs, 1 edit, failing commits, SQLite | `TypeOK`, `DoneMeansAllSettled`, `StatusMatchesPoll`, `AdminEditsSurvive`, `SamplesMatchOutcomes` |
| `mysql` | 1 tick, 1 request (poll, discovery, snmp/poll or a test of up to 2 devices), 2 ids, failing commits, MySQL, fair | `CrashOnlyIfDisturbed`, `RowsHaveTheirDevice`, `SamplesMatchOutcomes`, `ImplementsLedger`, `EveryPollSettles` |
| `cascade` | 1 tick, 1 request, 1 id, SQLite | `SamplesCascade` is violated |
| `traffic` | 1 interface, 2 pollers, 3 polls, 3 units of time, SQLite and MySQL | `RatesMatchTraffic`, `RatesRecover`, `RatesTile`, `AverageIsOverNewest` |
| `capacity` | 2 devices, up to 2 slow, 60 s for a slow one, ticks cut short, polls that fail | `MissedOnlyBeyondCapacity`, `NoDeviceForgotten`, `RateHasReference` |
| `jobs` | 2 requests, 2 devices, errors at any step, a restart, SQLite | `TypeOK`, `RunningHasOwner`, `RunSeesInventory`, `FileCatchesUp` |
| `jobs_mysql` | 2 requests, 1 device, errors at any step, a restart, MySQL, fair | `RunningHasOwner`, `RunSeesInventory`, `JobsHaveTheirDevice`, `RequestsEnd` |
| `console` | 2 devices, 2 calls at a time, 4 moves, a restart, another program with a key, fair | `TypeOK`, `OneActiveRowPerKey`, `RevokedForGood`, `StartupLeavesAWayIn`, `NoTimerLeak`, `GoodKeyKept`, `ViewCatchesUp`, `RevokedPageLogsOut`, `QuietWhenClosed` |
| `chart` | 7 units of time, a day of 6, a limit of 3 | `ShowsAll` |
| `newest` | the same | `ShowsNewest` is violated |
| `pages` | 2 browsers, 2 calls at a time, 2 ids, 3 changes, 4 moves, SQLite | `TypeOK`, `NoTwins`, `ShowsOwnChanges`, `UntouchedKept` |
| `community` | the same with name and community, 2 changes, MySQL | `EditKeepsCommunity` is violated |

### Bounds, and why they are enough

* `Ticks`, `Requests`: races here are between two sessions. Two ticks race each other in `ticks`, a
  tick and a request in `mysql`. A third instance adds no shared state.
* `MaxId = 2`, `MaxGen = 2`: an id is used twice, and a tick has a device after the one that fails.
  `MaxRuns = 2` lets two polls of a device overlap in both orders. `MaxEdits = 1` lets one deletion or
  edit fall anywhere. With one tick and one poll `mysql` still needs two workers: a discovery is
  no run, so it races the tick. There the one run is a tick or a request, so a bulk test over two devices is
  among them: its first poll is swallowed, the commit of the second job publishes the sample.
* `IfIndexes`: one. With two, discoveries of two sessions may find different ports; that instance is too
  large for a run with liveness, and the theorems hold for any number.
* `traffic`: `Wide = 16`, `Narrow = 6` and `Column = 8` stand for 2^64, 2^32 and 2^63. The HC counter starts at 0,
  the other 2 below its wrap (`Shown`), and each counts 0 or 3 octets in a unit of time (`Bursts`): the narrow one
  wraps, the wide one reaches what the column does not hold. Readings of the upper
  half of an HC counter are not stored, so that no rate ever goes back across its wrap. `Window = 2 = Keep`, `MaxTime = 3` lets samples become too old to compare with and be pruned.
  `HistLength = 1` of 3 polls makes the average leave samples out. With a single interface
  `HistLimit` never takes effect; instances with two interfaces are too large for the run, but the
  theorems hold for any number.
* `capacity`: a slow device costs up to 60 s, any other up to 15 s, 30 s between ticks. A tick over two devices then
  takes 75 s when one is slow, within the 90 s that three instances allow, and 120 s, beyond them, when both are.
  The window, 8 units, is the 120 s of the default. No bound on time.
* `Jobs`: `MaxJobs = 4` is a bulk test of two devices with their SNMP jobs, or two tests at once.
* `console`: `MaxMoves = 4` counts what the user and the other program do (the page's own timer and
  answers are not counted): open two devices, with a port selected or a revocation in between, and close
  again. `MaxCalls = 2` lets the answers for two devices overtake each other. `MaxRows = 2` and
  `MaxCrashes = 1` let a key be created, revoked, and startup find none active. The key of the settings
  may be set or not.
* `chart`: a minute is 2 units, a day 6: midnight falls inside the run, a question may take longer
  than a minute, ranges of 1 and 3 minutes are offered of which the endpoint takes 2 at most.
* `pages`: two browsers race each other, and so do two calls of one. `MaxChanges = 3` lets a device be
  changed, deleted and another, with its id, be created while a call waits; the menu offers one of two values; `MaxMoves = 4` counts what users do, not
  answers: fill a form in each browser and submit both, or submit one twice. Every page starts with a
  list of one device: a page that has none yet is the same page after an error. Two values tell a field
  that was changed from one that was not. Users may stop at any time, so deadlock is not checked.

### Fairness

`EveryPollSettles` and `RequestsEnd` assume weak fairness of the steps of a thread that has begun:
threads are scheduled by the operating system; every SNMP subprocess and every playbook runs with a
timeout (`snmp_client.py:110, 124`, `ansible_service.py:113`), so the wait in such a step ends; a
database call returns or raises. No fairness is assumed of new ticks, new requests, the administrator,
the device or a restart.

`Console` assumes that the interval fires again and again, that each call is answered or fails, that
a function whose answer has come goes on (one event loop, no step of which blocks), and that a server
that went down is started again. The interval's fairness is strong only because `MaxCalls` may leave it
no slot for a moment; in the browser nothing would hold it back. Nothing is assumed of the user or of
other programs. Deadlock is not checked there: a page without a view, a key or a user rests.

## 4. What is proved

Every property the passing runs check, but for the five of liveness, is a theorem for all values of the
constants: any number of threads, ids, devices, runs, interfaces, calls, browsers and restarts, any widths,
durations and windows, and both databases where nothing else is said.

| module | theorem | says |
|---|---|---|
| `CollectorProofs` | `TypeCorrect`, `Typed` | `TypeOK`, and that inside a poll a session has a device |
| | `TicksAreNotCutShort` | `CrashOnlyIfDisturbed` |
| | `EditsAreKept` | `AdminEditsSurvive` |
| | `CascadeWhereEnforced` | `RowsHaveTheirDevice` on MySQL |
| | `PollingKeepsLedger` | `ImplementsLedger`: the collector implements `PollLedger` |
| `OutcomeProofs` | `DoneTicksSettle` | `DoneMeansAllSettled` |
| | `SamplesTellOutcomes` | `SamplesMatchOutcomes` |
| | `StatusIsThePolls` | `StatusMatchesPoll` |
| `TrafficProofs` | `DeltaExact`, `NarrowDelta`, `DeltaNatural` | `_counter_delta` is exact across a wrap of the assumed width (no stored reading has one, the columns being signed), too large by the difference of the widths for a narrower counter that wrapped, never negative |
| | `RatesTellTraffic` | `RatesMatchTraffic` |
| | `RatesTileTime`, `OneSampleLost` | `RatesTile`, `RatesRecover` |
| | `AveragesAreNewest` | `AverageIsOverNewest` |
| `SchedulerProofs` | `MissedBeyondCapacity` | `MissedOnlyBeyondCapacity` |
| | `EveryDeviceHasItsTurn` | `NoDeviceForgotten` |
| | `ReferenceInTime` | `RateHasReference` |
| `JobsProofs` | `TypeCorrect` | `TypeOK` |
| | `OwnerCorrect` | `RunningHasOwner` |
| | `JobsKeepTheirDevice` | `JobsHaveTheirDevice` on MySQL |
| | `RunReadsInventory`, `FileIsCurrent` | `RunSeesInventory`, `FileCatchesUp` |
| `ChartProofs` | `ChartIsComplete` | `ShowsAll` |
| `ConsoleProofs` | `KeysInvariant`, `ViewInvariant` | the two invariants below |
| | `Typed` | `TypeOK` |
| | `OneRowPerKey`, `RevokedStaysRevoked`, `WayIn` | `OneActiveRowPerKey`, `RevokedForGood`, `StartupLeavesAWayIn` |
| | `NoTimerIsLost` | `NoTimerLeak` |
| | `KeyKept` | `GoodKeyKept`, an action property |
| `PagesProofs` | `PagesTyped` | `TypeOK` |
| | `NamesStayApart` | `NoTwins` |
| | `SavesKeepTheRest` | `UntouchedKept`, an action property |
| | `OwnChangesShown` | `ShowsOwnChanges` |

The assumptions are those the modules declare. Bounds are natural numbers; `IsMySQL` and `DbFaults` are
Booleans; a thread is not both a scheduler's and an HTTP server's; the key of the settings is none of the
generated ones. Of an interface it is assumed
that it counts less in a unit of time than the narrow counter holds, and that samples are kept for at least
the time a rate may look back (days, against minutes). Of the scheduler nothing is
assumed but bounds on how long the polls of a device may take, `Slow` or `Quick`, in any relation.

The arguments, and why each invariant is stronger than what it is for:

* *Types.* `TypeOK` alone is not inductive: the steps that use `sess[w].cur` as an id need it to be
  one, so `TypeInv` adds that a session which is neither idle nor at the top of its loop has a device.
* *Ticks.* That a tick crashes only when disturbed is not inductive: an exception in a later step
  depends on what was read earlier. `CrashInv` adds `Reliable(t)` for every tick not yet disturbed: each
  device it has in hand or ahead still exists, an open snapshot shows it and its ports as they are, and
  the ports it is about to update or complete are those in the table. From it the steps `BeginGone`,
  `ReloadGone` and the conflicts of commits are impossible for undisturbed ticks.
* *Edits.* Inductive together with the types: `Flushed` changes status and time only.
* *Cascade.* `CascadeInv` adds `GivenOnce`: on MySQL the n-th device ever created has id n, so a row, a
  copy and the device a session is busy with carry the number of their id, and nothing beyond `created`
  exists. An insertion is then for the device it was meant for, or refused because that is gone.
* *Ledger.* A step of a session is a step of the ledger only if the session is where its poll needs it.
  `LedgerInv` says so: no two workers are busy with the same run (else ending a poll would not end
  it), the device in hand is not also ahead, the sample is pending until the first commit of the poll,
  and after that it is on record (`NotedEarly`) unless it went with its device. That last exception is
  why the final commit of a poll needs `CascadeInv` on MySQL: a device that is there with another
  number than the session's would be one that got its id again. A test that swallowed an error keeps its
  device in hand as long as the sample is pending (`Left`), so that the commit of the next job is `Leave`
  of that poll; after `Tell` a poll is due until it settles or is left. Each action then has one lemma that
  names the ledger's step: `TickStartLedger`, `SettleLedger`, `IdleLedger`, ...
* *Outcomes.* The record `polls` observes, so what it says has to be tied to what the sessions do.
  `SessionPolls` does so one way: a device ahead is a queued poll, the one in hand an open poll of the same
  device, with a sample on record once the session has none pending. `PendingIsDue` is the way back: a
  poll that is not over is in some session's hands. With `TickRuns` (the run a tick reports is its own) a tick
  that is done has no poll left. `StatusMatchesPoll` needs `CopyHasStatus`: the UPDATE leaves the status
  out when it equals the session's copy, so that copy must equal the row unless the poll saw the row change.
  `told` keeps what a poll wrote last, because in a test or `snmp/poll` it may be written twice, and the poll may
  raise in between. A poll that was swallowed while its sample is pending is the one case of a sample that is
  written after the record has an outcome.
* *Rates.* That a rate is right when it is computed needs the readings of the past to be right: `Tally` says
  that any two readings of a port that are still of use, in the table, in a snapshot, in a poll's hands or to be
  taken now, `Agree`, that is, one is what its counter shows after the octets counted since the other. It has
  to be said of all pairs, because nobody knows which sample a poll will find. `ReadAfter` orders them: a sample
  committed before a poll began was read before the poll reads. `Old` and `Kept` say what a snapshot is on
  MySQL: samples committed before the transaction began, all of those that are still there; `Visible` is then
  between the two on both databases. `RatesTile` and `RatesRecover` need `Chosen`, which says of a rate what it
  referred to among the samples that were visible when its poll looked; retention only takes samples away from
  that set, and never the newest of those it keeps. What samples of one time do, in which order, is left to
  the choice in `Newest`, so both properties name the samples they are not about.
* *Runs.* `rank` counts for each instance the firings since its own. As long as none is missed the ranks
  differ, and `OnTime` bounds the time an instance has been under way by that of the devices it has done; a tick
  that is cut short only frees its instance earlier.
  When all instances are busy at a firing, one of them has a rank of `MaxInstances - 1` at least (by the
  pigeonhole principle) and would have been under way for longer than a tick takes. `Recent` gives for each
  device a number k: the last turn of the device that is over, in a poll or by a cut, is not older than the
  tick of k firings ago, and each later tick is still on its way to the device, so that it began at most the time
  of one tick ago. `TurnInv` needs no capacity: somebody is on the way to each device, or past it and will be free
  in time, or the trigger will fire in time, or a cut has cost the device its turn.
* *Jobs.* `TypeOK` needs `Room`: the jobs in the table and those that requests under way may still insert
  fit the table, so an insertion finds a free row. `OwnerInv` follows the device of a request through
  deletions: it is the row with its id, or it was deleted; a step of `Fails` puts the job at hand in `cut`. On MySQL `DeviceInv` makes that the number of the
  id. `FileInv` says when the inventory is behind the devices: only while somebody is about to rewrite it
  or writers met; and `Seen` and `Finds` that a request nobody disturbed sees the devices as they are when it
  queries, writes that, and finds it.
* *Chart.* `AnswerInv` keeps what was asked, when, and what the query then found. `ShortAnswer` is the
  lemma behind the limit: what `Oldest` leaves out has as many older samples as the limit, all of them in
  the answer. `QueryReaches` compares the midnight of the question with that of the drawing.
* *Keys.* `KeyInv` adds to the properties that each key is that of its row or of the settings, that a
  key nobody was told waits to be printed, that no request is under way while the server is down, and
  that some key is active while none was revoked since startup. From the first, a key that was revoked
  can come back only as that of the settings; from the last, `NeedsKey` means what startup takes it for.
  `KeyKept` needs that a key whose call was refused stays refused (`StaysRefused`), unless it is that of the
  settings, so the key in use can be lost to a late refusal only if that was of another key, or of that one.
* *Timers.* `NoTimerLeak` is needed to show that a new interval finds a free id, and the other way
  round: at most one runs.
* *Pages.* Types need that a call has the id its kind needs and that there were never more devices than
  changes, which bounds `gen`. `UntouchedKept` needs `CopyInv`: a device that has not changed since a list was
  read has, in every field the list returns, the value shown in that list, in each form filled from it and
  in each call made from that form, but for what was typed and for menus without that value; every step preserves it because rows only
  grow newer (`Aged`). `ShowsOwnChanges` needs `Fresh`:
  unless two lists crossed, the list shown and each one answered but not yet drawn was queried after
  every change confirmed to its page.

Proving changed three properties. `RatesMatchTraffic` and `RatesRecover` held in the instance only
because its time is short: between two readings far apart even a 64-bit counter may go round, so they speak of
readings with fewer octets between them than the counter holds. `NoDeviceForgotten` allowed two ticks and an
interval; one tick and an interval are enough. `RateHasReference` names what it needs of the window: with
the defaults (30 s, 3 instances, at least 120 s) it is always given, with a longer interval of the
scheduler it may not be.

Two of the conditions are about what the code cannot promise. `RunningHasOwner` excepts jobs whose request ended with
an error that no handler names (`cut`), and `NoDeviceForgotten` and `RateHasReference` devices to which an exception
cost their turn: the code has both, and nothing in it makes up for them.

Only model-checked, so for small instances, are the properties of liveness: `EveryPollSettles`,
`RequestsEnd`, and the three of `Console`, `ViewCatchesUp`, `RevokedPageLogsOut` and `QuietWhenClosed`. They rest
on fairness, and so on ENABLED, which the prover does not reason about.
`RowsHaveTheirDevice` and `JobsHaveTheirDevice` are theorems for MySQL only, because on SQLite they do
not hold. No module uses a recursive operator.

## 5. Where code and documents disagree

* **`cascade`.** `models.py:129, 145` declare `ondelete="CASCADE"` for the samples. On SQLite, the
  default database, the foreign keys are not enforced and no ORM relationship deletes the samples:
  they stay, and pass to the next device that gets the id.
* **`community`.** `README.md:46` has each device given its community, "`public` or the one in
  operation". The list does not return it (`schemas.py:55-82`), the form shows `public` for every device
  (`app.js:311`), and every save sends that (`app.js:340`): after an edit of anything the device is polled
  with `public`. `SavesKeepTheRest` proves that but for menus without the stored value nothing else is lost in this way.
* **`newest`.** `README.md:53` promises a real-time traffic chart. The history endpoint sorts oldest
  first and then limits to 500: at one sample each 30 s the view "today" stands still some 250 minutes
  after midnight.

Seen while modelling, without a violated run:

* A save sends all fields of the form, so it undoes what others changed since the list was read, which is
  why `UntouchedKept` excepts it. Its answer closes whatever form is open by then. A deletion that fails
  is not reported.
* A menu of the form that lacks the stored value (`network_os` is a free string in `schemas.py`, and
  `ansible_service.py:44` knows `vyos`, which `index.html:374-378` does not offer) turns to nothing or to the default
  (`app.js:307-308, 337`), and any save sends that. `UntouchedKept` excepts such values.
* `app.js:244` asks "delete this device?" and deletes what has the row's id. On SQLite that may be a
  device added since in another browser; on MySQL ids are never given again. It is no property here: the first does
  not hold, and the second is the database's.
* A job stays `running` for ever after an `OSError` or undecodable output of its playbook, after a commit that
  fails (a result too long for its column on MySQL), and after the inventory's disk is full the file is truncated
  until the next change. `RunningHasOwner` and `FileCatchesUp` except both.
* The octet columns are signed (`models.py:132-133`): once an interface's HC counter reaches 2^63 every poll of its
  device fails at the flush.
* On MySQL a poll compares with the samples of its snapshot, which the first query of the request or the tick
  took before the poll's own time (`auth.py:33`, `snmp_collector.py:319, 191`). Another poll's sample committed
  in between is not seen; `RatesTile` names that case by the commits since.
* `scheduler.py:36` says that `max_instances=3` prevents missed runs when devices time out. It does up to
  a point, which `MissedOnlyBeyondCapacity` states: with the default timeouts one silent device occupies a
  tick for 105 s, longer than three intervals of 30 s, and every fourth run is lost.
* The overview takes the oldest 120 metric samples of the last hour (`monitoring.py:67`), the same order
  and limit as those of `newest`.
* `README.md:65` offers the traffic of older IOS versions, computed from 32-bit counters. `_counter_delta` adds 2^64
  whenever a counter decreased, so each time one wraps the rate is too large by (2^64 - 2^32) * 8 / dt, and a busy
  interface does so every few minutes. `NarrowDelta` proves the amount. No property says that such rates are right,
  because they are not, and none says that they are wrong.
* A reboot, or a change between 64-bit and 32-bit counters, distorts a rate; `RatesRecover` says for
  how long.
* When some interfaces have 64-bit counters, those that have only 32-bit ones get no sample: the
  fallback is taken only when the 64-bit walk gave nothing at all.
* The pysnmp path of `snmp_client.py:144-179`, taken without the command line tools, walks on past the
  table it was asked for and swallows every error, so rows of later tables land under the same indexes.
* The interval stored with a device (`static/index.html:432`) does not decide how often it is polled;
  ranges of 7 and 30 days (`static/index.html:204-205`) are refused by the traffic endpoint, so `ViewCatchesUp` promises
  the chart for the other ranges only, and for a port of the device itself; the first
  minute of a day is missing from the view of a day.
* A key of the settings that was revoked comes back at the next startup, when no key is active
  (`RevokedForGood` excepts it). The last key can be revoked; then nobody gets in until a restart.
* A late traffic answer for the device opened before is drawn in the view of the next, which has no port
  selected, and stays until one is. `ViewCatchesUp` therefore speaks of the chart only when a port is
  selected.
* A late 401 or 403 for an old key logs out a key entered since. `GoodKeyKept` says that this is the only way a
  page loses a key that works, with the key of the settings when startup registered it again. The timer of an open view goes on after a logout and calls without a key.

## 6. What is not modelled

* Of `app/schemas.py` the validation of values, which is declarative. `app/routers/jobs.py` and the overview, ports and metrics
  endpoints: read-only.
* Parsing of the output of SNMP tools and the pysnmp path of `snmp_client.py`: text handling, and an
  alternative to the same calls.
* The playbooks (`ansible/playbooks`): an external call with a result. `app/services/asa_api.py`: no
  caller. Shell scripts. `get-pip.py` is a vendored installer, most of it encoded data; its 27,506 lines
  are 93 % of all lines of the repository that count as code.
* Of the page: the dashboard, the job list and the command form, the list of API keys, sorting and search, the zoomed chart, a
  device that is deleted while its page is open, and calls lost on the way to a server that is up.
* The first poll of a device in `TrafficSeries`, which discovers its ports: it has no earlier samples.
* Two API keys with the same prefix. A device renamed while its playbook runs; the connection pool.

## 7. Plan

Done, in the order of what matters most: the collector, rates, the scheduler, jobs and inventory, the
chart's range, the keys, the page, the composition of both, the ledger of polls and its refinement, the device list and form.
All safety properties of the passing runs are proved. The models follow the error paths too: every caller of a poll,
failing commits and file writes, ticks cut short, readings a column cannot hold, the reads of MySQL's snapshots, the
endpoint's own refusals and menus that lack a stored value. What is left is model: the job list and the
dashboard of the page, two keys with one prefix, a device renamed while its playbook runs; and instances of
the runs with two interfaces, should TLC be given more time.
