# A TLA+ model of dbquery_exporter

dbquery_exporter answers `/query` requests of Prometheus with the results of SQL queries. This directory
has a model of its concurrent core, the runs of TLC that check it on small instances, and proofs that TLAPS
checks for every instance. Paths below are relative to `src/`.

- [1. The system](#1-the-system)
- [2. Modules and code](#2-modules-and-code)
- [3. Runs, bounds and fairness](#3-runs-bounds-and-fairness)
- [4. Where code and documentation disagree](#4-where-code-and-documentation-disagree)
- [5. Proofs](#5-proofs)
- [6. What is only checked, and what is not modelled](#6-what-is-only-checked-and-what-is-not-modelled)
- [7. Plan](#7-plan)

Run everything from this directory: `tlc -workers 2 -config <run>.cfg <MC module>` and
`tlapm <module>Proofs.tla`. `PROJECT.json` lists the runs, the lines every definition stands for, and for each
property a definition that breaks it (the `Name_Variant` definitions marked "Mutant" in the modules).

## 1. The system

```
 HTTP request --> limit, gzip, recover --> queryHandler --tasks--> Collectors --> collector of a database
                                            | locker                                | run, worker pools
                                            | cache <----- scheduler --tasks--------+ queryDatabase
 SIGHUP --> confHandler --(1)--> Collectors.Run                                     v
                        --(2)--> web handler                                   genericDatabase
                        --(3)--> scheduler
```

| Part | State | Operations | What makes it hard | What makes it correct |
|---|---|---|---|---|
| collector (`collectors/collector.go`) | three channels, two errgroups of workers, a goroutine per query | `addTask`, `run`, `worker`, `handleTask`, `queryDatabase` | hand-over between goroutines, idle timers, cancellation, stop at any moment | a task is in one place, answered once, lost only for a reason; pools do not mix; stop leaves nobody behind |
| registry (`collectors/mod.go`) | map of collectors | `Run`, `AddTask`, `createCollectors` | collectors are replaced while clients use them | a client gets an old collector, a new one or an answer; every valid database has one |
| locker (`server/query_handler.go`) | map from raw query to owner and time | `tryLock`, `unlock` | locks expire, `unlock` does not look at the owner | equal requests do not overlap, no entry is left behind |
| query handler (`server/query_handler.go`, `request.go`) | the count of scheduled tasks, Output, the response | `ServeHTTP`, `queryDatabases`, `gatherResults`, `updateConf` | results of three origins, timeouts, lost tasks, reload in the middle | each item once, complete if in time, always ends |
| cache (`cache/cache.go`) | map with expiry | `Get`, `Put`, `Clear` | filled by handlers and jobs that began before `Clear`, or before each other; expiry counts from `Put` | how old an answer can be is bounded, in time and in configurations |
| middleware (`server/mw.go`) | semaphore, pool of gzip writers | limit, compress, recover | writers are shared between requests, while they are closed too | how far the text of a request can go astray; one request at a time gets its own text, all of it |
| scheduler (`scheduler/mod.go`) | jobs, configuration | `runSerial`, `runParallel`, `handleJob` | waits without a timeout, reload while jobs wait | jobs are of the current configuration, stop and reload end |
| start, reload, shutdown (`cli/main.go`, `server/mod.go`) | three channels without a buffer, `run.Group`, the web server | `start`, `stop` of confHandler, `Run`, `Stop` of the web handler | order of three receivers and of the interrupts, closing of channels, an actor that has not begun | everybody gets the last configuration; what can keep a reload or a shutdown from its end; a process at rest dies of nothing but the panic of a task |
| database (`db/generic.go`) | connection pool, mutex | `openConnection`, `Query`, `CollectMetrics` | concurrent open, a ping that fails, initial statements | one pool, connections come back |
| configuration (`conf/`) | what the file says | `Load` | boundaries of numbers, parts that refer to each other | a loaded configuration is usable |
| drivers (`db/impl*.go`, `validators.go`, `mod.go`) | the registry of a build | `validateConf`, `instanate` | validation and connection string look at different things | what is valid can be connected to |

Templates, rows, the info page, TLS, metrics, traces and logs are not modelled (section 6). The list of
hazards, with the line of each and the properties that cover it, is in `PROJECT.json`.

## 2. Modules and code

**TaskService** is the abstract specification of a collector. A task is new, pending, answered or dropped; it is
answered at most once, and dropped only when its client has withdrawn it or the service was stopped. `Collector`
implements it; `QueryHandler` and `Scheduler` are shown to use it as it allows.

**Collector** is `collector.go` with both ends of a task. Each select is a set of actions with its cases as guards.
`client` is the goroutine that submitted the task (a request, or a job of the scheduler): it adds, waits, and closes
`Output` and the cancel channel in the order its deferred calls have in the code (`OutputClosed`, `Cancelled`). `wpc` has
one entry for each slot of an errgroup, so that `TryGo` fails when all slots are taken; a worker whose timer fired is
"stopping" and holds its slot until its function returns. `query` is the goroutine of `queryDatabase` with its channel of
capacity one. What a result says, success or error, nobody here looks at, so there is one `Result`. A send on a closed
channel stops the goroutine; the errgroup (an external library) keeps the panic of a worker, and `Wait` raises it again.
A run that has not begun leaves `tasksQueue` nil. `Patient` is a bound: clients whose context is not done before an answer.

**Locker** is `tryLock` and `unlock` with time in steps. `Tick` lets no request get older than its timeout: it assumes
that a handler whose context is done returns at once.

**Cache** extends Locker with the entry of one query on one database, which requests and a job of the scheduler ask for,
and with time: when the query of a client began (its data are of then), when `Put` was called, when `Get` looks. `from` is a
history field, the raw query string or the job that filled the entry. A request may take its result late, because
`queryDatabases` adds all its tasks before `gatherResults` takes the first result; a job waits for nothing else.

**QueryHandler** is `ServeHTTP` with the cache and `updateConf`. `Item` is a query on a database, `todo` what the loops of
`iter` still have to look at (in any order, as the names come from a map), `scheduled` the counter of
`responseWriter`. An entry of the cache has the configuration and the request it is from; `spanning` is a history
variable, the requests in progress at the last `Clear`. Expiry is `Evict`, an entry lost at any moment (with time in Cache).
The collectors are the actions of TaskService; `StopCollectors` and `StartCollectors` replace them.

**Drivers** has no state: `Registry` is what the `init` functions of a build leave in `GlobalRegistry`, `ParamsAreValid` and
`PortIsValid` the validation, `NoPlace`, `Refused` and `ConnString` what `instanate` does with a connection: a panic, an error or the
parameters that get into the connection string. A value is what these tell apart: text, blank, empty, null, a port, a number.

**Config** is `conf.Load` after the YAML was parsed: `setup`, `validate`, the loops of `buildGroups` (`ungrouped` and `pairs` are
what they still have to look at); and then `createCollectors`, which makes a collector for each valid database with a driver
(`Served`). A database without a driver is not validated, but may say `valid: true` in the file. `Blank` is the name "", which
a job may not have.

**Request** extends Config with `newRequestParams` and `iter`: one `Parse` for every URL and every order of the names, with the
groups and the queries that were loaded, against what the URL says.

**Middleware** is the chain around the handler. A writer has the response it was last reset for, and keeps what is
written to it until it is closed. `Close` is `BeginClose`, `FlushWriter` for each chunk and `EndClose`: the writer is back in the
pool by then, so another request may reset it between any two of them, and what was not flushed is lost or goes to the
response of that request. `InClose` says where a write comes in the middle of it. What the data race does to the bytes of one chunk is
not modelled. `limit` is any of `Limits`. `Writer` also bounds how many writers exist at a time.

**Scheduler** has the actions of both modes of the scheduler; `parallel` is the mode, chosen at start. A task is one execution of a job; `StartJob` begins `handleJob`,
`TakeResult` and `GiveUp` are the cases of its select. In serial mode `pos` is the job of `runOverdueJobs`. `AddPanics` is a job
whose collector has closed `tasksQueue`: `runSerial` dies of it, while the errgroup of the jobs keeps it until `Wait`
(`WaitPanics`, `jobPanicked`). `TaskLife` and `Withdrawn` map its tasks to those of TaskService.

**Reload** extends Scheduler, and has the specification of both: it adds confHandler, `Collectors.Run`, the goroutine of the web
handler, `WebHandler.Run` and `run.Group`. The process begins with no goroutine run: no collector, no server, no handler of SIGHUP.
Configurations are numbered. The channels have no buffer: a send is one step of both ends. `run.Group` (an external
library) interrupts its actors in the order of `Add` when one returns: collectors and scheduler (`Interrupt`), confHandler
(`CloseChannels`), web handler (`StopWeb`). After a panic without recover nothing happens. A select that finds two channels
ready may take either; a goroutine that waits ("parked") takes what is ready first. The function `stop` of `Collectors.Run` cancels
the context (`CollStop`) and then waits for the group; after that the collectors are replaced, or `Run` returns, or panics. That wait
may also raise the panic of a worker (`CollWaitPanics`, `workerPanicked`), or never end, for a collector is stuck on a full
queue (`CollHangs`). Both can come at any time, as the workers are not in this module; when they do come, Collector says.

**Database** is `genericDatabase` with the pool of `database/sql` as a number of connections.

`MC*` modules have the values of constants that a `.cfg` cannot write and the symmetries. The proofs are in `CollectorProofs`,
`LockerProofs`, `CacheProofs`, `DatabaseProofs`, `QueryHandlerProofs`, `MiddlewareProofs`, `ReloadProofs` (Scheduler and Reload)
and `RequestProofs` (Drivers, Config and Request).

## 3. Runs, bounds and fairness

| Run | Instance | Shows |
|---|---|---|
| Collector_pools | two requests, one of them patient, and a job; a worker in each pool, queues of one; fairness | the collector's invariants, that it implements TaskService, and that tasks leave it and stop ends, unless the pool of the task sleeps for ever or run is stuck |
| Cache_fresh | two requests with one raw query string and one with another, and a job, all for one query; timeouts 2 (request) and 3 (query, lock), caching time 2, clock to 6 | exclusion, an exact table; how old a cached answer can be, and that older data replace newer ones only between different clients |
| QueryHandler_replace | two requests for two items, one with invalid output, collectors replaced once | each item once, complete, room in Output, TaskService is respected |
| QueryHandler_equal | two equal requests, one of them bad, and one with another key for the same item; one reload; fairness | equal requests do not overlap, which entries of an old configuration the cache can have, requests end whatever the collectors do |
| Reload_all | one job that the first reload removes and the second brings back, three reloads, both modes of the scheduler | executed jobs are of the current configuration, results in the cache are one or two configurations behind at most, all get the last configuration; a process that was at rest dies of nothing but the panic of a task |
| Reload_ends | the same with one reload and fairness | a configuration reaches everybody (in parallel mode) and shutdown ends, whatever becomes of the tasks of jobs, unless collectors never stop or a task panics |
| Database_pool | three queries, one connection, two opens of the pool, fairness | one pool, no nil, connections come back, queries end without being cancelled |
| Request_load | one database with every pool (limits -1 to 4) and -1 to 5 background workers; two databases, two queries and a job, good and bad in all combinations, names left out and databases marked as valid; for one good configuration all URLs with two values per parameter, blank, padded, unknown, repeated; one database with every name of a driver and 3456 connections, in a build with all drivers and in one with three | workers fit the pool, groups are exact, what is loaded is usable, what is valid is connected, pairs once, rejection only for a reason |
| Middleware_shared | three requests of clients that accept gzip and a plain one, limits 1 and 2 | two clients never get the text of each other, and nobody that of a handler that still runs; with limit 1 responses are their own and complete |

The bounds, all in the constants: tasks, requests, workers, queries on a database and jobs are small sets; `MaxVersion`,
`MaxStops` bound reloads; `MaxRuns` the executions of a job; `MaxTime` the clock; `MaxPools` the calls of `sqlx.Open`;
`MaxChunks` the writes of a handler; `MaxValues` the values of a parameter; `Patient` the clients without a deadline;
`Limits` the limits of requests in flight. Work queues have capacity one in the runs and ten in the code. In Collector_pools
two requests and one worker let a task wait behind another, `run` block on a full queue with a job behind it, a worker time
out with a task in its queue (`PoolAsleep`) and with `run` blocked (`DispatcherStuck`). Two tasks or requests are enough for each
other hazard, which is a race of two goroutines; three reloads let something be three configurations behind. The clock of
Cache_fresh lets the slowest client fill the cache, an entry expire and another one be put. The safety of two
workers that compete for one queue is covered by the proofs of section 5, which have no bounds; liveness has been checked with
one worker in each pool only. `CHECK_DEADLOCK FALSE` stands where all clients may be served or the process may have ended; each cfg says so.
Collector_cancel and the runs of Middleware use the symmetry of interchangeable tasks, workers, requests or writers.

Fairness. Go runs every goroutine that can run, so steps of `run`, workers, handlers and the scheduler are weakly fair.
The query goroutine is fair because a statement ends in the database: `NamedQuery` runs it
without a context (generic.go:144), so the timeout of the query does not interrupt it; every other call of the driver has a deadline. A request's `Expire` is fair only
in `QueryHandler_equal`, where it is the timeout of `ServeHTTP`. What clients want, timers of idle workers, answers of
collectors (in QueryHandler and Reload) and signals are never fair. Only `Reload_serial_stuck` assumes that collectors which
are not replaced take tasks and answer them, and that those which are stop (`ServedSpec`), so that its counterexample is what a
reload does to them. There `SendScheduler` is strongly fair: each round of `runSerial` resets its timer to a second before the
select, so a configuration that is waiting is received. Elsewhere it is weakly fair, like `run.Group`, `WebHandler.Run` and
`Collectors.Run`; that `Run` gets out of `Wait` is not assumed, for `CollHangs` may come instead. That listening fails, that a
configuration has no database, or that something panics or hangs, is not fair. In Database the mutex and the pool are strongly fair:
`sync.Mutex` has a starvation mode and `database/sql` serves its waiters in order.

`CacheLag` differs in the two modes: in parallel mode a result may be two configurations behind, for confHandler is done
with the scheduler when `runParallel` has received the configuration, and a second reload may reach the web handler while
a job that was told to stop chooses a result that is ready.

## 4. Where code and documentation disagree

Three runs end in a counterexample; `PROJECT.json` quotes what the documentation says.

| Run | What happens |
|---|---|
| Collector_cancel | a worker sends a result to a request that timed out and closed its channel: a panic, which the errgroup keeps and `Wait` raises again when the collector stops |
| Middleware_gzip | a writer is back in the pool before it is closed; another response is cut short, the first one has no end |
| Reload_serial_stuck | a reload drops the task the serial scheduler waits for, and waits for the scheduler itself |

The models show more of the kind. These are states they reach, or hypotheses that they need, and not runs of their own:

- `AddTaskPanic` of Collector, `AddPanics` of Scheduler: a client with a collector that is being replaced, or stopped, panics in
  `addTask` (collector.go:95), where an error "collector inactive" is meant (collector.go:87). The web server recovers a
  request from it; nobody recovers the scheduler.
- `DispatcherStuck` of Collector, `CollHangs` of Reload: `run` is blocked on a full work queue as the last worker times out. It stays so
  for ever, and so do the reload and the shutdown that wait for it (collectors/mod.go:65).
- `FlushWriter` of Middleware: a response gets the rest of the text of another request, when it took the writer
  in the middle of its `Close` (mw.go:192-196).
- `PoolAsleep`: a task is queued as the only worker times out (collector.go:206), and waits until another task comes.
- `run` of the collector blocks on a full queue of jobs (collector.go:122), with requests behind it; Changelog:43 says that
  scheduled queries "don't block normal requests".
- `CanLock` with `RequestTimeout` of MaxLockTime, 20 minutes, or more: two equal requests run. README.md:205 of the exporter
  says that a request waits for an equal one for 5 minutes, and takes over after 15; the code refuses at once, for 20.
- `SendPanics` and `CollPanics` of Reload: shutdown closes a channel a reload sends on, or `Collectors.Run` gets a nil
  configuration from it. `StopWeb`: another part returns before `WebHandler.Run` has set the server, which is nil then. `HupKills`:
  SIGHUP ends the process before `signal.Notify`, though READY was sent, and panics after `hupCh` was closed. `RestedStopIsClean`
  says when none of these happens and only the panic of a task, in `addTask` or in a worker, is left.
- `NoPlace` of Drivers: a parameter like `sslmode` makes mysql and oracle panic (impl.go:45), and any but `database` makes sqlite
  panic (impl_sqlite.go:41), at start and in a reload, for the validation lets it pass. `WellWritten` of Config has the other
  things the validation does not see: null values, and a `connstr` that is a number or has only spaces.
- `NamesOf` of Drivers: the mysql driver registers "mssql", "mariadb" and "tidb" (impl_mysql.go:19). README.md:37 of the exporter says
  "mysql, mariadb, tidb"; a database with driver mysql is logged as not supported. In a build with both, mysql also replaces
  mssql under its own name, because Go runs the init functions in the order of the file names (`InitOrder`).
- `Put` of Cache: a result is kept for its caching time from the moment it is stored, so a cached answer may be older by the
  timeout of a request, and an older result may replace a newer one.
- `ReadStats` of Database: metrics use a pool that a failed ping has just set to nil.
- `AllWorkers` of Config: `max_idle_connections: 0` means one worker whatever `max_connections` is, which databases.go:87 does
  not say.

## 5. Proofs

The proofs hold for all values of the constants under the named assumptions of each module (disjoint sets, natural
numbers, `None` outside of them).

*Collector.* `Inductive` has the properties and what they need of each other. `OnePlace` alone is not inductive: that a
worker puts an answer into a free slot (`Unanswered`) and takes a task from the right queue (`QueuesAreRouted`) needs the
places of tasks, and these need that `run` and busy workers hold a task at all (`HoldsTask`). `StopOrder` carries what has
happened when `run` has waited for a pool: no worker of it is left, and none starts, because only `run` spawns. There is a
lemma for each group of actions that disturbs the same conjuncts. `CollectorStuckForGood` says that `DispatcherStuck`
lasts: only `run` starts workers, and it is blocked. The refinement maps the place of a task to its state in TaskService;
a step passes a task on (a stutter), answers it, loses it or changes the contexts, one lemma each.

*Locker.* `TableMatchesRequests` needs `NotOverdue`, and `RequestTimeout < MaxLockTime` as a hypothesis of the theorems:
a request that runs is younger than its entry's end, so `CanLock` is false for its key. Without
the hypothesis an entry that is too old is taken over while its request runs.

*Cache.* Its steps are steps of Locker (`CacheUsesLocker`), so the invariant of the table holds. `EntryWasYoung` bounds the age of
the data when they are put, by the deadline of a request or the timeout of a job's query (`QueriesAreYoung`). `EntryIsBehind`
says that a client that may replace an entry of its own origin has begun after the query of that entry; for requests this
needs the table, because two with one raw query string would overlap without it.

*Database.* `PoolStays` needs `PingAlone`: whoever pings has opened the pool itself, under the mutex, when `g.conn` was nil,
and then no query was beyond `openConnection`. So a ping that fails takes the pool from nobody but the metrics.
`ConnectionsReturn` needs `Places`, the steps at which a query has a connection and a transaction.

*QueryHandler.* All that is said of the items of a request rests on `ItemsApart`: an item is still to do, with the collectors,
in Output or in the response, and in one of these only. `CountMatches` says that the counter `scheduled`, which the code
raises after `AddTask` returns, is the number of items awaited, as long as the request is in time; `NoneForgotten` that every item
is somewhere, so that a counter of zero means a complete response. `CountFits` bounds the counter, for the types. Locks need that
the key of a request in progress is in the table (`LockHeld`), a panic included; entries of an old configuration, that
who still works with it was there when the cache was cleared (`OutdatedSpans`). `QueryUsesService` maps each
step to one of TaskService or a stutter: what is withdrawn stays so, because a closed Output is never opened.

*Scheduler and Reload.* `RunShape` and `SerialShape` say where the scheduler may be in each mode; with them a new configuration
comes only when no job is executed, which is `JobsAreCurrent`. `Delivery` says for each of the three receivers that it has the
configuration of confHandler, or the one before while confHandler has still to send to it; so `CacheLag` counts at most what is
between the last receiver and the first. `CrashCause` has the ends a panic leaves behind. `RestedStopIsClean` is temporal, and
proved with `Rested`, which holds from a state at rest on while no SIGHUP comes: context before channels, both receivers
waiting (or `Collectors.Run` on its way out, stuck or not), and no crash but one of a task (`jobPanicked`, `workerPanicked`). `SchedulerUsesService` needs that tasks get their numbers in order (`TaskNumbers`), so that every execution submits a new one.

*Middleware.* A writer is put back before it is closed, so that two requests may hold it. For `ForeignTextIsOld` the proof rests on
`OwnsWriter`, a writer stays out of the pool until the handler of its request has returned; on `TargetHasWriter`, a writer writes to
one response only, that of a request which took it; and on `BufferText`, what a writer
keeps is of the request it was last reset for, or of one whose handler has returned.
For `OneAtATimeIsComplete`, `Places` lets only one request in, and `WholeText` follows its text from the handler through the
buffer to the response.

*Config, Drivers and Request.* `PartsAreValid` carries what the validation saw to the end of loading; `FitsPool` is what `setup` leaves of
any numbers. Of the groups, `GroupsNamed` says that nothing wrong is in them and `GroupsKept` that nothing is lost: a query that was
looked at is in its groups or among the pairs left. `AcceptedIsConnected` compares, driver by driver, what the validation accepts with what the
driver uses, for every connection and for the drivers of every build (`RegistryHasDrivers`). `EachPairOnce` follows from the order
in which `iter` goes (`YieldedInOrder`) and from division with remainder: the position of a pair determines it.

## 6. What is only checked, and what is not modelled

Liveness under fairness is out of reach of the prover and stays with TLC: `TasksAreServed`, `StopEnds`, `RequestsEnd`, `QueryEnds`,
`ParallelReloadEnds` and `ShutdownEnds`. All invariants, the refinements and the other temporal properties that the runs check
are theorems. No module that is proved about has a RECURSIVE operator; the values of MCRequest use a fold, which only TLC evaluates.

Not modelled: the text of connection strings (quoting, escaping), templates and their functions (unit tests of their own),
rows and result formatting (only their outcome; that `rows.Err` is not looked at makes a result short without an error), the info page, TLS and authentication (a library), landing page and health,
metrics, traces and logs (nothing reads them), command line arguments (constants), the systemd watchdog (a timer
without state; it ends with the context). `genericDatabase.Close` is called by nobody. Data races beyond those that the modules name as choices are
not modelled: `q.cfg` read twice in a request, `cs.collectors` set without the mutex. `PROJECT.json` lists these
as hazards without a property.

## 7. Plan

Done, in this order: TaskService and Collector with proofs; Locker with proofs; QueryHandler on TaskService; Scheduler;
Reload; Database with proofs; Config, Request and Middleware; start and shutdown of the process in Reload; Drivers, and the
collectors of Config; Cache with proofs; proofs of QueryHandler, Reload, Middleware, Config and Request; Scheduler on TaskService.

Next:

1. Safety facts behind the liveness properties: which states a collector, a request and a reload can wait in, and for whom.
2. `PoolAsleep`, the exception of `TasksAreServed` that can end, as a theorem about where a task can be (that a stuck `run` stays
   so is proved); liveness of a collector with two workers in a pool.

Left out of the plan: requests whose tasks share `Output` composed with Collector itself (TaskService stands between them, and each
side is checked against it); the configuration a request reads twice, which changes its time limit only.
