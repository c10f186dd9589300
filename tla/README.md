# TLA+ models of postgres_exporter

postgres_exporter answers each HTTP request of Prometheus by connecting to one
or more PostgreSQL servers and querying their statistics views. Each request
runs in goroutines of its own; connection pools, metric maps, caches and gauges
are shared by the requests and outlive them. The modules here model that shared
state and the code that touches it. Paths below are relative to the
repository; `postgres_exporter.go`, `datasource.go`, `server.go`,
`namespace.go`, `queries.go`, `main.go`, `pg_setting.go` and `util.go` are in
`cmd/postgres_exporter/`, `collector.go`, `instance.go` and `pg_*.go`
(otherwise) in `collector/`.

## Inventory

| component | state it keeps | operations | interacts with |
|---|---|---|---|
| `Servers` (`server.go`) | map DSN -> `*Server` under mutex `m`; one `*sql.DB` per `Server` | `GetServer` (lookup, `NewServer`, `Ping`, retry), `Close`, `Server.Close` | called by every scrape, closed by the shutdown hook |
| metric map (`postgres_exporter.go` 611-688, `queries.go`) | `metricMap`, `queryOverrides`, `lastMapVersion` under `mappingMtx`; gauge `user_queries_load_error`, shared by all servers | `checkMapVersions`, `addQueries`, `Server.Scrape` | written by a scrape, read by overlapping ones |
| namespace queries (`namespace.go`) | `metricCache` under `cacheMtx` | `queryNamespaceMappings` | one deadline per scrape; the flag `Server.master` |
| `Exporter` (`postgres_exporter.go` 594-731, `datasource.go` 27-116) | `Server.master`, gauges `up`, `last_scrape_error` | `scrape`, `discoverDatabaseDSNs`, `scrapeDSN` | `GetServer`, `checkMapVersions`, `Server.Scrape` |
| `PostgresCollector` (`collector.go`, `instance.go`) | the instance's `*sql.DB` | `Collect` (one goroutine per collector), `Close` | 20 collectors compete for its connections |
| collectors (`pg_*.go`) | none | `Update` | `database/sql` |
| process (`main.go`) | registered collectors, HTTP server | start-up, shutdown hook, signals | `Servers.Close`, `PostgresCollector.Close` |
| settings (`pg_setting.go`) | none | unit conversion | `Server.Scrape` |
| data sources (`datasource.go` 122-231) | environment, Vault | `getDataSources`, `loadSecrets` | `main` |
| configuration and DSN parser (`config/`) | `auth_modules` | `ReloadConfig`, `ConfigureTarget`, `dsnFromString` | read at start-up; nothing uses the modules |

What is hard: requests overlap and share servers, maps, caches, gauges and
connections; databases go down, come back, hang and are upgraded between any two
steps; queries fail or end early; a scrape holds a `Server` that another one
closes; state is checked without the mutex it is later changed under; the
shutdown hook runs beside the requests. `PROJECT.json` lists each hazard at its
line with the properties that would catch it.

What makes each component correct:

* **Servers**: no open pool without its entry in the registry, hence one pool
  per DSN; no closed server in the registry before shutdown; `Close` closes all;
  `GetServer` returns although the mutex is held over pings and sleeps; a
  recovered database is served again.
* **Metric map**: never changed while a scrape iterates over it; never nil for a
  scrape that knows the version; of a version told to that scrape or to one
  overlapping it; in the end of the current version; the gauge
  of the user queries, which every server resets and sets, is set again after each
  rebuild.
* **Namespace queries**: nothing older than `cache_seconds` is exposed; a query that
  fails, or an answer that is cut short without an error, costs the metrics of its
  own namespace only and for no longer than `cache_seconds`; maps and queries fit the version
  they were made for; a query's answer is read with its own columns; no answer
  whose rows and columns can be told apart yields one series twice, which would cost
  the whole response.
* **Settings**: a quantity is one number however PostgreSQL states it.
* **Exporter**: the built-in metrics come from the configured DSNs only and come
  back after every outage; `up` and `last_scrape_error` are set from the complete
  results of one scrape, however many overlap, and follow the databases.
* **PostgresCollector**: `Collect` returns, and `collector_success` 1 means that
  no row was lost.
* **Process**: it starts with any complete configuration; it ends when it is told to, whatever the databases do, and
  without a panic; a request ends unless a database goes on hanging.

## Modules

| module | models | kind |
|---|---|---|
| `ServerPool` | what the registry promises: open into the registry, lend the registered server only, drop it when it is closed | abstract specification |
| `Servers` | `server.go`: mutex, retry loop, `Ping`, `Close` | detailed; implements `ServerPool` |
| `MetricMap` | `checkMapVersions`, `addQueries` and the read side in `Server.Scrape` | detailed |
| `NamespaceCache` | `queryNamespaceMappings` | detailed |
| `ScrapeGauges` | what `up` and `last_scrape_error` promise: each scrape settles every DSN of its list and then sets the two from its own results | abstract specification |
| `Exporter` | `scrape`, discovery, `scrapeDSN`, gauges; EXTENDS `ServerPool` | composition; implements `ScrapeGauges` |
| `CollectorUpdates` | what each collector's `Update` asks and how it treats rows, NULLs and errors | operators |
| `Collectors` | `Collect`, `execute`, the connection limit; EXTENDS `CollectorUpdates` | detailed |
| `DataSources` | `getDataSources`, `loadSecrets` | operators |
| `Lifecycle` | `main.go`: data sources, start-up, requests, signal, shutdown with hook and deadline; EXTENDS `Servers`, `DataSources` | composition |
| `QueryPlan` | the built-in maps and overrides, `makeDescMap`, `makeQueryOverrideMap`, `parseUserQueries`, `addQueries` | operators |
| `PostgresAnswers` | what PostgreSQL answers, by version | external |
| `NamespaceRows` | `queryNamespaceMappingWithContext`: an answer and a mapping to metrics | operators |
| `Settings` | `pg_setting.go` | operators |
| `ServerQueries` | one server through upgrades and edits of its user queries; EXTENDS the four above | composition |
| `ServersProofs`, `MetricMapProofs`, `NamespaceCacheProofs`, `ExporterProofs`, `CollectorsProofs`, `LifecycleProofs`, `ServerQueriesProofs`, `SettingsProofs` | theorems | proofs |
| `MCNamespaceCache`, `MCExporter`, `MCCollectors`, `MCLifecycle`, `MCServerQueries` | instances for TLC | MC |

The modules named after code also hold *mutants*: definitions introduced by
"Mutant of X", each X with a plausible bug. They are no part of a
specification; each shows that a property notices that bug.

### How state and actions correspond to the code

`Servers`: `m`, `servers`, `server`, `dsn` and `errCount` are the variables of
that name; `open` holds the servers whose `*sql.DB` is open, `target` the DSN
`NewServer` was given. A scrape goes through `Call`, `Lock`, then `Lookup`,
`NewServer` or `NewServerFails`, then `PingSucceeds` or `PingFails`, then `Retry`
or `GiveUp`, and `Release` when it is done with the server. Inside the mutex a
step ends where the code waits (a ping, a sleep) or where another goroutine
could see a difference (the server a scrape is using is closed). The hook goes
through `HookStarts`, `HookLocks`, `HookCloses`, `HookReturns`. A server identity
may be used again once nothing refers to it, as memory is.

`MetricMap`: one server. A scrape is told a version (`QueryVersion`) or not
(`QueryVersionFails`), compares it without the mutex (`Check`), announces itself
as writer and waits for the readers (`Announce`, `Drain`: `sync.RWMutex.Lock`),
rebuilds (`BuildMap`, `SetVersion`, `AddQueries`), `Unlock`s, and reads the map
(`RLock` to `RUnlock`). `Check` reads `lastMapVersion` while another scrape may be
writing it: that is a data race on a value of several words, so the comparison
may then come out either way (`Differs`). `metricMap` stands for the pointer and
the map behind it; a map is the version it was built for and whether the user
queries were merged. The history variable `overlap` collects what overlapping
scrapes were told. The gauge is the Exporter's: other servers (`Other`), each under a
`mappingMtx` of its own, reset and set it in any step between (`OtherResets`,
`OtherSets`; `resetting` has those in between). It is kept as the set of files that it
has a series for, "good" or "bad", a bad one being one that cannot be read or parsed,
and `lastLoad` remembers the one that was loaded last.

`NamespaceCache`: one server. The loop over the namespaces in any order; `Fresh`
and `Store` are the two critical sections of `cacheMtx`, the query between them
is outside (`QueryDisabled`, `QuerySucceeds`, `QueryTruncated`, `QueryFails`). What
a namespace yielded is "all", "some" or "none" of the rows, and when they were read.
`queryNamespaceMappingWithContext` never looks at `rows.Err`: an answer may end early, also
before its first row, without an error (`QueryTruncated`). The history variable `lastShort`
has for each namespace when it was last answered with less than all rows, for whichever
reason and by whichever scrape.
`UserQuery.RunOnServer` is parsed but never copied to `Server.runonserver`, so the
version filter of `namespace.go` 201-208 is dead code and left out.

`Exporter`: `GetServer` is the pool's `Open`, `Lend` and `Drop`, which `Servers`
implements. `Begin`, the loop of discovery (`Discover`, `DiscoverConnects`,
`DiscoverFails`, `ListDatabases`, `Discovered`), the loop over the DSNs
(`ScrapeDSN`, `Connects`, `Refused`, `CheckMapVersions`, `Read`) and the two
switches at its end, `ReportUp` and `ReportErrors`, two steps because no lock keeps
another scrape from setting the gauges in between. `exposed` collects the DSNs
whose built-in metrics a scrape sent. The counts of errors are kept as the sets of
DSNs counted.

`ScrapeGauges`: `stage` and `result` say where a scrape is and what became of each DSN
of its list; in `Exporter` they are computed from `pc`, `todo`, `cur`, `dsns`, `failed`
and `refused` (`Stage`, `Result`). Discovery is part of what the abstraction hides: it
ends in a list (`Start`), which may be empty.

`Collectors`: a task is the goroutine of one collector in one request. It asks
for a connection (`Acquire`, `AcquireFails`), the query fails or its rows are
read, cut short or do not scan (`QueryFails`, `RowsRead`, `RowsCut`, `ScanFails`),
and it reports (`Succeeds`, `Fails`); `Return` is the end of `wg.Wait`.
`CollectorUpdates` gives for each of the 20 collectors the sequence of its
queries.

`Lifecycle`: `main` is where `main.go` is, `pgColl` and `dsns` its variables of
that name; `env` holds the environment until `ReadSources` reads it, with an
error or a panic as possible ends of the process.
`CreateCollector` and `CreateCollectorFails` are the call of
`NewPostgresCollector`, which waits while the database hangs; `ListenFails` the
goroutine of `ListenAndServe`; `Signal`, `Drained` and `DeadlinePasses` the signal
and the two ends of `srv.Shutdown`. The hook takes the steps of
`Servers` and then closes the collector (`HookClosesCollector`) or panics
(`HookPanics`). A request (`Begin` to `Respond`) calls `GetServer` for one DSN after
the other with the steps of `Servers`; what it asks a server is in the other
modules. The end of the process ends every goroutine (`Running`). The collectors
of a request are left out here: they have the database pool of `Collectors`, and
a deadline.

`DataSources`: an environment says of each variable whether it names a file and
what that or the value itself holds, and what each path of Vault answers;
`GetDataSources` follows the code's order, in which a failure matters.

`ServerQueries`: `metricMap`, `queryOverrides` and `lastMapVersion` are the fields of
`Server`, with their contents. `CheckMapVersions` is the block of that name, with
`addQueries`; where Go's iteration order decides which of two entries stays, the action
chooses: of a column (a histogram's part that is also declared) or of a namespace (two of
a file that the prefix makes one, `Remaining`). An entry says which definition it is made
of (`of`). A query is
abstracted to who wrote it and for which versions, an answer to its columns, which
of them hold numbers, text or arrays, which names it has twice (`twice`: the code loops over
a list of columns), and which tell rows apart; rows are
functions from columns to values, one row and one more for each of those columns.
`recovery` is a PostgreSQL that is a standby with replication slots, `loaded` the file that
the maps were made with.
`SkipNamespace`, `QueryFails` and `QueryAnswered` are the ways out of
`queryNamespaceMappingWithContext`, `ReadSettings` is `querySettings`; a panic, which
only a setting can cause here, stops the process until `Restart`. One scrape at a time: the interleavings are in
`MetricMap` and `NamespaceCache`, which treat the contents as opaque.
In `Settings` bytes are a number times a power of two and seconds a number of
milliseconds, so that no fraction is needed; a setting that is not an integer,
as some of `vartype` real, is not modelled.

## Runs

| run | instance | shows |
|---|---|---|
| `servers` | 2 scrapes, 2 DSNs that are malformed or go up, down and hang, 3 server identities, the hook, 2 attempts; 309,764 states | `NoLeak`, `NoStaleServer`, `CloseDisconnectsAll`, refinement of `ServerPool`; `GetServerReturns`, `CloseReturns`, `Recovers` |
| `metric_map` | 2 scrapes, 2 versions, a user queries file that is edited; one more server that reloads it; 68,184 states | the seven properties of the map and its gauge |
| `namespace_cache` | 2 scrapes, a namespace cached for a second (for masters only) and an uncached one, three points in time; 1,985,208 states | `ExposedFresh`, `RowsComeBack` |
| `exporter_discover` | scrapes one after the other, a configured DSN that lists another, up to four outages; 353,168 states | `DefaultOnlyFromConfigured`, refinement of `ScrapeGauges`, `DefaultMetricsReturn`, `GaugesRecover`, `OutageReported` |
| `exporter_static` | 2 overlapping scrapes, two configured DSNs, one malformed, an outage, no discovery; 217,832 states | refinement of `ScrapeGauges`, `DefaultMetricsReturn`, `GaugesRecover`, `OutageReported` |
| `exporter_lost_master` | 2 overlapping scrapes, one configured DSN, discovery, one outage | finding 1 |
| `exporter_silent` | one scrape, one DSN, one outage | finding 2 |
| `collectors` | 2 overlapping requests of a collector with two queries and one with one, one connection; 32,670 states | `CollectReturns`, `StrictSuccessIsComplete` |
| `collectors_truncated` | one request of `stat_database` | finding 3 |
| `lifecycle` | the process with 2 requests of a DSN that goes up, down and hangs and a malformed one, a signal at any time, environments with and without `DATA_SOURCE_NAME`, files, blanks and Vault; 51,381 states | `ConfiguredStarts`, `ShutdownEnds`, `RequestEnds` |
| `lifecycle_panic` | the process with a database that may be down when it starts | finding 4 |
| `server_queries` | PostgreSQL 9.1, 9.2, 9.4, 10 and 16, primary or standby, five user queries files and a broken one, the prefix "pg" and another, with and without the default metrics; 92,400 states | `BuiltinsFit`, `UniqueSeries`, `OwnMapping`, `SettingsExact` |

**Bounds.** Two scrapes are enough for every pairwise interleaving, which is what
the mutexes are about; the inductive invariant of `MetricMap` was also checked
with three. One other server is enough for a rebuild of its own between any two
steps on the gauge. Three server identities are as many as can be referred to when one is
opened: the one the other scrape uses, the entry of the other DSN, and the new
one. `Retries` is 1 in the code, which makes `GetServer` give up after its first
attempt; `lifecycle` has that, `servers` has 2, so that the loop comes round, and
the proofs hold for any. The versions of `server_queries` are those at which a
query, a column or a view of the built-in maps appeared or went away; its files
have each usage, a misspelt one, a redefined built-in namespace, a missing label
column, a histogram that lacks each of its parts or is no array, a query that is
missing or rejected, two columns without a name, and two namespaces of which the prefix
"db" makes one. Its settings have every unit with -1, 0,
1 and 10. `MaxOutages` bounds how often a database goes down in a
run of `Exporter`: one outage covers a server that is closed and reopened in any
step of a scrape; with four, of scrapes one after the other, it happens to
both databases more than once and in every order. `MaxTime` stops the clock of `NamespaceCache` after two
ticks, one more than the cache lasts. One connection (`MaxOpen`) is the hardest
case of waiting for one.

**Fairness.** Goroutines that can run run (weak fairness of a scrape's own
steps). `sync.Mutex`, `sync.RWMutex` and the connection queue of `database/sql`
serve their waiters in order, so that none starves: strong fairness of taking
them. Databases are under no fairness: they may stay down for ever. `ScrapedSpec` and
the fairness of `Exporter` assume in addition that Prometheus goes on scraping, which
properties of the form "metrics come back" need; `ScrapedSpec` also that
PostgreSQL answers the version query now and then. No deadline is bound to
pass: `CollectReturns` holds without the help of one. In `Exporter` a scrape that
is under way goes on: that `GetServer` returns is `GetServerReturns` of `Servers`. In `Lifecycle` the
thirty seconds of the shutdown pass; no signal is bound to come, no request to
be made, and a database that hangs may hang for ever, with `Ping` waiting
for it: `RequestEnds`, `GetServerReturns` and `CloseReturns` are about databases
that do not, from some time on (`Answering`). `ServerQueries` has no liveness.

## Findings

1. `exporter_lost_master`: with `--auto-discover-databases`, two overlapping
   scrapes and one outage, a configured server may lose its built-in metrics
   until PostgreSQL's version changes or its connection fails again. While the
   database is down one scrape is between discovery and `scrapeDSN`; the
   database comes back, that scrape opens a new `Server`, whose `master` is false,
   and builds the empty map for it; the discovery of the other scrape makes it a
   master, but the map is built only when the version differs
   (`postgres_exporter.go` 639). Two configured DSNs of one instance lead there
   with a single scrape: each may list the other while that is not a master yet.
2. `exporter_silent`: when the version query fails on a fresh server, the scrape
   goes on with a nil map, exposes no namespace and reports
   `last_scrape_error` 0.
3. `collectors_truncated`: `stat_database` drops the error of its rows
   (`pg_stat_database.go` 493) and reports success. `stat_wal_receiver` does the
   same for its first query and `process_idle` reads one row of many; all other
   collectors are complete when they report success
   (`StrictSuccessIsComplete`).

4. `lifecycle_panic`: `main` goes on when `NewPostgresCollector` fails
   (`main.go` 183), with `pgColl` nil. The hook calls `pgColl.Close` (214), whose
   receiver is a value: the shutdown of an exporter whose database was down at
   its start ends in a panic.

Observations without a run of their own, each a state some run reaches:

* The two gauges are set one after the other without a lock: overlapping scrapes may
  leave `up` 0 with `last_scrape_error` 0, from two scrapes, until the next one ends.
  Each gauge by itself is always one scrape's (`ImplementsGauges`).
* `pg_stat_replication` has no column `slot_name`. Its label of that name holds the
  process ID, the first column of the answer, and only thereby are the series of two
  like standbys distinct (`UniqueSeries`, whose mutant takes the value away).
* Between 9.4 and 10 the lag of a replication slot is exposed as
  `pg_replication_slots_pg_xlog_location_diff`, untyped, as its column is in no map
  (`Lacking`); before 9.2 `pg_stat_replication` yields no metric at all.
* With a prefix other than "pg" every built-in namespace asks for a table that does
  not exist, and so does a user namespace whose name has "pg" in it.
* The conversions of `MAPPEDMETRIC` and `DURATION` are never called.
* A setting with a suffix of time loses its last digit, or panics if that was the
  only one.
* Two columns of one name in a user query yield one series twice, for which the registry
  rejects the whole response; two without a name have one (`?column?`), as Prometheus' client
  accepts any UTF-8 name.
* With the prefix "db" the namespaces pg_x and db_x of a file get one entry, with the columns
  of either, and the query of db_x: which columns changes from one rebuild to the next
  (`Doubled`).
* On a standby that has replication slots the query of `pg_replication_slots` fails at every
  scrape (`Refused`): unlike that of `pg_stat_replication` it does not test for recovery.
* `user_queries_load_error` may contradict the map of a server, which was made from an
  earlier state of the file, and hold two series, of two states of the file, when
  rebuilds of two servers overlap.
* A namespace whose rows end early, or at once, is neither reported nor counted, and cached
  like any other (`QueryTruncated`).
* Without `DATA_SOURCE_NAME`, user or password the process needs Vault, or panics,
  also where it has no URI and would need none of them.

## Proofs

The theorems hold for every set of scrapes, DSNs, servers, versions, namespaces,
requests, collectors and files, and rest on the named assumptions on the constants only
(`ServersAssumption`, `MetricMapAssumption`, `CacheAssumption`, `PoolAssumption`,
`ExporterAssumption`, `CollectorsAssumption`, `LifecycleAssumption`,
`ServerQueriesAssumption`), which TLC evaluates
in the runs. One theorem has a hypothesis of its own, which its instance meets:
`StrictSuccessHolds` (`StrictUpdates`), below.
None of the safety properties is inductive; each module has its
inductive invariant: `IInv` at its end, which was checked with TLC first, `MainInv` in `LifecycleProofs`, `TypeOK /\ OwnMapping` and `TypeOK /\ Entries /\ Shown` in
`ServerQueriesProofs`, `ExposedReport` in `SettingsProofs`.

* `ServersProofs`. `TypeCorrect` first, by itself. `IInv` adds `MutexHeld` (the
  labels inside `GetServer` and `Close` are those of the owner of `m`), which
  makes every other goroutine one that depends on no entry of the registry;
  `PingsRegistered` (what is pinged is what is registered, so closing it and
  deleting the entry are about the same server); `RegisteredAtTarget` (a server
  is registered once, so closing it touches no other DSN); `CloseReachesOpen`
  and `UseHoldsServer`. From it follow `NoLeak`, `NoStaleServer`,
  `OnePoolPerDSN` (two open servers have different DSNs), `CloseDisconnectsAll`
  and the refinement `ImplementsServerPool`, step by step under `IInv`.
  `GetServerReturns` is liveness and stays with TLC; its safety half is proved:
  `MutexReleased` (whoever owns the mutex is between its Lock and its Unlock, so no
  return forgets the Unlock) and `GetServerBounded` (`StepsLeft`, three steps for each
  attempt left and the rest of this one, goes down with every step of the owner and
  changes with no other one). What is left to fairness is that the owner's next step
  comes: it does unless the database hangs, as `Ping` has no deadline.
* `MetricMapProofs`. `WriterExcludes` is the mutex; `OverlapComplete` says that
  the history is complete; `VersionsAgree` that map and `lastMapVersion` differ
  only while their writer is between the two; from these `MapUsable` is kept by
  every writer, which was told its version while the scrapes it disturbs were
  under way. `Differs`, the racy read, needs no exclusion of readers: a wrong "equal"
  happens only while a writer is rebuilding, and then the map is that writer's.
  `StaleDieOut` is the safety half of `MapConverges`: as long as the version stays, no scrape
  joins those that were told another one (`Stale`), and only these, once each, may set
  `lastMapVersion` to something else. `LoadReported` needs no more than that every step that
  empties the gauge puts its server among those that are about to set it (`StepGauge`).
* `NamespaceCacheProofs`. A scrape may store an entry that is older than the one
  it overwrites, as the query runs outside of `cacheMtx`. `CacheSound` says why
  that is harmless: an entry's rows were read after the start of the scrape that
  stored it, and its age is counted from that start; it needs `AtNamespace` (what a
  scrape stores, it read after it started) and `Started`. `ExposedFresh` then holds for any
  `cache_seconds` and any clock. `RowsComeBack` follows from it: what lacks rows was read no later
  than `lastShort` says, wherever it went from there (`ShortKnown`), and what is exposed is not
  older than `cache_seconds`. `DoneSent` says that the loop leaves no namespace out, so that there is
  something exposed at its end.
* `ExporterProofs`. `MasterConfigured` needs `ConfiguredWork` (discovery walks
  through configured DSNs only) and `RegisteredAtTarget`; a server that is made
  a master is the registered one of the DSN at hand. `ExporterImplementsGauges`
  is the refinement of `ScrapeGauges`, one step per action: a step before the list
  is known, and most inside the loop, are stutters of it (`GaugeStutter`), and a step of
  one scrape leaves the other scrapes' rows alone (`GaugeFrame`). It rests on
  `Accounted`: the DSNs not yet reached, the one at hand and those done with are the
  list, and those counted as refused are among the failed, so that the comparison of
  the two cardinalities is a comparison of sets. `ExporterUsesPool` says that `Spec` of
  `Exporter` implements `PoolSpec`, which `Servers` implements: the scrapes rely on what the
  registry promises, and no step of theirs goes past it. `ExposedConfigured` is
  `DefaultOnlyFromConfigured` for what a scrape sends, not for the servers that are open:
  a server may be closed under the scrape that works with it. `LentServer` is why this is
  harmless: it stays the one opened with the DSN at hand, as the memory of a lent
  server is no other one's.
* `CollectorsProofs`. `StrictSuccessIsComplete` names three exceptions;
  `CompleteIfStrict` states it of whatever looks at all rows and all errors (`Strict`),
  and `CollectorsAreStrict` shows this of the collectors of the code, so that
  `StrictSuccessHolds` only assumes that those of the instance are among them. The
  invariant says when a loss still has an error to come (`LossPending`), that a task
  works for a waiting request only (`WorkedFor`), and that a verdict goes with the
  request it belongs to (`ReportedDone`). `NeverAllWaiting` is the safety half of
  `CollectReturns`: a goroutine that waits for a connection holds none, so when none of
  them reads an answer all connections are free, and requests cannot wait for each other
  however small the limit is.
* `LifecycleProofs`. Every step of the process is a step of `Servers` or leaves its
  variables alone, the hook and the requests being the callers of it, so that
  `ProcessSpec` implements `Spec` of `Servers` and the theorems of `ServersProofs` carry over
  (`ProcessPoolSafety`). `ConfiguredStartsHolds` is about every environment: with user,
  password and URI given, no step of `GetDataSources` asks Vault.

* `ServerQueriesProofs`. `OwnMapping` relates two maps that are merged separately and by
  different rules: a namespace of the file is renamed in the map (`Rename`) and keeps its
  name in the queries (`MergedOverrides`). `MergedShape` is the argument that they
  still fit where they meet: the exporter's queries begin with "pg" and its maps
  with the prefix, so that a namespace of the file that meets one of them is not
  renamed and replaces both; within a file they fit unless one of its namespaces has the
  name that the prefix gives another one (`Doubled`), which the property excepts. The
  assumption is that a user namespace's query is the user's or none. `DescMapShape` and `OverridesShape` say what `makeDescMap` and
  `makeQueryOverrideMap` return, for any version.

  `BuiltinsFit` and `UniqueSeries` need to know what the entries are, not only that they fit
  each other. `Entries` says where each entry of the map comes from: it is a built-in
  one of the version the map was made for, with that version's query, or one of a file
  (`BuiltinOf`, `UserOf`), and stays so under every merge (`MergedEntries`); `Shown` says that
  what is exposed was computed from the entries that are there. The rest is about data.
  One lemma per namespace has its columns as a table (`ReplicationTable` and its like), one
  the query that is chosen at a version (`QueryAt`: the version ranges of
  `queryOverrides` do not overlap), and one that the answer has the columns
  (`ReplicationFits` and its like); `BuiltinFits` puts them together for any version from 9.1 on,
  the lowest that the exporter supports, below the `Newest` one the model has, on a primary
  or a standby. This holds although the view of a namespace
  may be missing at that version: then it is disabled. The one query that PostgreSQL rejects
  is that of `pg_replication_slots` on a standby (`Refused`).

  `UniqueSeries` holds of the built-in namespaces without a hypothesis, whichever of their
  queries is answered (`BuiltinTells`). Of a file it holds of the answers that can be told
  apart (`ToldApart`), which the property itself has as its condition: it is what a user has to
  observe and the code does not check, that the columns that tell rows apart are labels and that
  no two columns become metrics of one name.

* `SettingsProofs`. `SettingsExact` compares how PostgreSQL may report one quantity in two
  units. `Sanitized` is what `sanitizeValue` makes of each kind of setting, `MetricOfPlain` what
  becomes of a number with a unit, and `BytesFactors` and `TimeFactors` that the code's factors are
  those of PostgreSQL. `sanitizeValue` cuts one character more than the suffix it finds, and
  finds B before kB, MB, GB and TB: the two make up for each other (`FirstSuffix`). The number
  is any integer; the factors are constants, so that only linear arithmetic is left.

**Only model-checked** are the liveness properties, as fairness and ENABLED are beyond the
prover: `GetServerReturns`, `CloseReturns`, `Recovers`, `ScrapeEnds`, `MapConverges`,
`DefaultMetricsReturn`, `GaugesRecover`, `OutageReported`, `CollectReturns`, `ShutdownEnds` and
`RequestEnds`. Every invariant and every action property of a run that passes is proved.

## What the models leave out

* Values, types and help texts of metrics, the labels of a server, the version
  metric, durations and counters of the exporter itself; in the collectors also
  columns and labels. Of SQL `PostgresAnswers` has what the built-in queries need:
  functions, views and columns by version.
* Reading the settings and the namespaces is one step in `Exporter` (`Read`);
  `NamespaceCache` has its parts. The version does not change in `Exporter`;
  `MetricMap` has that. Databases do not hang in `Exporter`; `Servers` has that.
* An HTTP response reads the gauges after its own scrape and may so report another's;
  `ScrapeGauges` is about the gauges.
* A signal before `main` listens for one ends the process by default; connections
  without a request, which `Shutdown` closes, are not modelled either.
* The configured DSNs are a set: a DSN configured twice is not modelled.
* A label of a user query that is named like the constant label of its server, `server`, makes
  `MustNewConstMetric` panic: the labels of a server are not modelled.
* `server.master` is written without a mutex; it only ever goes from false to true
  and is one word, so the race has no third outcome.
* `config/`: `ReloadConfig` runs once and its auth modules are read by
  `ConfigureTarget` only, which, with the DSN parser behind it, nothing in `cmd/`
  calls. README.md of the repository describes a `/probe` endpoint; no handler in
  `main.go` serves it, so there is nothing of it to model.
* Fingerprints and the values of conversions (`util.go`), flags, the landing page and
  the health check: parsing and I/O.
* `postgres_mixin` and the test scripts have no program logic.

## Plan

Done: `ServerPool`, `Servers`, `MetricMap`, `NamespaceCache`, `ScrapeGauges`, `Exporter`,
`Collectors`, `DataSources`, `Lifecycle`, `QueryPlan`, `PostgresAnswers`,
`NamespaceRows`, `Settings`, `ServerQueries`, and proofs about each of the state
machines.

What is left:

1. The labels of several servers in one response: two configured DSNs of one host.
2. The safety half of `RequestEnds` and `ShutdownEnds`, as `GetServerBounded` is that of
   `GetServerReturns`: what the process still has to do goes down with each of its steps.
