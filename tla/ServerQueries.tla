--------------------------- MODULE ServerQueries ---------------------------
(***************************************************************************)
(* What one Server asks and exposes while PostgreSQL is upgraded or        *)
(* replaced and the user queries file is edited: checkMapVersions and      *)
(* addQueries decide on the mappings and queries (QueryPlan.tla),          *)
(* queryNamespaceMappingWithContext turns the answers (PostgresAnswers)    *)
(* into metrics (NamespaceRows.tla), querySettings those of pg_settings    *)
(* (Settings.tla).  A panic takes the process down, a supervisor starts it *)
(* again.                                                                  *)
(*                                                                         *)
(* One scrape at a time and no cache: MetricMap.tla and NamespaceCache.tla *)
(* have the interleavings.  The server is a master (Exporter.tla has the   *)
(* flag).                                                                  *)
(***************************************************************************)
EXTENDS QueryPlan, PostgresAnswers, NamespaceRows, Settings

lowestSupportedVersion == 901

CONSTANTS
    Version,   \* PostgreSQL's versions
    Prefix,    \* the values of --metric-prefix
    Files,     \* the user queries files: functions from namespaces (QueryPlan.tla)
    Broken,    \* a file that cannot be parsed
    Reports    \* what PostgreSQL may report as its settings: sets of them

ASSUME ServerQueriesAssumption ==
    /\ Version \subseteq lowestSupportedVersion..(Newest - 1)
    /\ Reports \subseteq SUBSET Setting
    /\ Broken \notin Files
    /\ \A f \in Files :
         /\ DOMAIN f \subseteq STRING \X STRING
         /\ \A ns \in DOMAIN f : f[ns].query.by = "user" \/ f[ns].query = Disabled

VARIABLES
    version,         \* PostgreSQL's
    recovery,        \* it is a standby that has replication slots
    file,            \* the user queries file, or Broken
    prefix,          \* --metric-prefix
    defaults,        \* not --disable-default-metrics
    running,         \* the process runs
    metricMap,       \* Server.metricMap, empty when nil
    queryOverrides,  \* Server.queryOverrides
    lastMapVersion,  \* Server.lastMapVersion, 0 when zero
    loaded,          \* history: the file that the maps were made with
    exposed          \* what the last query exposed

environment == <<version, recovery, file, prefix, defaults>>
server == <<metricMap, queryOverrides, lastMapVersion, loaded>>
vars == <<environment, running, server, exposed>>

Nothing == [of |-> "nothing"]
NoMaps == <<>>

Init ==
    /\ version \in Version
    /\ recovery \in BOOLEAN
    /\ file \in Files
    /\ prefix \in Prefix
    /\ defaults \in BOOLEAN
    /\ running = TRUE
    /\ metricMap = NoMaps
    /\ queryOverrides = NoMaps
    /\ lastMapVersion = 0
    /\ loaded = NoMaps
    /\ exposed = Nothing

-----------------------------------------------------------------------------
\* The environment

\* PostgreSQL is upgraded, promoted or replaced.
Upgrade ==
    /\ version' \in Version
    /\ recovery' \in BOOLEAN
    /\ exposed' = Nothing
    /\ UNCHANGED <<file, prefix, defaults, running, server>>

EditFile ==
    /\ file' \in Files \cup {Broken}
    /\ exposed' = Nothing
    /\ UNCHANGED <<version, recovery, prefix, defaults, running, server>>

\* The process was taken down by a panic and starts again.
Restart ==
    /\ ~running
    /\ running' = TRUE
    /\ metricMap' = NoMaps
    /\ queryOverrides' = NoMaps
    /\ lastMapVersion' = 0
    /\ loaded' = NoMaps
    /\ exposed' = Nothing
    /\ UNCHANGED environment

-----------------------------------------------------------------------------
\* The server

\* The maps are made again when the version changed (the nil map goes with the
\* zero version); a file that cannot be parsed leaves them without user queries.
CheckMapVersions ==
    /\ running
    /\ version # lastMapVersion
    /\ lastMapVersion' = version
    /\ exposed' = Nothing
    /\ UNCHANGED <<environment, running>>
    /\ LET map == IF defaults THEN makeDescMap(version, prefix, builtinMetricMaps, {})
                              ELSE NoMaps
           queries == IF defaults THEN makeQueryOverrideMap(version) ELSE NoMaps
       IN \/ /\ file = Broken
             /\ metricMap' = map
             /\ queryOverrides' = queries
             /\ loaded' = NoMaps
          \/ /\ file # Broken
             /\ \E kept \in Remaining(file, prefix),
                   asParts \in SUBSET ContestedParts(parseUserQueries(file), version) :
                     metricMap' = MergedMap(map, version, prefix, file, kept, asParts)
             /\ queryOverrides' = MergedOverrides(queries, file)
             /\ loaded' = file

\* The rows of an answer: one, and others that differ from it in one of the
\* columns that tell rows apart.
Rows(a) ==
    {[c \in a.columns |-> IF c = k THEN 1 ELSE 0] : k \in a.key \cup {""}}

\* What namespace ns is answered: by its own query, or SELECT * FROM it.
AnswerTo(ns) ==
    IF ns \notin DOMAIN queryOverrides THEN ViewAnswer(ns, version)
    ELSE LET query == queryOverrides[ns] IN
         IF query.by = "user" THEN query.answer
                              ELSE BuiltinAnswer(ns, query, version, recovery)

Exposes(ns, answer, yield) ==
    exposed' = [of |-> "namespace", ns |-> ns, answer |-> answer, yield |-> yield]

\* The empty query: the namespace is disabled.
SkipNamespace(ns) ==
    /\ running
    /\ ns \in DOMAIN queryOverrides /\ queryOverrides[ns] = Disabled
    /\ Exposes(ns, Fails, [status |-> "disabled", errors |-> {}, metrics |-> {}])
    /\ UNCHANGED <<environment, running, server>>

QueryFails(ns) ==
    /\ running
    /\ ~(ns \in DOMAIN queryOverrides /\ queryOverrides[ns] = Disabled)
    /\ AnswerTo(ns) = Fails
    /\ Exposes(ns, Fails, [status |-> "failed", errors |-> {}, metrics |-> {}])
    /\ UNCHANGED <<environment, running, server>>

QueryAnswered(ns) ==
    /\ running
    /\ ~(ns \in DOMAIN queryOverrides /\ queryOverrides[ns] = Disabled)
    /\ AnswerTo(ns) # Fails
    /\ LET a == AnswerTo(ns) IN Exposes(ns, a, Yield(metricMap[ns], a, Rows(a)))
    /\ UNCHANGED <<environment, running, server>>

\* querySettings: the rows one after the other, a panic is the end of it.
ReadSettings(report) ==
    /\ running
    /\ exposed' = [of |-> "settings", metric |-> [s \in report |-> metric(s)]]
    /\ running' = (\A s \in report : metric(s) # Panic)
    /\ UNCHANGED <<environment, server>>

Next ==
    \/ Upgrade
    \/ EditFile
    \/ Restart
    \/ CheckMapVersions
    \/ \E ns \in DOMAIN metricMap : SkipNamespace(ns) \/ QueryFails(ns) \/ QueryAnswered(ns)
    \/ \E report \in Reports : ReadSettings(report)

Spec == Init /\ [][Next]_vars

-----------------------------------------------------------------------------
\* Properties

Statuses == {"ok", "disabled", "failed"}

TypeOK ==
    /\ version \in Version
    /\ file \in Files \cup {Broken}
    /\ prefix \in Prefix
    /\ {recovery, defaults, running} \subseteq BOOLEAN
    /\ loaded \in Files \cup {NoMaps}
    /\ lastMapVersion \in Version \cup {0}
    /\ \A ns \in DOMAIN metricMap :
         /\ metricMap[ns].labels \subseteq DOMAIN metricMap[ns].columns
         /\ \A c \in DOMAIN metricMap[ns].columns :
              metricMap[ns].columns[c] \in {"discard", "histogram", "value"}
    /\ \A ns \in DOMAIN queryOverrides : queryOverrides[ns].by \in {"exporter", "user", "nobody"}
    /\ exposed.of \in {"nothing", "namespace", "settings"}
    /\ exposed.of = "namespace" => exposed.yield.status \in Statuses

\* The maps are those of the version PostgreSQL has now.
UpToDate == lastMapVersion = version

Queried(by) ==
    exposed.of = "namespace" /\ metricMap[exposed.ns].by = by

\* The columns that the answer lacks although the built-in map of ns wants them
\* as a label or a value: pg_stat_replication never had a slot_name, and before
\* 10 the lag of a slot has the name of another function, which no map mentions.
Lacking(ns, v) ==
    CASE ns = <<"pg", "stat_replication">> -> {"slot_name"}
      [] ns = <<"pg", "replication_slots">> /\ v < 1000 -> {"pg_wal_lsn_diff"}
      [] OTHER -> {}

\* The queries that PostgreSQL rejects at a version they are for: pg_replication_slots
\* on a standby.
Refused(ns) == ns = <<"pg", "replication_slots">> /\ recovery

\* At every version, on a primary or a standby, the built-in maps and queries fit what
\* PostgreSQL has: a namespace is disabled only where its view is missing, its query
\* runs, every column it asks a number from holds one, and the columns that it wants
\* are there, but for two.  What columns there are, for which versions a column is
\* meant and for which a query is written in three tables apart from each other.
BuiltinsFit ==
    Queried("exporter") /\ UpToDate /\ prefix = "pg" =>
        LET ns == exposed.ns
            map == metricMap[ns]
            wanted == map.labels \cup {c \in DOMAIN map.columns : map.columns[c] = "value"}
            status == exposed.yield.status
        IN /\ status = (IF ns \notin Views(version) THEN "disabled"
                        ELSE IF Refused(ns) THEN "failed" ELSE "ok")
           /\ status = "ok" =>
                /\ exposed.yield.errors = {}
                /\ wanted \ exposed.answer.columns = Lacking(ns, version)

\* What a user has to see to and the code does not check: the columns that tell the
\* rows apart are labels, and of the columns that become metrics no two have one
\* name, as those without a name of their own (SELECT 1, 2), or get one.
ToldApart(map, a) ==
    LET values == Having(map, a, "metric")
    IN /\ a.key \subseteq map.labels \cap a.columns
       /\ a.twice \cap values = {}
       /\ \A c1, c2 \in values : MetricName(map, c1) = MetricName(map, c2) => c1 = c2

\* No answer yields two metrics of one name with the same labels, those to the
\* exporter's own namespaces in no case, those to a user's if they can be told apart:
\* Prometheus' registry rejects the response with all of its metrics if there are two.
\* Two rows of pg_stat_replication differ in pid only, which the label slot_name has:
\* the column does not exist, and columnIdx has 0 for it.
UniqueSeries ==
    exposed.of = "namespace"
      /\ (Queried("user") => ToldApart(metricMap[exposed.ns], exposed.answer)) =>
        \A m1, m2 \in exposed.yield.metrics :
            m1.name = m2.name /\ m1.labels = m2.labels => m1 = m2

\* The file that is loaded defines ns and another namespace that the prefix makes ns.
Doubled(ns) ==
    ns \in DOMAIN loaded /\ \E n \in DOMAIN loaded \ {ns} : Rename(n, prefix) = ns

\* The columns a namespace is read with and the query that reads them are those of one
\* definition, although they are merged one after the other and by different rules, a
\* file may redefine a built-in namespace, and a version brings new ones.  There is one
\* way to mix up two definitions of a file: to name one of them like the other is
\* renamed.
OwnMapping ==
    \A ns \in DOMAIN metricMap \cap DOMAIN queryOverrides :
        queryOverrides[ns] # Disabled =>
            /\ metricMap[ns].by = queryOverrides[ns].by
            /\ metricMap[ns].of = ns \/ Doubled(ns)

\* The same quantity in another unit of the same kind, or with its unit
\* appended; -1 is the same in all of them.
InUnit(s, unit, times) ==
    [s EXCEPT !.unit = unit, !.number = IF @ = -1 THEN -1 ELSE @ * times]

Smaller ==
    [u \in {"d", "h", "min", "s", "TB", "GB", "MB", "kB", "4kB", "8kB", "16kB", "32kB", "64kB",
            "16MB", "32MB", "64MB"} |->
        CASE u = "d" -> <<"h", 24>>
          [] u = "h" -> <<"min", 60>>
          [] u = "min" -> <<"s", 60>>
          [] u = "s" -> <<"ms", 1000>>
          [] u = "TB" -> <<"GB", 1024>>
          [] u = "GB" -> <<"MB", 1024>>
          [] u = "MB" -> <<"kB", 1024>>
          [] u = "kB" -> <<"B", 1024>>
          [] u = "4kB" -> <<"kB", 4>>
          [] u = "8kB" -> <<"kB", 8>>
          [] u = "16kB" -> <<"kB", 16>>
          [] u = "32kB" -> <<"kB", 32>>
          [] u = "64kB" -> <<"kB", 64>>
          [] u = "16MB" -> <<"MB", 16>>
          [] u = "32MB" -> <<"MB", 32>>
          [] u = "64MB" -> <<"MB", 64>>]

Restated(s) ==
    {[s EXCEPT !.tail = <<>>]}
    \cup {InUnit(s, Smaller[u][1], Smaller[u][2]) : u \in {s.unit} \cap DOMAIN Smaller}

\* Of two metrics in the same unit; power is the larger one's.
Equal(m1, m2) ==
    /\ m1.name = m2.name
    /\ m1.number * 2 ^ (m1.power - m2.power) = m2.number

KnownUnits == {""} \cup DOMAIN Bytes \cup DOMAIN Milliseconds

BytesSuffix == {<<>>, <<"k", "B">>, <<"M", "B">>, <<"G", "B">>, <<"T", "B">>}

\* A quantity is exposed as the same number in the same unit however PostgreSQL
\* states it, with the suffixes kB to TB appended or without: the character that
\* sanitizeValue cuts too many makes up for the suffix B that it finds first.
SettingsExact ==
    exposed.of = "settings" =>
        \A s \in {r \in DOMAIN exposed.metric : r.unit \in KnownUnits /\ r.tail \in BytesSuffix} :
            /\ exposed.metric[s] # Panic
            /\ \A t \in Restated(s) : Equal(exposed.metric[s], metric(t))
=============================================================================
