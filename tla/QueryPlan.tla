----------------------------- MODULE QueryPlan -----------------------------
(***************************************************************************)
(* What a Server asks PostgreSQL and makes of the columns it gets: the     *)
(* built-in maps and makeDescMap of postgres_exporter.go, the overrides,   *)
(* the user queries and their merge of queries.go.                         *)
(*                                                                         *)
(* A version is a number (9.4 is 904, 10 is 1000).  A namespace is a pair, *)
(* so that the prefix can be replaced: <<"pg", "stat_archiver">>.  The     *)
(* text of a query is abstracted to who wrote it and for which version; the *)
(* definition it belongs to is that of the namespace it is kept under, as  *)
(* no key of the overrides is ever renamed.                                *)
(***************************************************************************)
EXTENDS Integers, Sequences, FiniteSets, TLC

Newest == 9999

\* Columns of one usage, supported from a version on and below another, before
\* the rest of the columns of a namespace.
Columns(usage, since, before, names, rest) ==
    [c \in names \cup DOMAIN rest |->
        IF c \in names THEN [usage |-> usage, since |-> since, before |-> before] ELSE rest[c]]

Always(usage, names, rest) == Columns(usage, 0, Newest, names, rest)

NoMore == <<>>

stat_replication ==
    Always("LABEL", {"application_name", "client_addr", "state"},
    Columns("LABEL", 902, Newest, {"slot_name"},
    Columns("GAUGE", 1000, Newest, {"pg_current_wal_lsn_bytes", "pg_wal_lsn_diff"},
    Columns("GAUGE", 902, 1000, {"pg_xlog_location_diff"},
    Columns("DISCARD", 0, 902, {"procpid"},
    Columns("DISCARD", 902, Newest, {"pid"},
    Columns("DISCARD", 0, 1000,
        {"sent_location", "write_location", "flush_location", "replay_location"},
    Columns("DISCARD", 1000, Newest,
        {"sent_lsn", "write_lsn", "flush_lsn", "replay_lsn", "write_lag", "flush_lag",
         "replay_lag", "pg_current_wal_lsn"},
    Always("DISCARD",
        {"usesysid", "usename", "client_hostname", "client_port", "backend_start",
         "backend_xmin", "sync_priority", "sync_state", "plugin", "slot_type", "datoid",
         "database", "active", "active_pid", "xmin", "catalog_xmin", "restart_lsn",
         "pg_current_xlog_location", "confirmed_flush_lsn"},
    NoMore)))))))))

\* What the exporter makes of the columns of its own namespaces, all of them for
\* masters only.
builtinColumns(view) ==
    CASE view = "stat_database_conflicts" ->
           Always("LABEL", {"datid", "datname"},
           Always("COUNTER", {"confl_tablespace", "confl_lock", "confl_snapshot",
                              "confl_bufferpin", "confl_deadlock"}, NoMore))
      [] view = "stat_replication" -> stat_replication
      [] view = "replication_slots" ->
           Always("LABEL", {"slot_name", "database"},
           Always("GAUGE", {"active", "pg_wal_lsn_diff"}, NoMore))
      [] view = "stat_archiver" ->
           Always("COUNTER", {"archived_count", "failed_count"},
           Always("GAUGE", {"last_archive_age"},
           Always("DISCARD", {"last_archived_wal", "last_archived_time", "last_failed_wal",
                              "last_failed_time", "stats_reset"}, NoMore)))
      [] view = "stat_activity" ->
           Always("LABEL", {"datname", "usename", "application_name"},
           Columns("LABEL", 902, Newest, {"state"},
           Always("GAUGE", {"count", "max_tx_duration"}, NoMore)))

builtinMetricMaps ==
    [ns \in {"pg"} \X {"stat_database_conflicts", "stat_replication", "replication_slots",
                      "stat_archiver", "stat_activity"} |->
        [columns |-> builtinColumns(ns[2]), master |-> TRUE, by |-> "exporter", of |-> ns]]

\* queryOverrides: for each namespace the ranges it has a query for.
Between(since, before) == [by |-> "exporter", since |-> since, before |-> before]

overrides ==
    [ns \in {"pg"} \X {"stat_replication", "replication_slots", "stat_archiver",
                      "stat_activity"} |->
        CASE ns[2] = "stat_replication" ->
               {Between(1000, Newest), Between(902, 1000), Between(0, 902)}
          [] ns[2] = "replication_slots" -> {Between(904, 1000), Between(1000, Newest)}
          [] ns[2] = "stat_archiver" -> {Between(904, Newest)}
          [] ns[2] = "stat_activity" -> {Between(902, Newest), Between(0, 902)}]

InRange(r, version) == r.since <= version /\ version < r.before

\* The empty query: the namespace is disabled.
Disabled == [by |-> "nobody", since |-> 0, before |-> 0]

\* Mutant of makeQueryOverrideMap: no entry where no range matches.
makeQueryOverrideMapOnly(version) ==
    [ns \in {n \in DOMAIN overrides : \E q \in overrides[n] : InRange(q, version)} |->
        CHOOSE q \in overrides[ns] : InRange(q, version)]

makeQueryOverrideMap(version) ==
    [ns \in DOMAIN overrides |->
        IF \E q \in overrides[ns] : InRange(q, version)
        THEN CHOOSE q \in overrides[ns] : InRange(q, version)
        ELSE Disabled]

-----------------------------------------------------------------------------
\* makeDescMap

Rename(ns, prefix) == IF ns[1] = "pg" THEN <<prefix, ns[2]>> ELSE ns

\* The columns that a histogram column c comes with.
Parts(c) == {c \o "_bucket", c \o "_sum", c \o "_count"}

\* What is done with a column: the conversion of MAPPEDMETRIC and DURATION is
\* never called, so that they are values as well.
Treatment(mapping, version) ==
    CASE ~InRange(mapping, version) -> "discard"
      [] InRange(mapping, version) /\ mapping.usage \in {"DISCARD", "LABEL"} -> "discard"
      [] InRange(mapping, version) /\ mapping.usage = "HISTOGRAM" -> "histogram"
      [] OTHER -> "value"

\* The parts of histograms that are declared as columns themselves: which of the
\* two entries stays depends on the order of the iteration.
Contested(columns, version) ==
    {p \in DOMAIN columns :
        \E c \in DOMAIN columns :
            Treatment(columns[c], version) = "histogram" /\ p \in Parts(c)}

ContestedParts(maps, version) == UNION {Contested(maps[ns].columns, version) : ns \in DOMAIN maps}

\* Mutant of DescMap: a column that the version does not have gets no entry.
DescMapSkipping(map, version, asParts) ==
    LET supported == {c \in DOMAIN map.columns : InRange(map.columns[c], version)}
    IN [labels  |-> {c \in DOMAIN map.columns : map.columns[c].usage = "LABEL"},
        columns |-> [c \in supported |-> Treatment(map.columns[c], version)],
        names   |-> [c \in {} |-> c],
        master  |-> map.master,
        by      |-> map.by,
        of      |-> map.of]

DescMap(map, version, asParts) ==
    LET columns == map.columns
        histograms == {c \in DOMAIN columns : Treatment(columns[c], version) = "histogram"}
    IN [labels  |-> {c \in DOMAIN columns : columns[c].usage = "LABEL"},
        columns |-> [c \in DOMAIN columns \cup UNION {Parts(h) : h \in histograms} |->
                        IF c \in DOMAIN columns \ asParts
                        THEN Treatment(columns[c], version)
                        ELSE "discard"],
        names   |-> [c \in {d \in DOMAIN columns : columns[d].usage = "DURATION"} |->
                        c \o "_milliseconds"],
        master  |-> map.master,
        by      |-> map.by,
        of      |-> map.of]

\* No two namespaces of maps become one: see Remaining.
makeDescMap(version, prefix, maps, asParts) ==
    [ns \in {Rename(n, prefix) : n \in DOMAIN maps} |->
        DescMap(maps[CHOOSE n \in DOMAIN maps : Rename(n, prefix) = ns], version, asParts)]

-----------------------------------------------------------------------------
\* User queries.  A file is a function from namespaces to the query, the columns
\* with their usages as written, and whether the query is for masters only.

KnownUsage == {"DISCARD", "LABEL", "COUNTER", "GAUGE", "HISTOGRAM", "MAPPEDMETRIC", "DURATION"}

\* An unknown usage is an error that parseUserQueries drops: DISCARD.
stringToColumnUsage(s) == IF s \in KnownUsage THEN s ELSE "DISCARD"

parseUserQueries(file) ==
    [ns \in DOMAIN file |->
        [columns |-> [c \in DOMAIN file[ns].usage |->
                        [usage  |-> stringToColumnUsage(file[ns].usage[c]),
                         since  |-> 0,
                         before |-> Newest]],
         master  |-> file[ns].master,
         by      |-> "user",
         of      |-> ns]]

newQueryOverrides(file) == [ns \in DOMAIN file |-> file[ns].query]

\* The entries of the map f, and those of g that f has none for.
Over(f, g) == [ns \in DOMAIN f \cup DOMAIN g |-> IF ns \in DOMAIN f THEN f[ns] ELSE g[ns]]

\* The namespaces of a file that get entries: of those that become one under the
\* prefix the one that the iteration of makeDescMap comes to last.
Remaining(file, prefix) ==
    {kept \in SUBSET DOMAIN file :
        \A n \in DOMAIN file :
            \E m \in kept : \A k \in kept : Rename(k, prefix) = Rename(n, prefix) <=> k = m}

\* addQueries merges both into what is there.
MergedMap(metricMap, version, prefix, file, kept, asParts) ==
    Over(makeDescMap(version, prefix, parseUserQueries([n \in kept |-> file[n]]), asParts),
         metricMap)

\* Mutant of MergedOverrides: a query of the exporter is not overridden.
MergedOverridesKept(queryOverrides, file) == Over(queryOverrides, newQueryOverrides(file))

\* The namespaces are those of the file: no prefix is replaced.
MergedOverrides(queryOverrides, file) == Over(newQueryOverrides(file), queryOverrides)
=============================================================================
