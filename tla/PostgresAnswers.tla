-------------------------- MODULE PostgresAnswers --------------------------
(***************************************************************************)
(* External: what PostgreSQL, by version (from 9.1 on), answers to the     *)
(* queries of queries.go.  An answer has the names of its columns, those   *)
(* of them that two columns have, the first of them (an index of 0 means   *)
(* that one), those that hold neither a number nor NULL, and those that    *)
(* together tell its rows apart.                                           *)
(***************************************************************************)
EXTENDS Integers, TLC

Answer(first, others, text, key) ==
    [first   |-> first,
     columns |-> {first} \cup others,
     twice   |-> {},
     text    |-> text,
     arrays  |-> {},
     key     |-> key]

\* PostgreSQL rejects the query.
Fails == [first |-> "", columns |-> {}, twice |-> {}, text |-> {}, arrays |-> {}, key |-> {}]

From(since, version, names) == IF version >= since THEN names ELSE {}
Until(before, version, names) == IF version < before THEN names ELSE {}

\* The functions a query calls exist: pg_xlog_location_diff came with 9.2, and
\* 10 renamed what has xlog and location in its name.
WalNames(query) == query.since >= 1000
XlogDiff(query) == query.since \in 902..904
FunctionsExist(query, version) ==
    /\ WalNames(query) => version >= 1000
    /\ ~WalNames(query) => version < 1000
    /\ XlogDiff(query) => version >= 902

\* SELECT * FROM pg_stat_replication, and what the query adds to it.
stat_replication_view(query, version) ==
    LET pid == IF version < 902 THEN "procpid" ELSE "pid"
        text == {"usename", "application_name", "client_addr", "client_hostname",
                 "state", "sync_state"}
                \cup Until(1000, version,
                       {"sent_location", "write_location", "flush_location",
                        "replay_location"})
                \cup From(1000, version,
                       {"sent_lsn", "write_lsn", "flush_lsn", "replay_lsn",
                        "write_lag", "flush_lag", "replay_lag"})
                \cup (IF WalNames(query) THEN {"pg_current_wal_lsn"}
                                         ELSE {"pg_current_xlog_location"})
        numbers == {"usesysid", "client_port", "backend_start", "sync_priority"}
                   \cup From(904, version, {"backend_xmin"})
                   \cup From(1200, version, {"reply_time"})
                   \cup (IF XlogDiff(query) THEN {"pg_xlog_location_diff"} ELSE {})
                   \cup (IF WalNames(query)
                         THEN {"pg_current_wal_lsn_bytes", "pg_wal_lsn_diff"} ELSE {})
    IN Answer(pid, text \cup numbers, text, {pid})

replication_slots_view(query) ==
    Answer("slot_name",
           {"database", "active",
            IF WalNames(query) THEN "pg_wal_lsn_diff" ELSE "pg_xlog_location_diff"},
           {"slot_name", "database"}, {"slot_name"})

\* One row.
stat_archiver_view ==
    Answer("archived_count",
           {"last_archived_wal", "last_archived_time", "failed_count", "last_failed_wal",
            "last_failed_time", "stats_reset", "last_archive_age"},
           {"last_archived_wal", "last_failed_wal"}, {})

\* Grouped by all that tells the rows apart, the state from 9.2 on.
stat_activity_view(query) ==
    LET labels == {"datname", "state", "usename", "application_name"}
    IN Answer("datname", labels \cup {"count", "max_tx_duration"}, labels,
              IF query.since = 902 THEN labels ELSE labels \ {"state"})

stat_database_conflicts_view(version) ==
    Answer("datid",
           {"datname", "confl_tablespace", "confl_lock", "confl_snapshot",
            "confl_bufferpin", "confl_deadlock"}
             \cup From(1600, version, {"confl_active_logicalslot"}),
           {"datname"}, {"datid"})

\* The views there are; the first three are as old as 9.1.
Views(version) ==
    {<<"pg", "stat_database_conflicts">>, <<"pg", "stat_replication">>,
     <<"pg", "stat_activity">>}
    \cup From(904, version, {<<"pg", "replication_slots">>, <<"pg", "stat_archiver">>})

\* What a query of the exporter for namespace ns is answered.  The current position
\* in the WAL is an error during recovery; the query of pg_replication_slots asks
\* for it once for each slot, without looking at pg_is_in_recovery.
BuiltinAnswer(ns, query, version, recovery) ==
    CASE ns = <<"pg", "stat_replication">> /\ FunctionsExist(query, version) ->
           stat_replication_view(query, version)
      [] ns = <<"pg", "replication_slots">> /\ FunctionsExist(query, version)
           /\ ns \in Views(version) /\ ~recovery ->
           replication_slots_view(query)
      [] ns = <<"pg", "stat_archiver">> /\ ns \in Views(version) -> stat_archiver_view
      [] ns = <<"pg", "stat_activity">> /\ (query.since = 902 => version >= 902) ->
           stat_activity_view(query)
      [] OTHER -> Fails

\* SELECT * FROM the namespace: the one built-in namespace without a query of
\* its own is a view.
ViewAnswer(ns, version) ==
    IF ns = <<"pg", "stat_database_conflicts">> /\ ns \in Views(version)
    THEN stat_database_conflicts_view(version)
    ELSE Fails
=============================================================================
