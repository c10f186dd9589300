---------------------------- MODULE MCCollectors ----------------------------
(***************************************************************************)
(* Instances of Collectors.tla for TLC.                                    *)
(***************************************************************************)
EXTENDS Collectors, TLC

\* The Update of each collector; the instance has one database besides the
\* excluded ones and runs a PostgreSQL with a write-ahead log.
Updates ==
    [database |-> Database(1),
     database_wraparound |-> DatabaseWraparound,
     locks |-> Locks,
     long_running_transactions |-> LongRunningTransactions,
     postmaster |-> Postmaster,
     process_idle |-> ProcessIdle,
     replication |-> Replication,
     replication_slot |-> ReplicationSlot,
     roles |-> Roles,
     stat_activity_autovacuum |-> StatActivityAutovacuum,
     stat_bgwriter |-> StatBGWriter,
     stat_database |-> StatDatabase,
     stat_statements |-> StatStatements,
     stat_statements_summary |-> StatStatementsSummary,
     stat_user_tables |-> StatUserTables,
     stat_wal_receiver |-> StatWalReceiver,
     statio_user_indexes |-> StatioUserIndexes,
     statio_user_tables |-> StatioUserTables,
     wal |-> WAL,
     xlog_location |-> XlogLocation(TRUE)]
=============================================================================
