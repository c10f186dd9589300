-------------------------- MODULE CollectorUpdates --------------------------
(***************************************************************************)
(* What the Update method of each collector (collector/pg_*.go) does with  *)
(* its connection pool: the queries it sends, one after the other, and for *)
(* each of them                                                            *)
(*                                                                         *)
(*   reads  how much of the answer is read: every row; the row there       *)
(*          always is; the first of any number of rows; or only whether    *)
(*          there is a row ("probe");                                      *)
(*   null   a NULL where a value is expected drops the row ("skip"),       *)
(*          becomes 0 or "unknown" ("default"), or fails Scan ("fail");    *)
(*   err    what becomes of an error that ends the rows early: returned    *)
(*          at once, returned after the later queries, or never looked at. *)
(*                                                                         *)
(* Column lists, label values and metric types are left out.               *)
(***************************************************************************)
EXTENDS Sequences, Naturals

Query(reads, null, err) == [reads |-> reads, null |-> null, err |-> err]

\* The loop over rows.Next, ended by a look at rows.Err.
Rows(null) == Query("all", null, "now")

\* QueryRowContext of an aggregate: Scan reports every error.
Row(null) == Query("row", null, "now")

-----------------------------------------------------------------------------
\* The list of the databases, and then the size of each; the list's rows.Err
\* is returned after the sizes.
Database(n) ==
    <<Query("all", "skip", "end")>> \o [i \in 1..n |-> Row("default")]

DatabaseWraparound == <<Rows("skip")>>
Locks == <<Rows("skip")>>
LongRunningTransactions == <<Rows("fail")>>
Postmaster == <<Row("default")>>

\* One group of idle processes is read, if there is one.
ProcessIdle == <<Query("first", "default", "now")>>

Replication == <<Row("fail")>>
ReplicationSlot == <<Rows("default")>>
Roles == <<Rows("skip")>>
StatActivityAutovacuum == <<Rows("fail")>>
StatBGWriter == <<Row("default")>>

\* rows.Err is not looked at.
StatDatabase == <<Query("all", "skip", "never")>>

StatStatements == <<Rows("default")>>
StatStatementsSummary == <<Rows("default")>>
StatUserTables == <<Rows("default")>>

\* Whether the view has the column flushed_lsn is asked first; an error of that
\* query's rows counts as "no".
StatWalReceiver == <<Query("probe", "skip", "never"), Rows("skip")>>

StatioUserIndexes == <<Rows("default")>>
StatioUserTables == <<Rows("default")>>
WAL == <<Row("fail")>>

\* Nothing is asked of a PostgreSQL that has no xlog any more.
XlogLocation(after10) == IF after10 THEN <<>> ELSE <<Rows("fail")>>
=============================================================================
