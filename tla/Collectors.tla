----------------------------- MODULE Collectors -----------------------------
(***************************************************************************)
(* PostgresCollector (collector/collector.go): Collect runs every enabled  *)
(* collector in a goroutine of its own, all on the one connection pool of  *)
(* the instance (instance.go), each with its own deadline, and waits for   *)
(* all of them.  Requests overlap: each runs a Collect, on the same pool.  *)
(*                                                                         *)
(* database/sql: a query waits for a connection while MaxOpen are in use,  *)
(* until its deadline or until the pool is closed; the rows keep the       *)
(* connection until they are exhausted or closed.                          *)
(***************************************************************************)
EXTENDS CollectorUpdates, FiniteSets

CONSTANTS
    Request,     \* the concurrent calls of Collect
    Enabled,     \* the enabled collectors: PostgresCollector.Collectors
    Update,      \* the queries of each, from CollectorUpdates
    MaxOpen      \* dbMaxOpenConns

ASSUME CollectorsAssumption ==
    /\ IsFiniteSet(Request)
    /\ IsFiniteSet(Enabled)
    /\ MaxOpen \in Nat \ {0}
    /\ \A k \in Enabled :
         Update[k] \in Seq([reads : {"all", "row", "first", "probe"},
                           null : {"skip", "default", "fail"},
                           err : {"now", "end", "never"}])

\* The goroutine of collector t[2] in request t[1].
Task == Request \X Enabled

VARIABLES
    closed,   \* whether instance.Close was called
    request,  \* where each call of Collect is: "idle", "waiting" or "returned"
    pc,       \* where each goroutine is
    sent,     \* how many queries of its Update it has started
    pending,  \* the rows error it is to return at the end
    lost,     \* history: it did not expose a row the database has
    verdict   \* the value of collector_success it sent: "none", "0" or "1"

vars == <<closed, request, pc, sent, pending, lost, verdict>>

\* Mutant of Holding: an answer is not closed before the next query is sent.
HoldingTillTheEnd ==
    {t \in Task : \/ pc[t] = "query"
                  \/ pc[t] = "next" /\ sent[t] > 0
                  \/ pc[t] = "acquire" /\ sent[t] > 1}

\* The goroutines that hold a connection.
Holding == {t \in Task : pc[t] = "query"}

TypeOK ==
    /\ closed \in BOOLEAN
    /\ request \in [Request -> {"idle", "waiting", "returned"}]
    /\ pc \in [Task -> {"idle", "next", "acquire", "query", "failed", "done"}]
    /\ \A t \in Task : sent[t] \in 0..Len(Update[t[2]])
    /\ DOMAIN sent = Task
    /\ pending \in [Task -> BOOLEAN]
    /\ lost \in [Task -> BOOLEAN]
    /\ verdict \in [Task -> {"none", "0", "1"}]

Init ==
    /\ closed = FALSE
    /\ request = [r \in Request |-> "idle"]
    /\ pc = [t \in Task |-> "idle"]
    /\ sent = [t \in Task |-> 0]
    /\ pending = [t \in Task |-> FALSE]
    /\ lost = [t \in Task |-> FALSE]
    /\ verdict = [t \in Task |-> "none"]

Goto(t, label) == pc' = [pc EXCEPT ![t] = label]

\* The query a goroutine has started last.
Current(t) == Update[t[2]][sent[t]]

-----------------------------------------------------------------------------
\* Collect starts a goroutine per collector and waits for them.
Collect(r) ==
    /\ request[r] = "idle"
    /\ request' = [request EXCEPT ![r] = "waiting"]
    /\ pc' = [t \in Task |-> IF t[1] = r THEN "next" ELSE pc[t]]
    /\ UNCHANGED <<closed, sent, pending, lost, verdict>>

\* Mutant of NextQuery: one query too many.
NextQueryPastEnd(t) ==
    /\ pc[t] = "next"
    /\ sent[t] <= Len(Update[t[2]])
    /\ sent' = [sent EXCEPT ![t] = @ + 1]
    /\ Goto(t, "acquire")
    /\ UNCHANGED <<closed, request, pending, lost, verdict>>

\* Update sends its next query.
NextQuery(t) ==
    /\ pc[t] = "next"
    /\ sent[t] < Len(Update[t[2]])
    /\ sent' = [sent EXCEPT ![t] = @ + 1]
    /\ Goto(t, "acquire")
    /\ UNCHANGED <<closed, request, pending, lost, verdict>>

\* A connection is free, or may be opened.
Acquire(t) ==
    /\ pc[t] = "acquire"
    /\ ~closed
    /\ Cardinality(Holding) < MaxOpen
    /\ Goto(t, "query")
    /\ UNCHANGED <<closed, request, sent, pending, lost, verdict>>

\* The deadline of context.WithTimeout passes while it waits (it may, at any
\* time), or the pool is closed.
AcquireFails(t) ==
    /\ pc[t] = "acquire"
    /\ Goto(t, "failed")
    /\ UNCHANGED <<closed, request, sent, pending, lost, verdict>>

\* The query itself fails: the database refuses, the connection is lost, or
\* the deadline passes before the first row.
QueryFails(t) ==
    /\ pc[t] = "query"
    /\ Goto(t, "failed")
    /\ UNCHANGED <<closed, request, sent, pending, lost, verdict>>

\* The answer is read to its end.  Of the rows behind the first a collector
\* may ask for no more than the first.
RowsRead(t) ==
    /\ pc[t] = "query"
    /\ \E more \in BOOLEAN :
         /\ more => Current(t).reads = "first"
         /\ lost' = [lost EXCEPT ![t] = @ \/ more]
    /\ Goto(t, "next")
    /\ UNCHANGED <<closed, request, sent, pending, verdict>>

\* rows.Next ends early: the connection is lost or the deadline passes.  A
\* collector that goes on sends no query for a row it has not seen.
RowsCut(t) ==
    /\ pc[t] = "query"
    /\ Current(t).reads \in {"all", "probe"}
    /\ lost' = [lost EXCEPT ![t] = TRUE]
    /\ pending' = [pending EXCEPT ![t] = @ \/ Current(t).err = "end"]
    /\ \E n \in sent[t]..Len(Update[t[2]]) :
         /\ Current(t).err # "end" => n = sent[t]
         /\ sent' = [sent EXCEPT ![t] = n]
    /\ Goto(t, IF Current(t).err = "now" THEN "failed" ELSE "next")
    /\ UNCHANGED <<closed, request, verdict>>

\* Scan meets a NULL it cannot hold, or there is no first row; the deferred
\* rows.Close gives the connection back.
ScanFails(t) ==
    /\ pc[t] = "query"
    /\ Current(t).null = "fail" \/ Current(t).reads = "first"
    /\ Goto(t, "failed")
    /\ UNCHANGED <<closed, request, sent, pending, lost, verdict>>

\* Update returned: collector_duration and collector_success are sent, and
\* the deferred wg.Done runs.
Report(t, success) ==
    /\ verdict' = [verdict EXCEPT ![t] = success]
    /\ pending' = [pending EXCEPT ![t] = FALSE]
    /\ Goto(t, "done")
    /\ UNCHANGED <<closed, request, sent, lost>>

\* Mutant of Succeeds: the error of an earlier answer is forgotten.
SucceedsAnyway(t) ==
    /\ pc[t] = "next"
    /\ sent[t] = Len(Update[t[2]])
    /\ Report(t, "1")

\* Every answer was read, but one of them may have ended early.
Succeeds(t) ==
    /\ pc[t] = "next"
    /\ sent[t] = Len(Update[t[2]])
    /\ Report(t, IF pending[t] THEN "0" ELSE "1")

Fails(t) ==
    /\ pc[t] = "failed"
    /\ Report(t, "0")

\* wg.Wait returns, and Collect with it.
Return(r) ==
    /\ request[r] = "waiting"
    /\ \A k \in Enabled : pc[<<r, k>>] = "done"
    /\ request' = [request EXCEPT ![r] = "returned"]
    /\ UNCHANGED <<closed, pc, sent, pending, lost, verdict>>

\* The response is written, and the next request may come.
Respond(r) ==
    /\ request[r] = "returned"
    /\ request' = [request EXCEPT ![r] = "idle"]
    /\ pc' = [t \in Task |-> IF t[1] = r THEN "idle" ELSE pc[t]]
    /\ sent' = [t \in Task |-> IF t[1] = r THEN 0 ELSE sent[t]]
    /\ pending' = [t \in Task |-> IF t[1] = r THEN FALSE ELSE pending[t]]
    /\ lost' = [t \in Task |-> IF t[1] = r THEN FALSE ELSE lost[t]]
    /\ verdict' = [t \in Task |-> IF t[1] = r THEN "none" ELSE verdict[t]]
    /\ UNCHANGED closed

-----------------------------------------------------------------------------
\* The shutdown hook calls Close, whatever is running.
Close ==
    /\ ~closed
    /\ closed' = TRUE
    /\ UNCHANGED <<request, pc, sent, pending, lost, verdict>>

\* The steps of a goroutine that wait for no other one.
TaskStep(t) ==
    \/ NextQuery(t)
    \/ QueryFails(t)
    \/ RowsRead(t)
    \/ RowsCut(t)
    \/ ScanFails(t)
    \/ Succeeds(t)
    \/ Fails(t)

Next ==
    \/ \E t \in Task : TaskStep(t) \/ Acquire(t) \/ AcquireFails(t)
    \/ \E r \in Request : Collect(r) \/ Return(r) \/ Respond(r)
    \/ Close

Spec == Init /\ [][Next]_vars

\* Goroutines run, the database answers or fails, and database/sql serves
\* those that wait for a connection in the order they came.  No deadline is
\* bound to pass.
Fairness ==
    /\ \A t \in Task :
         /\ WF_vars(TaskStep(t)) /\ SF_vars(Acquire(t))
         /\ WF_vars(closed /\ AcquireFails(t))
    /\ \A r \in Request : WF_vars(Return(r))

FairSpec == Spec /\ Fairness

-----------------------------------------------------------------------------
\* Properties

\* A Collect returns although its collectors compete with each other and with
\* those of other requests for the connections, even for a single one: no
\* collector waits for a connection while it keeps one, so this does not
\* depend on a deadline.
CollectReturns == \A r \in Request : request[r] = "waiting" ~> request[r] = "returned"

\* "Whether a collector succeeded": a collector that reports success has
\* exposed every row its queries found.
SuccessIsComplete == \A t \in Task : verdict[t] = "1" => ~lost[t]

\* That holds for all but those that ignore a rows error or read one row.
Lenient == {"stat_database", "stat_wal_receiver", "process_idle"}

StrictSuccessIsComplete ==
    \A t \in Task : verdict[t] = "1" /\ t[2] \notin Lenient => ~lost[t]

-----------------------------------------------------------------------------
\* The inductive invariant behind it (CollectorsProofs.tla).

\* A collector that looks at every row and at every error of its rows.
Strict(queries) ==
    \A i \in 1..Len(queries) : queries[i].reads # "first" /\ queries[i].err # "never"

\* A goroutine works only while its Collect waits for it.
WorkedFor ==
    \A t \in Task :
        /\ pc[t] \in {"next", "acquire", "query", "failed"} => request[t[1]] = "waiting"
        /\ request[t[1]] = "idle" => pc[t] = "idle"
        /\ pc[t] \in {"acquire", "query"} => sent[t] > 0

\* It has reported when it is done, and nothing of the last request is left
\* when the next one comes.
ReportedDone ==
    \A t \in Task :
        /\ verdict[t] # "none" => pc[t] = "done"
        /\ request[t[1]] = "idle" => verdict[t] = "none"

\* Up to its report, a strict collector that lost a row has an error to return.
LossPending ==
    \A t \in Task :
        Strict(Update[t[2]]) /\ lost[t] /\ pc[t] \in {"idle", "next", "acquire", "query"}
            => pending[t]

\* StrictSuccessIsComplete, of whichever collectors are strict.
CompleteIfStrict ==
    \A t \in Task : verdict[t] = "1" /\ Strict(Update[t[2]]) => ~lost[t]

IInv ==
    /\ TypeOK
    /\ WorkedFor
    /\ ReportedDone
    /\ LossPending
    /\ CompleteIfStrict
=============================================================================
