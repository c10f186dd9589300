-------------------------- MODULE CollectorsProofs --------------------------
(***************************************************************************)
(* Proofs about Collectors.tla, for any number of overlapping requests,    *)
(* any set of collectors and any limit on the connections.                 *)
(***************************************************************************)
EXTENDS Collectors, FiniteSetTheorems, SequenceTheorems, TLAPS

\* Every collector of the code but the three of Lenient looks at all rows and
\* errors; database does for any number of databases.
THEOREM CollectorsAreStrict ==
    /\ \A n \in Nat : Strict(Database(n))
    /\ Strict(DatabaseWraparound)
    /\ Strict(Locks)
    /\ Strict(LongRunningTransactions)
    /\ Strict(Postmaster)
    /\ Strict(Replication)
    /\ Strict(ReplicationSlot)
    /\ Strict(Roles)
    /\ Strict(StatActivityAutovacuum)
    /\ Strict(StatBGWriter)
    /\ Strict(StatStatements)
    /\ Strict(StatStatementsSummary)
    /\ Strict(StatUserTables)
    /\ Strict(StatioUserIndexes)
    /\ Strict(StatioUserTables)
    /\ Strict(WAL)
    /\ \A after10 \in BOOLEAN : Strict(XlogLocation(after10))
<1> USE DEF Strict, Rows, Row, Query
<1>1. ASSUME NEW n \in Nat
      PROVE  Strict(Database(n))
  <2> DEFINE list == <<Query("all", "skip", "end")>>
             sizes == [i \in 1..n |-> Row("default")]
  <2>1. list \in Seq({Query("all", "skip", "end"), Row("default")}) /\ Len(list) = 1
    OBVIOUS
  <2>2. sizes \in Seq({Query("all", "skip", "end"), Row("default")})
    BY <1>1
  <2>3. list \o sizes \in Seq({Query("all", "skip", "end"), Row("default")})
    BY <2>1, <2>2
  <2>4. \A i \in 1..Len(list \o sizes) :
            (list \o sizes)[i] \in {Query("all", "skip", "end"), Row("default")}
    BY <2>3
  <2> QED
    BY <2>4 DEF Database
<1>2. Strict(DatabaseWraparound)
  BY DEF DatabaseWraparound
<1>3. Strict(Locks)
  BY DEF Locks
<1>4. Strict(LongRunningTransactions)
  BY DEF LongRunningTransactions
<1>5. Strict(Postmaster)
  BY DEF Postmaster
<1>6. Strict(Replication)
  BY DEF Replication
<1>7. Strict(ReplicationSlot)
  BY DEF ReplicationSlot
<1>8. Strict(Roles)
  BY DEF Roles
<1>9. Strict(StatActivityAutovacuum)
  BY DEF StatActivityAutovacuum
<1>10. Strict(StatBGWriter)
  BY DEF StatBGWriter
<1>11. Strict(StatStatements) /\ Strict(StatStatementsSummary)
  BY DEF StatStatements, StatStatementsSummary
<1>12. Strict(StatUserTables)
  BY DEF StatUserTables
<1>13. Strict(StatioUserIndexes) /\ Strict(StatioUserTables)
  BY DEF StatioUserIndexes, StatioUserTables
<1>14. Strict(WAL)
  BY DEF WAL
<1>15. ASSUME NEW after10 \in BOOLEAN
       PROVE  Strict(XlogLocation(after10))
  <2>1. CASE after10
    BY <2>1 DEF XlogLocation
  <2>2. CASE ~after10
    BY <2>2 DEF XlogLocation
  <2> QED
    BY <2>1, <2>2
<1> QED
  BY <1>1, <1>2, <1>3, <1>4, <1>5, <1>6, <1>7, <1>8, <1>9, <1>10, <1>11, <1>12,
     <1>13, <1>14, <1>15

-----------------------------------------------------------------------------
\* A task is one collector of one request.
LEMMA TaskParts ==
    ASSUME NEW t \in Task
    PROVE  t[1] \in Request /\ t[2] \in Enabled /\ t = <<t[1], t[2]>>
BY DEF Task

\* An Update is a sequence of queries.
LEMMA UpdateLength ==
    ASSUME NEW t \in Task
    PROVE  Len(Update[t[2]]) \in Nat
<1>1. Update[t[2]] \in Seq([reads : {"all", "row", "first", "probe"},
                          null : {"skip", "default", "fail"},
                          err : {"now", "end", "never"}])
  BY TaskParts, CollectorsAssumption
<1> QED
  BY <1>1

\* The query that is under way is one of the collector's Update.
LEMMA CurrentQuery ==
    ASSUME TypeOK, WorkedFor, NEW t \in Task, pc[t] = "query"
    PROVE  /\ sent[t] \in 1..Len(Update[t[2]])
           /\ Len(Update[t[2]]) \in Nat
           /\ Current(t) = Update[t[2]][sent[t]]
           /\ Current(t).err \in {"now", "end", "never"}
<1> DEFINE Queries == [reads : {"all", "row", "first", "probe"},
                       null : {"skip", "default", "fail"},
                       err : {"now", "end", "never"}]
<1>1. Update[t[2]] \in Seq(Queries)
  BY TaskParts, CollectorsAssumption
<1>2. Len(Update[t[2]]) \in Nat
  BY <1>1
<1>3. sent[t] \in 1..Len(Update[t[2]])
  BY <1>2 DEF TypeOK, WorkedFor
<1>4. Update[t[2]][sent[t]] \in Queries
  BY <1>1, <1>3, ElementOfSeq
<1>5. Update[t[2]][sent[t]].err \in {"now", "end", "never"}
  BY <1>4
<1> QED
  BY <1>2, <1>3, <1>5 DEF Current

\* At the start no Collect is under way.
LEMMA InitIInv == Init => IInv
<1>1. \A t \in Task : 0 \in 0..Len(Update[t[2]])
  <2>1. ASSUME NEW t \in Task
        PROVE  0 \in 0..Len(Update[t[2]])
    <3>1. Len(Update[t[2]]) \in Nat
      BY UpdateLength
    <3> QED
      BY <3>1
  <2> QED
    BY <2>1
<1>2. ASSUME Init
      PROVE  TypeOK
  <2>1. \A t \in Task : sent[t] \in 0..Len(Update[t[2]])
    <3>1. \A t \in Task : sent[t] = 0
      BY <1>2 DEF Init
    <3> QED
      BY <1>1, <3>1
  <2> QED
    BY <1>2, <2>1 DEF Init, TypeOK
<1>3. Init => WorkedFor /\ ReportedDone /\ LossPending /\ CompleteIfStrict
  BY DEF Init, WorkedFor, ReportedDone, LossPending, CompleteIfStrict
<1> QED
  BY <1>2, <1>3 DEF IInv

\* Each step of a collector's goroutine keeps the invariant; of the strict ones,
\* only RowsCut loses rows, and it leaves an error behind.
LEMMA TaskKeepsIInv ==
    ASSUME IInv, NEW t \in Task,
           TaskStep(t) \/ Acquire(t) \/ AcquireFails(t)
    PROVE  IInv'
<1> USE DEF IInv, TypeOK, WorkedFor, ReportedDone, LossPending,
            CompleteIfStrict, Goto
<1>1. /\ t[1] \in Request /\ t[2] \in Enabled
      /\ Len(Update[t[2]]) \in Nat
  BY TaskParts, UpdateLength
<1>2. CASE NextQuery(t)
  BY <1>1, <1>2 DEF NextQuery
<1>3. CASE QueryFails(t)
  BY <1>1, <1>3 DEF QueryFails
<1>4. CASE RowsRead(t)
  <2>1. /\ sent[t] \in 1..Len(Update[t[2]])
        /\ Current(t) = Update[t[2]][sent[t]]
    BY <1>4, CurrentQuery DEF RowsRead
  <2>2. Current(t).reads = "first" => ~Strict(Update[t[2]])
    BY <1>1, <2>1 DEF Strict
  <2> QED
    BY <1>1, <1>4, <2>2 DEF RowsRead
<1>5. CASE RowsCut(t)
  <2>1. /\ sent[t] \in 1..Len(Update[t[2]])
        /\ Current(t) = Update[t[2]][sent[t]]
        /\ Current(t).err \in {"now", "end", "never"}
    BY <1>5, CurrentQuery DEF RowsCut
  <2>2. Strict(Update[t[2]]) => Current(t).err # "never"
    BY <1>1, <2>1 DEF Strict
  <2>3. PICK n \in sent[t]..Len(Update[t[2]]) : sent' = [sent EXCEPT ![t] = n]
    BY <1>5 DEF RowsCut
  <2>4. n \in 0..Len(Update[t[2]]) /\ n > 0
    BY <1>1, <2>1, <2>3
  <2>5. TypeOK'
    BY <1>5, <2>3, <2>4 DEF RowsCut
  <2>6. WorkedFor'
    BY <1>5, <2>3, <2>4 DEF RowsCut
  <2>7. ReportedDone' /\ CompleteIfStrict'
    BY <1>5 DEF RowsCut
  <2>8. LossPending'
    BY <1>5, <2>1, <2>2 DEF RowsCut
  <2> QED
    BY <2>5, <2>6, <2>7, <2>8
<1>6. CASE ScanFails(t)
  BY <1>1, <1>6 DEF ScanFails
<1>7. CASE Succeeds(t)
  BY <1>1, <1>7 DEF Succeeds, Report
<1>8. CASE Fails(t)
  BY <1>1, <1>8 DEF Fails, Report
<1>9. CASE Acquire(t)
  BY <1>1, <1>9 DEF Acquire
<1>10. CASE AcquireFails(t)
  BY <1>1, <1>10 DEF AcquireFails
<1> QED
  BY <1>2, <1>3, <1>4, <1>5, <1>6, <1>7, <1>8, <1>9, <1>10 DEF TaskStep

\* So does each step of a request, and the shutdown.
LEMMA NextKeepsIInv ==
    ASSUME IInv, [Next]_vars
    PROVE  IInv'
<1> USE DEF IInv, TypeOK, WorkedFor, ReportedDone, LossPending,
            CompleteIfStrict
<1>1. ASSUME NEW t \in Task, TaskStep(t) \/ Acquire(t) \/ AcquireFails(t)
      PROVE  IInv'
  BY <1>1, TaskKeepsIInv
<1>2. ASSUME NEW r \in Request, Collect(r)
      PROVE  IInv'
  <2>1. TypeOK' /\ ReportedDone' /\ CompleteIfStrict'
    BY <1>2, TaskParts DEF Collect
  <2>2. WorkedFor'
    BY <1>2, TaskParts DEF Collect
  <2>3. LossPending'
    <3>1. \A t \in Task : t[1] = r => pc[t] = "idle"
      BY <1>2 DEF Collect
    <3> QED
      BY <1>2, <3>1 DEF Collect
  <2> QED
    BY <2>1, <2>2, <2>3
<1>3. ASSUME NEW r \in Request, Return(r)
      PROVE  IInv'
  <2>1. \A t \in Task : t[1] = r => pc[t] = "done"
    BY <1>3, TaskParts DEF Return
  <2> QED
    BY <1>3, <2>1, TaskParts DEF Return
<1>4. ASSUME NEW r \in Request, Respond(r)
      PROVE  IInv'
  <2>1. \A t \in Task : t[1] \in Request /\ Len(Update[t[2]]) \in Nat
    BY TaskParts, UpdateLength
  <2>2. TypeOK'
    <3>1. ASSUME NEW t \in Task
          PROVE  sent'[t] \in 0..Len(Update[t[2]])
      <4>1. Len(Update[t[2]]) \in Nat
        BY <2>1
      <4> QED
        BY <1>4, <4>1 DEF Respond
    <3>2. /\ pc' \in [Task -> {"idle", "next", "acquire", "query", "failed", "done"}]
          /\ pending' \in [Task -> BOOLEAN] /\ lost' \in [Task -> BOOLEAN]
          /\ verdict' \in [Task -> {"none", "0", "1"}]
          /\ request' \in [Request -> {"idle", "waiting", "returned"}]
          /\ closed' \in BOOLEAN /\ DOMAIN sent' = Task
      BY <1>4 DEF Respond
    <3> QED
      BY <3>1, <3>2
  <2>3. WorkedFor'
    BY <1>4, <2>1 DEF Respond
  <2>4. ReportedDone'
    BY <1>4, <2>1 DEF Respond
  <2>5. LossPending' /\ CompleteIfStrict'
    BY <1>4 DEF Respond
  <2> QED
    BY <2>2, <2>3, <2>4, <2>5
<1>5. CASE Close
  BY <1>5 DEF Close
<1>6. CASE UNCHANGED vars
  BY <1>6 DEF vars
<1> QED
  BY <1>1, <1>2, <1>3, <1>4, <1>5, <1>6 DEF Next

\* The inductive invariant of Collect holds, whatever the collectors ask.
THEOREM CollectInvariance == Spec => []IInv
<1>1. IInv /\ [Next]_vars => IInv'
  BY NextKeepsIInv
<1> QED
  BY <1>1, InitIInv, PTL DEF Spec

\* The variables of Collect keep their types.
THEOREM CollectTypeCorrect == Spec => []TypeOK
<1>1. IInv => TypeOK
  BY DEF IInv
<1> QED
  BY <1>1, CollectInvariance, PTL

\* All collectors but those three are strict (CollectorsAreStrict).
StrictUpdates == \A k \in Enabled \ Lenient : Strict(Update[k])

\* collector_success 1 of a strict collector means that it lost no row,
\* whatever ends early and whoever else waits for a connection.
THEOREM StrictSuccessHolds ==
    ASSUME StrictUpdates
    PROVE  Spec => []StrictSuccessIsComplete
<1>1. IInv => StrictSuccessIsComplete
  <2>1. \A t \in Task : t[2] \notin Lenient => Strict(Update[t[2]])
    BY TaskParts DEF StrictUpdates
  <2> QED
    BY <2>1 DEF IInv, CompleteIfStrict, StrictSuccessIsComplete
<1> QED
  BY <1>1, CollectInvariance, PTL

-----------------------------------------------------------------------------
\* While its Collect is under way a goroutine has started.
StartedFor == \A t \in Task : request[t[1]] # "idle" => pc[t] # "idle"

\* A goroutine leaves "idle" with its request and comes back to it with it.
LEMMA StartedForHolds == Spec => []StartedFor
<1>1. Init => StartedFor
  BY TaskParts DEF Init, StartedFor
<1>2. IInv /\ StartedFor /\ [Next]_vars => StartedFor'
  <2> SUFFICES ASSUME IInv, StartedFor, [Next]_vars
               PROVE  StartedFor'
    OBVIOUS
  <2> USE TaskParts DEF IInv, TypeOK, StartedFor
  <2>1. ASSUME NEW t \in Task, TaskStep(t) \/ Acquire(t) \/ AcquireFails(t)
        PROVE  StartedFor'
    <3>1. request' = request /\ \E label \in {"next", "acquire", "query", "failed", "done"} :
              pc' = [pc EXCEPT ![t] = label]
      BY <2>1 DEF TaskStep, NextQuery, QueryFails, RowsRead, RowsCut, ScanFails, Succeeds,
                  Fails, Report, Acquire, AcquireFails, Goto
    <3> QED
      BY <3>1
  <2>2. ASSUME NEW r \in Request, Collect(r)
        PROVE  StartedFor'
    BY <2>2 DEF Collect
  <2>3. ASSUME NEW r \in Request, Return(r)
        PROVE  StartedFor'
    BY <2>3 DEF Return
  <2>4. ASSUME NEW r \in Request, Respond(r)
        PROVE  StartedFor'
    BY <2>4 DEF Respond
  <2>5. CASE Close \/ UNCHANGED vars
    BY <2>5 DEF Close, vars
  <2> QED
    BY <2>1, <2>2, <2>3, <2>4, <2>5 DEF Next
<1> QED
  BY <1>1, <1>2, CollectInvariance, PTL DEF Spec

\* A Collect that has not got all its answers always has one of its own to
\* work on, or a connection to go on with, or another goroutine holds the
\* connections and can give its own back: that one waits for nobody.
NeverAllWaiting ==
    \A r \in Request :
        request[r] = "waiting" =>
            \/ \A k \in Enabled : pc[<<r, k>>] = "done"
            \/ \E k \in Enabled :
                 \/ pc[<<r, k>>] \in {"next", "query", "failed"}
                 \/ pc[<<r, k>>] = "acquire" /\ (closed \/ Cardinality(Holding) < MaxOpen)
            \/ \E t \in Task : pc[t] = "query"

\* Requests never all wait for connections, whatever their number and the limit:
\* if no goroutine reads an answer, none holds a connection, and one that waits
\* may have it.
THEOREM NeverAllWaitingHolds == Spec => []NeverAllWaiting
<1>1. IInv /\ StartedFor => NeverAllWaiting
  <2> SUFFICES ASSUME IInv, StartedFor,
                      NEW r \in Request, request[r] = "waiting",
                      NEW k \in Enabled, pc[<<r, k>>] # "done",
                      \A t \in Task : pc[t] # "query"
               PROVE  \/ pc[<<r, k>>] \in {"next", "query", "failed"}
                      \/ /\ pc[<<r, k>>] = "acquire"
                         /\ closed \/ Cardinality(Holding) < MaxOpen
    BY DEF NeverAllWaiting
  <2>1. <<r, k>> \in Task
    BY DEF Task
  <2>2. pc[<<r, k>>] \in {"next", "acquire", "failed"}
    BY <2>1 DEF IInv, TypeOK, StartedFor
  <2>3. Holding = {}
    BY DEF Holding
  <2>4. Cardinality(Holding) < MaxOpen
    BY <2>3, FS_EmptySet, CollectorsAssumption
  <2> QED
    BY <2>2, <2>4
<1> QED
  BY <1>1, CollectInvariance, StartedForHolds, PTL
=============================================================================
