------------------------------ MODULE Exporter ------------------------------
(***************************************************************************)
(* Exporter.scrape (cmd/postgres_exporter/postgres_exporter.go) with       *)
(* discoverDatabaseDSNs and scrapeDSN (datasource.go), run by concurrent   *)
(* requests over the registry of ServerPool.                               *)
(*                                                                         *)
(* GetServer is the pool's Open, Lend and Drop; every query a scrape sends *)
(* with the server it was lent succeeds while that server is open and the  *)
(* database up, and fails otherwise.  The PostgreSQL version does not      *)
(* change here (MetricMap.tla): a map that was built is kept.              *)
(***************************************************************************)
EXTENDS ServerPool, Naturals, FiniteSets

CONSTANTS
    Malformed,        \* the DSNs that are not accepted
    Configured,       \* Exporter.dsn
    Databases,        \* the DSNs queryDatabases leads to from a configured one
    AutoDiscover,     \* Exporter.autoDiscoverDatabases
    DisableSettings,  \* Exporter.disableSettingsMetrics
    MaxOutages        \* bound: how many times a database goes down

ASSUME ExporterAssumption ==
    /\ Malformed \subseteq DSN
    /\ Configured \subseteq DSN
    /\ IsFiniteSet(Configured)
    /\ Databases \in [Configured -> SUBSET DSN]
    /\ \A d \in Configured : IsFiniteSet(Databases[d])
    /\ AutoDiscover \in BOOLEAN
    /\ DisableSettings \in BOOLEAN
    /\ MaxOutages \in Nat

VARIABLES
    master,    \* Server.master
    metricMap, \* Server.metricMap: "nil", without ("empty") or with ("default")
               \* the built-in metrics
    pc,        \* where each scrape is
    todo,      \* the DSNs its loop has not reached
    cur,       \* the DSN its loop is at
    dsns,      \* the DSNs it is to scrape
    failed,    \* the DSNs that failed: errorsCount
    refused,   \* those that could not be connected to: connectionErrorsCount
    exposed,   \* the DSNs whose built-in metrics it sent
    psqlUp,    \* the gauge up
    errors,    \* the gauge last_scrape_error
    outages    \* how many times a database went down

serverVars == <<master, metricMap>>
localVars == <<pc, todo, cur, dsns, failed, refused, exposed>>
gauges == <<psqlUp, errors>>
vars == <<poolVars, serverVars, localVars, gauges, outages>>

TypeOK ==
    /\ PoolTypeOK
    /\ master \in [Server -> BOOLEAN]
    /\ metricMap \in [Server -> {"nil", "empty", "default"}]
    /\ pc \in [Scrape -> {"idle", "discover", "discoverGet", "list",
                          "loop", "get", "check", "read", "report"}]
    /\ todo \in [Scrape -> SUBSET DSN]
    /\ cur \in [Scrape -> DSN]
    /\ dsns \in [Scrape -> SUBSET DSN]
    /\ failed \in [Scrape -> SUBSET DSN]
    /\ refused \in [Scrape -> SUBSET DSN]
    /\ exposed \in [Scrape -> SUBSET DSN]
    /\ psqlUp \in {0, 1}
    /\ errors \in {0, 1}
    /\ outages \in 0..MaxOutages

Init ==
    /\ PoolInit
    /\ \A d \in DSN :
         /\ health[d] # "hung"
         /\ health[d] = "malformed" <=> d \in Malformed
    /\ master = [s \in Server |-> FALSE]
    /\ metricMap = [s \in Server |-> "nil"]
    /\ pc = [c \in Scrape |-> "idle"]
    /\ todo = [c \in Scrape |-> {}]
    /\ \E d \in DSN : cur = [c \in Scrape |-> d]
    /\ dsns = [c \in Scrape |-> {}]
    /\ failed = [c \in Scrape |-> {}]
    /\ refused = [c \in Scrape |-> {}]
    /\ exposed = [c \in Scrape |-> {}]
    /\ psqlUp = 0
    /\ errors = 0
    /\ outages = 0

Goto(c, label) == pc' = [pc EXCEPT ![c] = label]

-----------------------------------------------------------------------------
\* GetServer(cur[c]), up to what the caller does with the answer

InGetServer(c) == pc[c] \in {"discoverGet", "get"}

\* A new Server is no master and has no map.
NewServer(c, s) ==
    /\ InGetServer(c)
    /\ Open(cur[c], s)
    /\ master' = [master EXCEPT ![s] = FALSE]
    /\ metricMap' = [metricMap EXCEPT ![s] = "nil"]
    /\ UNCHANGED <<localVars, gauges, outages>>

GetServerSucceeds(c) == Lend(c, cur[c])

GetServerFails(c) ==
    \/ health[cur[c]] = "malformed" /\ UNCHANGED poolVars
    \/ Drop(cur[c])

\* A query on the server the scrape was lent.
Answers(c) == lent[c] \in open /\ health[cur[c]] = "up"

-----------------------------------------------------------------------------
\* discoverDatabaseDSNs

Begin(c) ==
    /\ pc[c] = "idle"
    /\ Goto(c, IF AutoDiscover THEN "discover" ELSE "loop")
    /\ todo' = [todo EXCEPT ![c] = Configured]
    /\ dsns' = [dsns EXCEPT ![c] = IF AutoDiscover THEN {} ELSE Configured]
    /\ UNCHANGED <<poolVars, serverVars, cur, failed, refused, exposed, gauges, outages>>

Discover(c, d) ==
    /\ pc[c] = "discover"
    /\ d \in todo[c]
    /\ todo' = [todo EXCEPT ![c] = @ \ {d}]
    /\ cur' = [cur EXCEPT ![c] = d]
    /\ Goto(c, "discoverGet")
    /\ UNCHANGED <<poolVars, serverVars, dsns, failed, refused, exposed, gauges, outages>>

\* "set first dsn as master database": every configured DSN is one.
DiscoverConnects(c) ==
    /\ pc[c] = "discoverGet"
    /\ GetServerSucceeds(c)
    /\ dsns' = [dsns EXCEPT ![c] = @ \cup {cur[c]}]
    /\ master' = [master EXCEPT ![servers[cur[c]]] = TRUE]
    /\ Goto(c, "list")
    /\ UNCHANGED <<metricMap, todo, cur, failed, refused, exposed, gauges, outages>>

\* A configured DSN that cannot be connected to is logged and left out.
DiscoverFails(c) ==
    /\ pc[c] = "discoverGet"
    /\ GetServerFails(c)
    /\ Goto(c, "discover")
    /\ UNCHANGED <<serverVars, todo, cur, dsns, failed, refused, exposed, gauges, outages>>

\* queryDatabases: an error is logged, a list that is cut short (rows.Err is
\* not looked at) is taken for the whole.
ListDatabases(c) ==
    /\ pc[c] = "list"
    /\ \E found \in SUBSET Databases[cur[c]] :
         /\ Answers(c) => found = Databases[cur[c]]
         /\ dsns' = [dsns EXCEPT ![c] = @ \cup found]
    /\ Return(c)
    /\ Goto(c, "discover")
    /\ UNCHANGED <<serverVars, todo, cur, failed, refused, exposed, gauges, outages>>

Discovered(c) ==
    /\ pc[c] = "discover"
    /\ todo[c] = {}
    /\ todo' = [todo EXCEPT ![c] = dsns[c]]
    /\ Goto(c, "loop")
    /\ UNCHANGED <<poolVars, serverVars, cur, dsns, failed, refused, exposed, gauges, outages>>

-----------------------------------------------------------------------------
\* scrapeDSN

ScrapeDSN(c, d) ==
    /\ pc[c] = "loop"
    /\ d \in todo[c]
    /\ todo' = [todo EXCEPT ![c] = @ \ {d}]
    /\ cur' = [cur EXCEPT ![c] = d]
    /\ Goto(c, "get")
    /\ UNCHANGED <<poolVars, serverVars, dsns, failed, refused, exposed, gauges, outages>>

\* Mutant of Connects: a scraped server is a master, also with discovery.
ConnectsAsMaster(c) ==
    /\ pc[c] = "get"
    /\ GetServerSucceeds(c)
    /\ master' = [master EXCEPT ![servers[cur[c]]] = TRUE]
    /\ Goto(c, "check")
    /\ UNCHANGED <<metricMap, todo, cur, dsns, failed, refused, exposed, gauges, outages>>

Connects(c) ==
    /\ pc[c] = "get"
    /\ GetServerSucceeds(c)
    /\ master' = IF AutoDiscover THEN master
                 ELSE [master EXCEPT ![servers[cur[c]]] = TRUE]
    /\ Goto(c, "check")
    /\ UNCHANGED <<metricMap, todo, cur, dsns, failed, refused, exposed, gauges, outages>>

\* Mutant of Refused: only the connection errors are counted.
RefusedNoError(c) ==
    /\ pc[c] = "get"
    /\ GetServerFails(c)
    /\ refused' = [refused EXCEPT ![c] = @ \cup {cur[c]}]
    /\ Goto(c, "loop")
    /\ UNCHANGED <<serverVars, todo, cur, dsns, failed, exposed, gauges, outages>>

\* ErrorConnectToServer
Refused(c) ==
    /\ pc[c] = "get"
    /\ GetServerFails(c)
    /\ failed' = [failed EXCEPT ![c] = @ \cup {cur[c]}]
    /\ refused' = [refused EXCEPT ![c] = @ \cup {cur[c]}]
    /\ Goto(c, "loop")
    /\ UNCHANGED <<serverVars, todo, cur, dsns, exposed, gauges, outages>>

\* Mutant of CheckMapVersions: a map is made although the version is unknown.
CheckMapVersionsUnknown(c) ==
    /\ pc[c] = "check"
    /\ metricMap' = IF metricMap[lent[c]] = "nil"
                      THEN [metricMap EXCEPT ![lent[c]] =
                              IF Answers(c) /\ master[lent[c]] THEN "default" ELSE "empty"]
                      ELSE metricMap
    /\ Goto(c, "read")
    /\ UNCHANGED <<poolVars, master, todo, cur, dsns, failed, refused, exposed, gauges, outages>>

\* The first checkMapVersions that learns the version builds the map; one that
\* does not is ignored.
CheckMapVersions(c) ==
    /\ pc[c] = "check"
    /\ metricMap' = IF Answers(c) /\ metricMap[lent[c]] = "nil"
                      THEN [metricMap EXCEPT ![lent[c]] =
                              IF master[lent[c]] THEN "default" ELSE "empty"]
                      ELSE metricMap
    /\ Goto(c, "read")
    /\ UNCHANGED <<poolVars, master, todo, cur, dsns, failed, refused, exposed, gauges, outages>>

\* Server.Scrape queries something: the settings or a namespace.
Queries(s) ==
    \/ ~DisableSettings /\ master[s]
    \/ metricMap[s] = "default"

Read(c) ==
    /\ pc[c] = "read"
    /\ exposed' = IF Answers(c) /\ metricMap[lent[c]] = "default"
                    THEN [exposed EXCEPT ![c] = @ \cup {cur[c]}] ELSE exposed
    /\ failed' = IF Queries(lent[c]) /\ ~Answers(c)
                   THEN [failed EXCEPT ![c] = @ \cup {cur[c]}] ELSE failed
    /\ Return(c)
    /\ Goto(c, "loop")
    /\ UNCHANGED <<serverVars, todo, cur, dsns, refused, gauges, outages>>

\* Mutant of ReportUp: the last DSN of all cannot bring up to 0.
ReportUpOffByOne(c) ==
    /\ pc[c] = "loop"
    /\ todo[c] = {}
    /\ psqlUp' = IF Cardinality(refused[c]) > Cardinality(dsns[c]) THEN 0 ELSE 1
    /\ Goto(c, "report")
    /\ UNCHANGED <<poolVars, serverVars, todo, cur, dsns, failed, refused, exposed, errors, outages>>

\* The first switch at the end of scrape.  No lock keeps another scrape from
\* setting the gauges before the second.
ReportUp(c) ==
    /\ pc[c] = "loop"
    /\ todo[c] = {}
    /\ psqlUp' = IF Cardinality(refused[c]) >= Cardinality(dsns[c]) THEN 0 ELSE 1
    /\ Goto(c, "report")
    /\ UNCHANGED <<poolVars, serverVars, todo, cur, dsns, failed, refused, exposed, errors, outages>>

\* The gauge last_scrape_error is set and the locals of the scrape are gone.
Ends(c, error) ==
    /\ pc[c] = "report"
    /\ errors' = error
    /\ Goto(c, "idle")
    /\ dsns' = [dsns EXCEPT ![c] = {}]
    /\ failed' = [failed EXCEPT ![c] = {}]
    /\ refused' = [refused EXCEPT ![c] = {}]
    /\ exposed' = [exposed EXCEPT ![c] = {}]
    /\ UNCHANGED <<poolVars, serverVars, todo, cur, psqlUp, outages>>

\* Mutant of ReportErrors: the number of failed DSNs is no flag.
ReportErrorsCounts(c) == Ends(c, Cardinality(failed[c]))

\* Mutant of ReportErrors: a scrape without an error does not reset the gauge.
ReportErrorsSticky(c) == Ends(c, IF failed[c] = {} THEN errors ELSE 1)

\* Mutant of ReportErrors: an error is only reported if every DSN failed.
ReportErrorsAllFailed(c) ==
    Ends(c, IF Cardinality(failed[c]) < Cardinality(dsns[c]) THEN 0 ELSE 1)

\* The second switch.
ReportErrors(c) == Ends(c, IF failed[c] = {} THEN 0 ELSE 1)

-----------------------------------------------------------------------------
\* A database goes down or comes back; it does not hang here (Servers.tla).
Environment(d) ==
    /\ HealthChanges(d)
    /\ health'[d] # "hung"
    /\ outages' = IF health'[d] = "down" THEN outages + 1 ELSE outages
    /\ outages' <= MaxOutages
    /\ UNCHANGED <<serverVars, localVars, gauges>>

\* The steps of a scrape once it has begun.
Step(c) ==
    \/ \E s \in Server : NewServer(c, s)
    \/ \E d \in DSN : Discover(c, d) \/ ScrapeDSN(c, d)
    \/ DiscoverConnects(c)
    \/ DiscoverFails(c)
    \/ ListDatabases(c)
    \/ Discovered(c)
    \/ Connects(c)
    \/ Refused(c)
    \/ CheckMapVersions(c)
    \/ Read(c)
    \/ ReportUp(c)
    \/ ReportErrors(c)

Next ==
    \/ \E c \in Scrape : Begin(c) \/ Step(c)
    \/ \E d \in DSN : Environment(d)

Spec == Init /\ [][Next]_vars

\* A scrape that has begun goes on (Servers.tla: GetServerReturns), and
\* Prometheus scrapes again and again.
Fairness == \A c \in Scrape : WF_vars(Step(c)) /\ WF_vars(Begin(c))

FairSpec == Spec /\ Fairness

-----------------------------------------------------------------------------
\* Properties

\* The built-in metrics, which describe the instance, come from the configured
\* DSNs only: a database that was merely discovered never repeats them.
DefaultOnlyFromConfigured ==
    \A s \in open : metricMap[s] = "default" => target[s] \in Configured

\* Where a scrape is for ScrapeGauges, and what became of its DSNs.
Stage(c) ==
    CASE pc[c] \in {"idle", "discover", "discoverGet", "list"} -> "idle"
      [] pc[c] \in {"loop", "get", "check", "read"}            -> "working"
      [] pc[c] = "report"                                      -> "reporting"

Result(c, d) ==
    IF Stage(c) = "idle" \/ d \notin dsns[c] THEN "out"
    ELSE IF d \in todo[c] \/ (d = cur[c] /\ pc[c] \in {"get", "check", "read"}) THEN "todo"
    ELSE IF d \in refused[c] THEN "refused"
    ELSE IF d \in failed[c] THEN "failed"
    ELSE "scraped"

Gauges == INSTANCE ScrapeGauges WITH
    stage <- [c \in Scrape |-> Stage(c)],
    result <- [c \in Scrape |-> [d \in DSN |-> Result(c, d)]]

\* Whatever scrapes overlap, up and last_scrape_error are only ever set from
\* the complete results of one scrape: 0 and 1 when none of its DSNs could be
\* connected to, with or without discovery, and 1 for any that failed.
ImplementsGauges == Gauges!GaugeSpec

\* "Whether the last scrape ... resulted in an error": 0 means that every DSN's
\* metrics were exposed.
NoErrorMeansExposed ==
    [][\A c \in Scrape :
         pc[c] = "report" /\ pc'[c] = "idle" /\ errors' = 0 =>
             exposed[c] = dsns[c]]_vars

\* The DSNs a scrape gets to if every database answers.
Targets ==
    IF AutoDiscover
      THEN (Configured \ Malformed) \cup UNION {Databases[d] : d \in Configured \ Malformed}
      ELSE Configured

AllUp == \A d \in Targets \ Malformed : health[d] = "up"
AllDown == \A d \in Targets \ Malformed : health[d] = "down"

\* Once the databases are up for good, scrapes expose the built-in metrics of
\* every configured DSN again and again ("Get Default Metrics only for master
\* database"): no interleaving of scrapes and outages loses them.
DefaultMetricsReturn ==
    <>[]AllUp =>
        \A d \in Configured \ Malformed : []<>(\E c \in Scrape : d \in exposed[c])

\* ... and up and last_scrape_error say so for good, unless a DSN is malformed.
GaugesRecover ==
    <>[]AllUp =>
        <>[](psqlUp = 1 /\ (errors = 0 <=> Targets \cap Malformed = {}))

\* An outage of all databases shows in up for good, whatever servers are still
\* registered and whatever discovery finds.
OutageReported == <>[]AllDown => <>[](psqlUp = 0)

-----------------------------------------------------------------------------
\* The inductive invariants behind the safety properties (ExporterProofs.tla).

\* A registered server was opened with the DSN it is registered under.
RegisteredAtTarget ==
    \A d \in DSN : servers[d] \in Server => target[servers[d]] = d

\* Discovery goes through the configured DSNs, and so does a scrape that does
\* not discover any.
ConfiguredWork ==
    /\ \A c \in Scrape :
         /\ pc[c] \in {"discover", "discoverGet", "list"} => AutoDiscover
         /\ pc[c] \in {"discover", "discoverGet", "list"} \/ ~AutoDiscover =>
               todo[c] \subseteq Configured
         /\ pc[c] \in {"discoverGet", "list"} => cur[c] \in Configured
         /\ pc[c] \in {"get", "check", "read"} /\ ~AutoDiscover => cur[c] \in Configured

\* Only a server of a configured DSN is a master or has the built-in metrics.
MasterConfigured ==
    \A s \in Server :
        /\ master[s] => target[s] \in Configured
        /\ metricMap[s] = "default" => target[s] \in Configured

\* The DSNs of a scrape are those it has not reached, the one it is at, and
\* those it is done with, the failed ones among them.
Accounted ==
    \A c \in Scrape :
        /\ IsFiniteSet(dsns[c])
        /\ refused[c] \subseteq failed[c]
        /\ pc[c] \in {"idle", "discover", "discoverGet", "list"} => failed[c] = {}
        /\ pc[c] \in {"loop", "get", "check", "read", "report"} =>
              /\ todo[c] \cup failed[c] \subseteq dsns[c]
              /\ todo[c] \cap failed[c] = {}
        /\ pc[c] \in {"get", "check", "read"} =>
              cur[c] \in dsns[c] \ (todo[c] \cup failed[c])
        /\ pc[c] = "report" => todo[c] = {}

IInv ==
    /\ TypeOK
    /\ RegisteredAtTarget
    /\ ConfiguredWork
    /\ MasterConfigured
    /\ Accounted
=============================================================================
