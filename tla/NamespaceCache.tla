--------------------------- MODULE NamespaceCache ---------------------------
(***************************************************************************)
(* queryNamespaceMappings (cmd/postgres_exporter/namespace.go) run by      *)
(* concurrent scrapes of one Server: which namespaces are queried, which   *)
(* are served from Server.metricCache, what a failed query leaves behind   *)
(* and what the scrape reports.                                            *)
(*                                                                         *)
(* The map iteration order is random, the cache is read and written under  *)
(* cacheMtx but the query between the two is not.  One deadline covers the *)
(* queries of a scrape: once it has passed they fail, as any query may.    *)
(* The rows of an answer may end early and nobody asks why.  The metrics   *)
(* of a namespace are abstracted to how much of the database's answer they *)
(* hold and to when it was asked.                                          *)
(*                                                                         *)
(* Server.runonserver, which nothing sets, is left out.                    *)
(***************************************************************************)
EXTENDS Naturals

CONSTANTS
    Scrape,       \* the request goroutines scraping this server
    Namespace,    \* the namespaces of the metric map
    CacheSeconds, \* MetricMapNamespace.cacheSeconds
    MasterOnly,   \* the namespaces with MetricMapNamespace.master
    Nothing,      \* no cache entry, no metrics yet, no namespace
    MaxTime       \* bound: the clock stops here

ASSUME CacheAssumption ==
    /\ CacheSeconds \in [Namespace -> Nat]
    /\ MasterOnly \subseteq Namespace
    /\ MaxTime \in Nat
    /\ Nothing \notin Namespace
    /\ Nothing \notin Nat
    /\ Nothing \notin [rows : {"all", "some", "none"}, at : Nat]
    /\ Nothing \notin [metrics : [rows : {"all", "some", "none"}, at : Nat],
                       lastScrape : Nat]

VARIABLES
    now,          \* the clock
    master,       \* Server.master
    disabled,     \* the namespaces whose query override is ""
    metricCache,  \* Server.metricCache
    pc,           \* where each scrape is
    scrapeStart,  \* when it started
    todo,         \* the namespaces its loop has not reached
    at,           \* the namespace it is at, or Nothing
    metrics,      \* what it has sent for each namespace, or Nothing
    failed,       \* namespaceErrors: the namespaces whose query failed
    lastShort     \* history: when a query of each last yielded less than all

vars == <<now, master, disabled, metricCache, pc, scrapeStart, todo, at, metrics, failed,
          lastShort>>

\* "all": every row the database has; "some": the rows before a row or a
\* column that could not be read; "none": no row.
Metrics == [rows : {"all", "some", "none"}, at : Nat]

Entry == [metrics : Metrics, lastScrape : Nat]

TypeOK ==
    /\ now \in Nat
    /\ master \in BOOLEAN
    /\ disabled \subseteq Namespace
    /\ metricCache \in [Namespace -> Entry \cup {Nothing}]
    /\ pc \in [Scrape -> {"idle", "loop", "query", "store"}]
    /\ scrapeStart \in [Scrape -> Nat]
    /\ todo \in [Scrape -> SUBSET Namespace]
    /\ at \in [Scrape -> Namespace \cup {Nothing}]
    /\ metrics \in [Scrape -> [Namespace -> Metrics \cup {Nothing}]]
    /\ failed \in [Scrape -> SUBSET Namespace]
    /\ lastShort \in [Namespace -> Nat \cup {Nothing}]

Init ==
    /\ now = 0
    /\ master \in BOOLEAN
    /\ disabled \in SUBSET Namespace
    /\ metricCache = [n \in Namespace |-> Nothing]
    /\ pc = [c \in Scrape |-> "idle"]
    /\ scrapeStart = [c \in Scrape |-> 0]
    /\ todo = [c \in Scrape |-> {}]
    /\ at = [c \in Scrape |-> Nothing]
    /\ metrics = [c \in Scrape |-> [n \in Namespace |-> Nothing]]
    /\ failed = [c \in Scrape |-> {}]
    /\ lastShort = [n \in Namespace |-> Nothing]

Goto(c, label) == pc' = [pc EXCEPT ![c] = label]

-----------------------------------------------------------------------------
Begin(c) ==
    /\ pc[c] = "idle"
    /\ Goto(c, "loop")
    /\ scrapeStart' = [scrapeStart EXCEPT ![c] = now]
    /\ todo' = [todo EXCEPT ![c] = Namespace]
    /\ UNCHANGED <<now, master, disabled, metricCache, at, metrics, failed, lastShort>>

\* A namespace for masters only, on a server that is none.
Skip(c, n) ==
    /\ pc[c] = "loop"
    /\ n \in todo[c]
    /\ n \in MasterOnly /\ ~master
    /\ todo' = [todo EXCEPT ![c] = @ \ {n}]
    /\ UNCHANGED <<now, master, disabled, metricCache, pc, scrapeStart, at, metrics,
                  failed, lastShort>>

\* The entry is found and not older than cacheSeconds; an entry stored by a
\* scrape that started later counts as fresh.
Fresh(c, n) ==
    /\ metricCache[n] # Nothing
    /\ scrapeStart[c] <= metricCache[n].lastScrape + CacheSeconds[n]

Queried(n) == n \in MasterOnly => master

ServeCached(c, n) ==
    /\ pc[c] = "loop"
    /\ n \in todo[c]
    /\ Queried(n)
    /\ Fresh(c, n)
    /\ metrics' = [metrics EXCEPT ![c][n] = metricCache[n].metrics]
    /\ todo' = [todo EXCEPT ![c] = @ \ {n}]
    /\ UNCHANGED <<now, master, disabled, metricCache, pc, scrapeStart, at,
                  failed, lastShort>>

Miss(c, n) ==
    /\ pc[c] = "loop"
    /\ n \in todo[c]
    /\ Queried(n)
    /\ ~Fresh(c, n)
    /\ at' = [at EXCEPT ![c] = n]
    /\ todo' = [todo EXCEPT ![c] = @ \ {n}]
    /\ Goto(c, "query")
    /\ UNCHANGED <<now, master, disabled, metricCache, scrapeStart, metrics,
                  failed, lastShort>>

\* The namespace c is at was answered, with every row or not.
Answered(c, rows) ==
    lastShort' = [lastShort EXCEPT ![at[c]] = IF rows = "all" THEN @ ELSE now]

\* Mutant of Answer: a failed query returns no slice at all.
AnswerNil(c, rows, fails) ==
    /\ pc[c] = "query"
    /\ metrics' = [metrics EXCEPT ![c][at[c]] =
                     IF fails THEN Nothing ELSE [rows |-> rows, at |-> now]]
    /\ failed' = [failed EXCEPT ![c] = IF fails THEN @ \cup {at[c]} ELSE @]
    /\ Answered(c, rows)
    /\ Goto(c, "store")
    /\ UNCHANGED <<now, master, disabled, metricCache, scrapeStart, todo, at>>

\* queryNamespaceMappingWithContext returns rows and fails or not, and the
\* metrics are emitted.
Answer(c, rows, fails) ==
    /\ pc[c] = "query"
    /\ metrics' = [metrics EXCEPT ![c][at[c]] = [rows |-> rows, at |-> now]]
    /\ failed' = [failed EXCEPT ![c] = IF fails THEN @ \cup {at[c]} ELSE @]
    /\ Answered(c, rows)
    /\ Goto(c, "store")
    /\ UNCHANGED <<now, master, disabled, metricCache, scrapeStart, todo, at>>

\* A disabled query succeeds with nothing.
QueryDisabled(c) ==
    /\ at[c] \in disabled
    /\ Answer(c, "none", FALSE)

QuerySucceeds(c) ==
    /\ at[c] \notin disabled
    /\ Answer(c, "all", FALSE)

\* The rows end early, before the first or after it (the connection was lost or
\* the deadline passed: rows.Err is not looked at), or a column does not parse.
\* No error is returned.
QueryTruncated(c) ==
    /\ at[c] \notin disabled
    /\ \E rows \in {"some", "none"} : Answer(c, rows, FALSE)

\* Mutant of QueryFails: the first failure ends the loop.
QueryFailsEndsLoop(c) ==
    /\ at[c] \notin disabled
    /\ pc[c] = "query"
    /\ failed' = [failed EXCEPT ![c] = @ \cup {at[c]}]
    /\ Answered(c, "none")
    /\ at' = [at EXCEPT ![c] = Nothing]
    /\ todo' = [todo EXCEPT ![c] = {}]
    /\ Goto(c, "loop")
    /\ UNCHANGED <<now, master, disabled, metricCache, scrapeStart, metrics>>

\* The query, the deadline or a row's Scan fails: what was read is dropped.
QueryFails(c) ==
    /\ at[c] \notin disabled
    /\ Answer(c, "none", TRUE)

\* Mutant of Store: the entry is stamped with the time it is stored at.
StoreStampsNow(c) ==
    /\ pc[c] = "store"
    /\ metricCache' = IF CacheSeconds[at[c]] > 0
                        THEN [metricCache EXCEPT ![at[c]] =
                                [metrics |-> metrics[c][at[c]], lastScrape |-> now]]
                        ELSE metricCache
    /\ at' = [at EXCEPT ![c] = Nothing]
    /\ Goto(c, "loop")
    /\ UNCHANGED <<now, master, disabled, scrapeStart, todo, metrics, failed, lastShort>>

\* The result of a query is cached whether it failed or not.
Store(c) ==
    /\ pc[c] = "store"
    /\ metricCache' = IF CacheSeconds[at[c]] > 0
                        THEN [metricCache EXCEPT ![at[c]] =
                                [metrics |-> metrics[c][at[c]],
                                 lastScrape |-> scrapeStart[c]]]
                        ELSE metricCache
    /\ at' = [at EXCEPT ![c] = Nothing]
    /\ Goto(c, "loop")
    /\ UNCHANGED <<now, master, disabled, scrapeStart, todo, metrics, failed, lastShort>>

\* The number of failed namespaces is returned and the locals are gone.
End(c) ==
    /\ pc[c] = "loop"
    /\ todo[c] = {}
    /\ Goto(c, "idle")
    /\ scrapeStart' = [scrapeStart EXCEPT ![c] = 0]
    /\ metrics' = [metrics EXCEPT ![c] = [n \in Namespace |-> Nothing]]
    /\ failed' = [failed EXCEPT ![c] = {}]
    /\ UNCHANGED <<now, master, disabled, metricCache, todo, at, lastShort>>

-----------------------------------------------------------------------------
Tick ==
    /\ now < MaxTime
    /\ now' = now + 1
    /\ UNCHANGED <<master, disabled, metricCache, pc, scrapeStart, todo, at, metrics,
                  failed, lastShort>>

\* discoverDatabaseDSNs makes the server a master, between or during scrapes.
BecomeMaster ==
    /\ master' = TRUE
    /\ UNCHANGED <<now, disabled, metricCache, pc, scrapeStart, todo, at, metrics,
                  failed, lastShort>>

LoopStep(c) ==
    \/ \E n \in Namespace : Skip(c, n) \/ ServeCached(c, n) \/ Miss(c, n)
    \/ Store(c)
    \/ End(c)

QueryStep(c) ==
    \/ QueryDisabled(c)
    \/ QuerySucceeds(c)
    \/ QueryTruncated(c)
    \/ QueryFails(c)

Next ==
    \/ \E c \in Scrape : Begin(c) \/ LoopStep(c) \/ QueryStep(c)
    \/ Tick
    \/ BecomeMaster

Spec == Init /\ [][Next]_vars

-----------------------------------------------------------------------------
\* Properties

\* "Number of seconds this metric namespace can be cached": whatever scrapes
\* overlap and overwrite each other's entries, a scrape exposes nothing that
\* was read more than cacheSeconds before it started.
ExposedFresh ==
    \A c \in Scrape, n \in Namespace :
        metrics[c][n] # Nothing =>
            scrapeStart[c] <= metrics[c][n].at + CacheSeconds[n]

\* A failure is confined to its namespace and to its time.  The code retries
\* nothing, caches what a failed query left behind, and neither reports nor
\* counts an answer that was cut short.  Still, a scrape that started more than
\* cacheSeconds after the last such answer of a namespace, whoever got it, ends
\* with all rows of it, whatever fails beside it: only a namespace for masters
\* may be missing, and then all of it.
RowsComeBack ==
    \A c \in Scrape, n \in Namespace :
        /\ pc[c] = "loop" /\ todo[c] = {}
        /\ n \notin disabled
        /\ lastShort[n] # Nothing => lastShort[n] + CacheSeconds[n] < scrapeStart[c]
        => IF metrics[c][n] = Nothing
             THEN n \in MasterOnly
             ELSE metrics[c][n].rows = "all"

-----------------------------------------------------------------------------
\* The inductive invariant behind both (NamespaceCacheProofs.tla).

\* A scrape is at a namespace from the miss to the end of its turn, and has
\* something to store once the query was answered.
AtNamespace ==
    \A c \in Scrape :
        /\ pc[c] \in {"query", "store"} <=> at[c] # Nothing
        /\ pc[c] = "store" => metrics[c][at[c]] # Nothing
                              /\ scrapeStart[c] <= metrics[c][at[c]].at

\* Scrapes start in the past, and one that has not started sent nothing.
Started ==
    \A c \in Scrape :
        /\ scrapeStart[c] <= now
        /\ pc[c] = "idle" => metrics[c] = [n \in Namespace |-> Nothing]

\* An entry was read after the scrape started that stored it.
CacheSound ==
    \A n \in Namespace :
        metricCache[n] # Nothing =>
            metricCache[n].lastScrape <= metricCache[n].metrics.at

\* Metrics that lack rows come from a query that lastShort knows.
Known(n, m) ==
    m.rows # "all" => lastShort[n] # Nothing /\ m.at <= lastShort[n]

\* So do those in the cache and those that a scrape sent; and lastShort is not
\* ahead of the clock.
ShortKnown ==
    /\ \A n \in Namespace :
          /\ lastShort[n] # Nothing => lastShort[n] <= now
          /\ metricCache[n] # Nothing => Known(n, metricCache[n].metrics)
    /\ \A c \in Scrape, n \in Namespace :
          metrics[c][n] # Nothing => Known(n, metrics[c][n])

\* A scrape is done with a namespace for everybody only when it sent something,
\* if only the empty slice.
DoneSent ==
    \A c \in Scrape, n \in Namespace :
        pc[c] # "idle" /\ n \notin todo[c] /\ ~(pc[c] = "query" /\ at[c] = n)
            /\ n \notin MasterOnly =>
                metrics[c][n] # Nothing

IInv ==
    /\ TypeOK
    /\ AtNamespace
    /\ Started
    /\ CacheSound
    /\ ExposedFresh
    /\ ShortKnown
    /\ DoneSent
=============================================================================
