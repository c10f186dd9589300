------------------------------ MODULE MetricMap ------------------------------
(***************************************************************************)
(* One Server's metric map, shared by concurrent scrapes:                  *)
(* Exporter.checkMapVersions (cmd/postgres_exporter/postgres_exporter.go)  *)
(* rebuilds it when PostgreSQL's version changed, and Server.Scrape        *)
(* (server.go) iterates over it.                                           *)
(*                                                                         *)
(* checkMapVersions compares versions WITHOUT mappingMtx and takes it to   *)
(* rebuild; Scrape holds it for reading while it iterates.  mappingMtx is  *)
(* a sync.RWMutex: a writer first announces itself, which holds up new     *)
(* readers, and then waits for the readers that are in.                    *)
(*                                                                         *)
(* The gauge user_queries_load_error is the Exporter's: the rebuilds of    *)
(* other servers, each under a mappingMtx of its own, reset and set it as  *)
(* well.  The server is a master (Exporter.tla has the master flag).       *)
(***************************************************************************)
EXTENDS Naturals

CONSTANTS
    Scrape,      \* the request goroutines using this server
    Version,     \* the versions PostgreSQL may be upgraded or restored to
    NoVersion,   \* the zero semver.Version
    NoMap,       \* the nil map
    Nobody,      \* the owner of a mutex nobody writes under
    Other,       \* the other servers
    UserQueries  \* TRUE if userQueriesPath is set

ASSUME MetricMapAssumption ==
    /\ NoVersion \notin Version
    /\ NoMap \notin [ver : Version, user : BOOLEAN]
    /\ Nobody \notin Scrape
    /\ UserQueries \in BOOLEAN

VARIABLES
    version,          \* what the database answers to SELECT version()
    file,             \* the user queries file
    metricMap,        \* Server.metricMap with Server.queryOverrides
    lastMapVersion,   \* Server.lastMapVersion
    userQueriesError, \* the gauge: the files that it has a series for, 0 for a good one
    resetting,        \* the other servers whose rebuild has reset it and not yet set it
    lastLoad,         \* history: the file that was loaded last, on any server
    writer,           \* the scrape that announced itself as writer, or Nobody
    pc,               \* where each scrape is
    seen,             \* the version the scrape was told, or NoVersion
    overlap           \* history: the versions told to scrapes overlapping it

gauge == <<userQueriesError, resetting, lastLoad>>
vars == <<version, file, metricMap, lastMapVersion, gauge, writer, pc, seen, overlap>>

\* A file is bad if it cannot be read or parsed.
File == {"good", "bad"}

\* The descriptions of a version, with or without those of the user queries.
Map == [ver : Version, user : BOOLEAN]

\* Between Lock and Unlock of mappingMtx.
Rebuilding == {"map", "version", "user", "unlock"}

TypeOK ==
    /\ version \in Version
    /\ file \in File
    /\ metricMap \in Map \cup {NoMap}
    /\ lastMapVersion \in Version \cup {NoVersion}
    /\ userQueriesError \subseteq File
    /\ resetting \subseteq Other
    /\ lastLoad \in File \cup {"none"}
    /\ writer \in Scrape \cup {Nobody}
    /\ pc \in [Scrape -> {"idle", "check", "announce", "drain", "rlock", "scrape"}
                            \cup Rebuilding]
    /\ seen \in [Scrape -> Version \cup {NoVersion}]
    /\ overlap \in [Scrape -> SUBSET Version]

Init ==
    /\ version \in Version
    /\ file \in File
    /\ metricMap = NoMap
    /\ lastMapVersion = NoVersion
    /\ userQueriesError = {}
    /\ resetting = {}
    /\ lastLoad = "none"
    /\ writer = Nobody
    /\ pc = [c \in Scrape |-> "idle"]
    /\ seen = [c \in Scrape |-> NoVersion]
    /\ overlap = [c \in Scrape |-> {}]

Goto(c, label) == pc' = [pc EXCEPT ![c] = label]

-----------------------------------------------------------------------------
\* checkMapVersions

\* checkPostgresVersion succeeds.
QueryVersion(c) ==
    /\ pc[c] = "idle"
    /\ Goto(c, "check")
    /\ seen' = [seen EXCEPT ![c] = version]
    /\ overlap' = [d \in Scrape |->
                     IF d = c THEN {seen[e] : e \in Scrape \ {c}} \ {NoVersion}
                     ELSE IF seen[d] # NoVersion THEN overlap[d] \cup {version}
                     ELSE overlap[d]]
    /\ UNCHANGED <<version, file, metricMap, lastMapVersion, gauge, writer>>

\* Mutant of QueryVersionFails: the error is not returned, the zero version is
\* taken for PostgreSQL's.
QueryVersionFailsUnnoticed(c) ==
    /\ pc[c] = "idle"
    /\ Goto(c, "check")
    /\ UNCHANGED <<version, file, metricMap, lastMapVersion, gauge, writer,
                   seen, overlap>>

\* It fails: scrapeDSN proceeds "with outdated query maps".
QueryVersionFails(c) ==
    /\ pc[c] = "idle"
    /\ Goto(c, "rlock")
    /\ UNCHANGED <<version, file, metricMap, lastMapVersion, gauge, writer,
                   seen, overlap>>

\* The comparison of line 639 reads two fields without the mutex.  The version
\* is several words long: read while a scrape writes it, it may differ from
\* both the old and the new one, or not differ from the caller's.
Differs(c) ==
    {lastMapVersion # seen[c]}
        \cup (IF \E w \in Scrape : pc[w] = "version" THEN BOOLEAN ELSE {})

\* Mutant of Check: the version is not compared, a map is built once.
CheckNilOnly(c) ==
    /\ pc[c] = "check"
    /\ IF metricMap = NoMap THEN Goto(c, "announce") ELSE Goto(c, "rlock")
    /\ UNCHANGED <<version, file, metricMap, lastMapVersion, gauge, writer,
                   seen, overlap>>

Check(c) ==
    /\ pc[c] = "check"
    /\ \E differs \in Differs(c) :
         IF differs \/ metricMap = NoMap THEN Goto(c, "announce") ELSE Goto(c, "rlock")
    /\ UNCHANGED <<version, file, metricMap, lastMapVersion, gauge, writer,
                   seen, overlap>>

\* mappingMtx.Lock: one writer at a time, readers are held up from here on ...
Announce(c) ==
    /\ pc[c] = "announce"
    /\ writer = Nobody
    /\ writer' = c
    /\ Goto(c, "drain")
    /\ UNCHANGED <<version, file, metricMap, lastMapVersion, gauge,
                   seen, overlap>>

\* Mutant of Drain: Lock does not wait for the readers.
DrainNobody(c) ==
    /\ pc[c] = "drain"
    /\ Goto(c, "map")
    /\ UNCHANGED <<version, file, metricMap, lastMapVersion, gauge, writer,
                   seen, overlap>>

\* ... and those that are in finish.
Drain(c) ==
    /\ pc[c] = "drain"
    /\ \A d \in Scrape : pc[d] # "scrape"
    /\ Goto(c, "map")
    /\ UNCHANGED <<version, file, metricMap, lastMapVersion, gauge, writer,
                   seen, overlap>>

\* makeDescMap and makeQueryOverrideMap for the version the scrape was told.
BuildMap(c) ==
    /\ pc[c] = "map"
    /\ metricMap' = [ver |-> seen[c], user |-> FALSE]
    /\ Goto(c, "version")
    /\ UNCHANGED <<version, file, lastMapVersion, gauge, writer, seen, overlap>>

SetVersion(c) ==
    /\ pc[c] = "version"
    /\ lastMapVersion' = seen[c]
    /\ Goto(c, IF UserQueries THEN "user" ELSE "unlock")
    /\ userQueriesError' = IF UserQueries THEN {} ELSE userQueriesError
    /\ UNCHANGED <<version, file, metricMap, resetting, lastLoad, writer, seen, overlap>>

\* Mutant of SetGauge: after a file that does not load the gauge is not set.
SetGaugeSilent ==
    /\ userQueriesError' = IF file = "good" THEN userQueriesError \cup {file}
                                             ELSE userQueriesError
    /\ lastLoad' = file

\* A file is loaded, successfully or not: it gets its series.
SetGauge ==
    /\ userQueriesError' = userQueriesError \cup {file}
    /\ lastLoad' = file

\* Mutant of AddQueries: the map becomes what a failed parse returns.
AddQueriesDropsMap(c) ==
    /\ pc[c] = "user"
    /\ metricMap' = IF file = "good" THEN [ver |-> metricMap.ver, user |-> TRUE] ELSE NoMap
    /\ SetGauge
    /\ Goto(c, "unlock")
    /\ UNCHANGED <<version, file, lastMapVersion, resetting, writer, seen, overlap>>

\* addQueries merges the user queries into the map in place, unless the file
\* cannot be read or parsed.
AddQueries(c) ==
    /\ pc[c] = "user"
    /\ metricMap' = IF file = "good" THEN [ver |-> metricMap.ver, user |-> TRUE]
                                       ELSE metricMap
    /\ SetGauge
    /\ Goto(c, "unlock")
    /\ UNCHANGED <<version, file, lastMapVersion, resetting, writer, seen, overlap>>

\* Mutant of Unlock: it is left out.
UnlockForgotten(c) ==
    /\ pc[c] = "unlock"
    /\ Goto(c, "rlock")
    /\ UNCHANGED <<version, file, metricMap, lastMapVersion, gauge, writer,
                   seen, overlap>>

Unlock(c) ==
    /\ pc[c] = "unlock"
    /\ writer' = Nobody
    /\ Goto(c, "rlock")
    /\ UNCHANGED <<version, file, metricMap, lastMapVersion, gauge,
                   seen, overlap>>

-----------------------------------------------------------------------------
\* Server.Scrape

RLock(c) ==
    /\ pc[c] = "rlock"
    /\ writer = Nobody
    /\ Goto(c, "scrape")
    /\ UNCHANGED <<version, file, metricMap, lastMapVersion, gauge, writer,
                   seen, overlap>>

\* The settings and every namespace of the map were queried.
RUnlock(c) ==
    /\ pc[c] = "scrape"
    /\ Goto(c, "idle")
    /\ seen' = [seen EXCEPT ![c] = NoVersion]
    /\ overlap' = [overlap EXCEPT ![c] = {}]
    /\ UNCHANGED <<version, file, metricMap, lastMapVersion, gauge, writer>>

-----------------------------------------------------------------------------
\* A rebuild of another server: it resets the gauge ...
OtherResets(o) ==
    /\ UserQueries
    /\ o \notin resetting
    /\ resetting' = resetting \cup {o}
    /\ userQueriesError' = {}
    /\ UNCHANGED <<version, file, metricMap, lastMapVersion, lastLoad, writer, pc, seen, overlap>>

\* ... and sets it.
OtherSets(o) ==
    /\ o \in resetting
    /\ resetting' = resetting \ {o}
    /\ SetGauge
    /\ UNCHANGED <<version, file, metricMap, lastMapVersion, writer, pc, seen, overlap>>

-----------------------------------------------------------------------------
\* The database is upgraded or replaced, the file is edited.
Environment ==
    /\ \/ version' \in Version /\ file' = file
       \/ UserQueries /\ file' \in File /\ version' = version
    /\ UNCHANGED <<metricMap, lastMapVersion, gauge, writer, pc, seen, overlap>>

\* The steps of a scrape that is under way and waits for nobody.
ScrapeStep(c) ==
    \/ Check(c)
    \/ BuildMap(c)
    \/ SetVersion(c)
    \/ AddQueries(c)
    \/ Unlock(c)
    \/ RUnlock(c)

Next ==
    \/ \E c \in Scrape :
        \/ QueryVersion(c)
        \/ QueryVersionFails(c)
        \/ Announce(c)
        \/ Drain(c)
        \/ RLock(c)
        \/ ScrapeStep(c)
    \/ \E o \in Other : OtherResets(o) \/ OtherSets(o)
    \/ Environment

Spec == Init /\ [][Next]_vars

\* A goroutine that can run runs, and sync.RWMutex lets neither readers nor
\* writers starve: readers held up by a writer go before the next writer.
Fairness ==
    \A c \in Scrape :
        /\ WF_vars(ScrapeStep(c)) /\ WF_vars(Drain(c))
        /\ SF_vars(Announce(c)) /\ SF_vars(RLock(c))

FairSpec == Spec /\ Fairness

\* Prometheus keeps scraping, and PostgreSQL answers now and then.
ScrapedSpec == FairSpec /\ \A c \in Scrape : SF_vars(QueryVersion(c))

-----------------------------------------------------------------------------
\* Properties

\* While a scrape iterates over the map no other scrape replaces it or merges
\* queries into it (which would crash the process), so what it exposes is the
\* map of one version with its user queries.
MapStableWhileRead ==
    [][(\E c \in Scrape : pc[c] = "scrape") =>
           UNCHANGED <<metricMap, lastMapVersion>>]_vars

\* A scrape that was told the version never runs without a map, although it
\* looked for one before it took the mutex.
NeverScrapesNil ==
    \A c \in Scrape :
        pc[c] = "scrape" /\ seen[c] # NoVersion => metricMap # NoMap

\* The map a scrape uses was built for the version it was told, or for the one
\* told to a scrape that overlapped it: comparing versions outside the mutex
\* costs no more than that.
MapVersionSeen ==
    \A c \in Scrape :
        pc[c] = "scrape" /\ seen[c] # NoVersion =>
            metricMap.ver \in {seen[c]} \cup overlap[c]

\* Unless a server is about to set the gauge user_queries_load_error, it shows how the
\* last load of the file ended, although every server resets and sets it without a mutex
\* that the others take: what is reset is set again.
LoadReported ==
    resetting = {} /\ (\A c \in Scrape : pc[c] # "user") /\ lastLoad # "none" =>
        lastLoad \in userQueriesError

\* Every scrape gets through the mutex and ends.
ScrapeEnds == \A c \in Scrape : pc[c] # "idle" ~> pc[c] = "idle"

\* Once the version is stable the map follows it for good: a slow scrape may
\* put an older map back, but not again and again.
MapConverges ==
    \A v \in Version : <>[](version = v) => <>[](lastMapVersion = v)

-----------------------------------------------------------------------------
\* The inductive invariant behind the safety properties (MetricMapProofs.tla).

\* Announced and not yet unlocked: the writer, while the map is rebuilt no
\* scrape reads it.
WriterExcludes ==
    /\ \A c \in Scrape : pc[c] \in {"drain"} \cup Rebuilding <=> writer = c
    /\ \A c, d \in Scrape : pc[c] \in Rebuilding => pc[d] # "scrape"

\* A scrape that compares or rebuilds was told a version, an idle one forgot it.
ToldVersion ==
    \A c \in Scrape :
        /\ pc[c] \in {"check", "announce", "drain"} \cup Rebuilding => seen[c] # NoVersion
        /\ pc[c] = "idle" => seen[c] = NoVersion

\* overlap holds what the scrapes now under way were told.
OverlapComplete ==
    \A c, d \in Scrape :
        c # d /\ seen[c] # NoVersion /\ seen[d] # NoVersion => seen[d] \in overlap[c]

\* The map and lastMapVersion agree but while a scrape is between writing the
\* one and the other, and then the map is that scrape's.
VersionsAgree ==
    /\ \A c \in Scrape :
         pc[c] \in {"version", "user", "unlock"} =>
             metricMap # NoMap /\ metricMap.ver = seen[c]
    /\ metricMap # NoMap /\ (\A c \in Scrape : pc[c] # "version") =>
           metricMap.ver = lastMapVersion

\* From the moment a scrape has checked the version, or rebuilt the map, the
\* map is one it may use.
MapUsable ==
    \A c \in Scrape :
        pc[c] \in {"rlock", "scrape"} /\ seen[c] # NoVersion =>
            /\ metricMap # NoMap
            /\ metricMap.ver \in {seen[c]} \cup overlap[c]

IInv ==
    /\ TypeOK
    /\ WriterExcludes
    /\ ToldVersion
    /\ OverlapComplete
    /\ VersionsAgree
    /\ MapUsable
    /\ LoadReported
=============================================================================
