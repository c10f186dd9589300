----------------------------- MODULE Lifecycle -----------------------------
(***************************************************************************)
(* The process (cmd/postgres_exporter/main.go) around the registry of      *)
(* Servers.tla: it finds its data sources, creates the PostgresCollector   *)
(* once, serves requests, and on a signal shuts the HTTP server down, for  *)
(* which net/http starts the hook in a goroutine and waits for the         *)
(* requests, up to a deadline.  It does not wait for the hook.             *)
(*                                                                         *)
(* A request scrapes the configured DSNs one after the other.  A signal    *)
(* that comes before main listens for it just ends the process and is left *)
(* out.                                                                    *)
(***************************************************************************)
EXTENDS Servers, DataSources

CONSTANTS
    Malformed,    \* the DSNs that are not accepted
    First,        \* the first DSN of DATA_SOURCE_NAME, and that of DATA_SOURCE_URI
    Environment   \* the environments the exporter may find

ASSUME LifecycleAssumption ==
    /\ Malformed \subseteq DSN
    /\ First \in DSN
    /\ Environment \subseteq Environments

VARIABLES
    env,     \* the environment, until it has been read
    dsns,    \* main's "dsns" and Exporter.dsn
    main,    \* where main is; "deaf" is waiting for a signal without a listener
    pgColl,  \* the PostgresCollector: "nil", "open" or "closed"
    active,  \* the requests being served
    left     \* the DSNs each of them has not called GetServer for

mainVars == <<env, dsns, main, pgColl, active, left>>
allVars == <<vars, mainVars>>

\* The process is over: it returned from main, called os.Exit(1), or panicked.
Ended == {"returned", "failed", "panicked"}

ProcessTypeOK ==
    /\ TypeOK
    /\ env \subseteq Environment
    /\ dsns \subseteq DSN
    /\ main \in {"boot", "start", "serve", "deaf", "shutdown"} \cup Ended
    /\ pgColl \in {"nil", "open", "closed"}
    /\ active \subseteq Scrape
    /\ left \in [Scrape -> SUBSET DSN]

ProcessInit ==
    /\ Init
    /\ \A d \in DSN : health[d] = "malformed" <=> d \in Malformed
    /\ target = [s \in Server |-> First] /\ dsn = [c \in Scrape |-> First]
    /\ \E e \in Environment : env = {e}
    /\ dsns = {}
    /\ main = "boot"
    /\ pgColl = "nil"
    /\ active = {}
    /\ left = [c \in Scrape |-> {}]

-----------------------------------------------------------------------------
\* main

\* getDataSources: an error ends the process, and so does a panic.
ReadSources(e) ==
    /\ main = "boot"
    /\ env' = {}
    /\ LET sources == GetDataSources(e) IN
         /\ dsns' = CASE sources = "name" -> DSN
                       [] sources = "uri"  -> {First}
                       [] OTHER            -> {}
         /\ main' = CASE sources = "error" -> "failed"
                       [] sources = "panic" -> "panicked"
                       [] OTHER             -> "start"
    /\ UNCHANGED <<vars, pgColl, active, left>>

\* NewPostgresCollector asks the database for its version, for as long as that
\* takes.
CreateCollector ==
    /\ main = "start"
    /\ dsns # {}
    /\ health[First] = "up"
    /\ pgColl' = "open"
    /\ main' = "serve"
    /\ UNCHANGED <<vars, env, dsns, active, left>>

\* An error is logged and the exporter serves without it.
CreateCollectorFails ==
    /\ main = "start"
    /\ dsns = {} \/ health[First] \in {"down", "malformed"}
    /\ main' = "serve"
    /\ UNCHANGED <<vars, env, dsns, pgColl, active, left>>

\* web.ListenAndServe fails: logged, and main waits for a signal all the same.
ListenFails ==
    /\ main = "serve"
    /\ main' = "deaf"
    /\ UNCHANGED <<vars, env, dsns, pgColl, active, left>>

\* SIGINT or SIGTERM: srv.Shutdown closes the listeners and starts the hook.
Signal ==
    /\ main \in {"serve", "deaf"}
    /\ main' = "shutdown"
    /\ HookStarts
    /\ UNCHANGED <<env, dsns, pgColl, active, left>>

\* Every connection is idle: Shutdown returns, and main with it.
Drained ==
    /\ main = "shutdown"
    /\ active = {}
    /\ main' = "returned"
    /\ UNCHANGED <<vars, env, dsns, pgColl, active, left>>

\* Mutant of DeadlinePasses: Shutdown is given a context without a deadline.
NoDeadline == FALSE /\ UNCHANGED allVars

\* Thirty seconds have passed.
DeadlinePasses ==
    /\ main = "shutdown"
    /\ main' = "failed"
    /\ UNCHANGED <<vars, env, dsns, pgColl, active, left>>

\* After Servers.Close the hook calls pgColl.Close, which dereferences pgColl.
HookClosesCollector ==
    /\ hook = "done"
    /\ pgColl = "open"
    /\ pgColl' = "closed"
    /\ UNCHANGED <<vars, env, dsns, main, active, left>>

HookPanics ==
    /\ hook = "done"
    /\ pgColl = "nil"
    /\ main' = "panicked"
    /\ UNCHANGED <<vars, env, dsns, pgColl, active, left>>

-----------------------------------------------------------------------------
\* Requests

Begin(c) ==
    /\ main = "serve"
    /\ c \notin active
    /\ active' = active \cup {c}
    /\ left' = [left EXCEPT ![c] = dsns]
    /\ UNCHANGED <<vars, env, dsns, main, pgColl>>

ScrapeNext(c) ==
    /\ c \in active
    /\ \E d \in left[c] :
         /\ First \in left[c] => d = First
         /\ Call(c, d)
         /\ left' = [left EXCEPT ![c] = @ \ {d}]
    /\ UNCHANGED <<env, dsns, main, pgColl, active>>

\* Mutant of Respond: the handler of a scrape that failed does not return.
RespondIfServed(c) ==
    /\ c \in active
    /\ pc[c] = "idle"
    /\ left[c] = {}
    /\ health[dsn[c]] # "malformed"
    /\ active' = active \ {c}
    /\ UNCHANGED <<vars, env, dsns, main, pgColl, left>>

Respond(c) ==
    /\ c \in active
    /\ pc[c] = "idle"
    /\ left[c] = {}
    /\ active' = active \ {c}
    /\ UNCHANGED <<vars, env, dsns, main, pgColl, left>>

\* The steps of a request that wait for no other goroutine, and those of the
\* hook, which are those of Servers.tla.
RequestStep(c) ==
    \/ ScrapeNext(c)
    \/ (GetServerStep(c) \/ Release(c)) /\ UNCHANGED mainVars
    \/ Respond(c)

LockStep(c) == Lock(c) /\ UNCHANGED mainVars

HookStep ==
    \/ CloseStep /\ UNCHANGED mainVars
    \/ HookClosesCollector
    \/ HookPanics

HookLockStep == HookLocks /\ UNCHANGED mainVars

MainStep ==
    \/ \E e \in env : ReadSources(e)
    \/ CreateCollector
    \/ CreateCollectorFails
    \/ Drained

Running == main \notin Ended

ProcessNext ==
    /\ Running
    /\ \/ MainStep
       \/ ListenFails
       \/ Signal
       \/ DeadlinePasses
       \/ HookLockStep
       \/ HookStep
       \/ \E c \in Scrape : Begin(c) \/ LockStep(c) \/ RequestStep(c)
       \/ \E d \in DSN : HealthChanges(d) /\ UNCHANGED mainVars

ProcessSpec == ProcessInit /\ [][ProcessNext]_allVars

\* As in Servers.tla while the process runs; main runs too, and time passes.
ProcessFairness ==
    /\ WF_allVars(Running /\ MainStep) /\ WF_allVars(Running /\ DeadlinePasses)
    /\ SF_allVars(Running /\ HookLockStep) /\ WF_allVars(Running /\ HookStep)
    /\ \A c \in Scrape :
         SF_allVars(Running /\ LockStep(c)) /\ WF_allVars(Running /\ RequestStep(c))

FairProcessSpec == ProcessSpec /\ ProcessFairness

-----------------------------------------------------------------------------
\* Properties

\* Once asked to, the process ends: not even a database that hangs, with a
\* request and the hook waiting for it and for each other, holds it up.
ShutdownEnds == main = "shutdown" ~> main \in Ended

\* A request is answered, or the process ends, if from some time on no database
\* hangs: nothing a hanging database leaves behind holds it up.
RequestEnds ==
    Answering =>
        \A c \in Scrape : c \in active ~> c \notin active \/ main \in Ended

\* Whoever configures everything needs no Vault: the exporter starts with its
\* data sources whatever Vault does.
ConfiguredStarts ==
    [][main = "boot" /\ main' # "boot" =>
        \A e \in env :
            e.name \/ {Contents(e.user), Contents(e.pass), Contents(e.uri)} = {"given"}
                => main' = "start" /\ First \in dsns']_allVars

\* "gracefully shutting down HTTP server": a signal never makes it panic.
NeverPanics == main # "panicked"
=============================================================================
