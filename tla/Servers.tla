------------------------------- MODULE Servers -------------------------------
(***************************************************************************)
(* cmd/postgres_exporter/server.go: the Servers registry, its mutex, the   *)
(* retry loop of GetServer, and Servers.Close run by the shutdown hook.    *)
(*                                                                         *)
(* A scrape is a request goroutine running Exporter.scrape: it calls       *)
(* GetServer for one DSN after the other and uses the server it is given   *)
(* after the mutex is released.  Any number of scrapes run at once.  The   *)
(* databases behind the DSNs come and go.                                  *)
(*                                                                         *)
(* A definition introduced by "Mutant of X" is no part of the              *)
(* specification: it is X with a plausible bug, put in X's place to see    *)
(* that the properties notice.                                             *)
(***************************************************************************)
EXTENDS Naturals

CONSTANTS
    Scrape, DSN, Server, NoServer,
    Hook,      \* the goroutine of the HTTP server's shutdown hook
    Nobody,    \* the owner of an unlocked mutex
    Retries,   \* GetServer's "retries" (1 in the code)
    Health     \* how a DSN may answer: a subset of ServerPool's AnyHealth

ASSUME ServersAssumption ==
    /\ NoServer \notin Server
    /\ Hook \notin Scrape
    /\ Nobody \notin Scrape \cup {Hook}
    /\ Retries \in Nat \ {0}
    /\ Health \subseteq {"up", "down", "hung", "malformed"}

VARIABLES
    m,        \* the goroutine holding Servers.m, or Nobody
    servers,  \* Servers.servers
    open,     \* the servers whose *sql.DB has not been closed
    target,   \* the dsn NewServer was called with
    health,   \* how a DSN answers now
    pc,       \* where each scrape is
    dsn,      \* GetServer's argument
    server,   \* GetServer's local variable, then the scrape's server
    errCount, \* GetServer's attempt counter, 0 outside of GetServer
    hook,     \* where the shutdown hook is
    todo      \* the servers Close has not reached yet

vars == <<m, servers, open, target, health, pc, dsn, server, errCount, hook, todo>>

-----------------------------------------------------------------------------
\* The labels of a scrape between Lock and the deferred Unlock of GetServer.
Critical == {"lookup", "ping", "sleep"}

TypeOK ==
    /\ m \in Scrape \cup {Hook, Nobody}
    /\ servers \in [DSN -> Server \cup {NoServer}]
    /\ open \subseteq Server
    /\ target \in [Server -> DSN]
    /\ health \in [DSN -> Health]
    /\ pc \in [Scrape -> {"idle", "lock", "use"} \cup Critical]
    /\ dsn \in [Scrape -> DSN]
    /\ server \in [Scrape -> Server \cup {NoServer}]
    /\ errCount \in [Scrape -> 0..Retries]
    /\ hook \in {"idle", "lock", "closing", "done"}
    /\ todo \subseteq Server

Init ==
    /\ m = Nobody
    /\ servers = [d \in DSN |-> NoServer]
    /\ open = {}
    /\ \E d \in DSN : target = [s \in Server |-> d]
    /\ health \in [DSN -> Health]
    /\ pc = [c \in Scrape |-> "idle"]
    /\ \E d \in DSN : dsn = [c \in Scrape |-> d]
    /\ server = [c \in Scrape |-> NoServer]
    /\ errCount = [c \in Scrape |-> 0]
    /\ hook = "idle"
    /\ todo = {}

-----------------------------------------------------------------------------
\* GetServer

\* A scrape asks for the server of d and waits for the mutex.
Call(c, d) ==
    /\ pc[c] = "idle"
    /\ pc' = [pc EXCEPT ![c] = "lock"]
    /\ dsn' = [dsn EXCEPT ![c] = d]
    /\ UNCHANGED <<m, servers, open, target, health, server, errCount, hook, todo>>

\* Mutant of Lock: the mutex is taken but not held while the database is pinged.
LockNotHeld(c) ==
    /\ pc[c] = "lock"
    /\ m = Nobody
    /\ pc' = [pc EXCEPT ![c] = "lookup"]
    /\ errCount' = [errCount EXCEPT ![c] = 1]
    /\ UNCHANGED <<m, servers, open, target, health, dsn, server, hook, todo>>

Lock(c) ==
    /\ pc[c] = "lock"
    /\ m = Nobody
    /\ m' = c
    /\ pc' = [pc EXCEPT ![c] = "lookup"]
    /\ errCount' = [errCount EXCEPT ![c] = 1]
    /\ UNCHANGED <<servers, open, target, health, dsn, server, hook, todo>>

\* The registry knows the DSN.
Lookup(c) ==
    /\ pc[c] = "lookup"
    /\ servers[dsn[c]] # NoServer
    /\ server' = [server EXCEPT ![c] = servers[dsn[c]]]
    /\ pc' = [pc EXCEPT ![c] = "ping"]
    /\ UNCHANGED <<m, servers, open, target, health, dsn, errCount, hook, todo>>

\* Nothing points to s any more: the runtime may hand its memory out again.
Unreferenced(s) ==
    /\ s \notin open \cup todo
    /\ \A d \in DSN : servers[d] # s
    /\ \A c \in Scrape : server[c] # s

\* The registry does not: NewServer, and the new server is registered before
\* anything was sent to the database (sql.Open does not connect).
NewServer(c, s) ==
    /\ pc[c] = "lookup"
    /\ servers[dsn[c]] = NoServer
    /\ health[dsn[c]] # "malformed"
    /\ Unreferenced(s)
    /\ open' = open \cup {s}
    /\ target' = [target EXCEPT ![s] = dsn[c]]
    /\ servers' = [servers EXCEPT ![dsn[c]] = s]
    /\ server' = [server EXCEPT ![c] = s]
    /\ pc' = [pc EXCEPT ![c] = "ping"]
    /\ UNCHANGED <<m, health, dsn, errCount, hook, todo>>

NewServerFails(c) ==
    /\ pc[c] = "lookup"
    /\ servers[dsn[c]] = NoServer
    /\ health[dsn[c]] = "malformed"
    /\ pc' = [pc EXCEPT ![c] = "sleep"]
    /\ UNCHANGED <<m, servers, open, target, health, dsn, server, errCount, hook, todo>>

\* Ping succeeds: the deferred Unlock runs and the server is the caller's.
PingSucceeds(c) ==
    /\ pc[c] = "ping"
    /\ server[c] \in open
    /\ health[dsn[c]] = "up"
    /\ m' = Nobody
    /\ pc' = [pc EXCEPT ![c] = "use"]
    /\ errCount' = [errCount EXCEPT ![c] = 0]
    /\ UNCHANGED <<servers, open, target, health, dsn, server, hook, todo>>

\* Mutant of PingFails: the server is closed but stays in the registry.
PingFailsKeepsServer(c) ==
    /\ pc[c] = "ping"
    /\ server[c] \in open => health[dsn[c]] = "down"
    /\ open' = open \ {server[c]}
    /\ server' = [server EXCEPT ![c] = NoServer]
    /\ pc' = [pc EXCEPT ![c] = "sleep"]
    /\ UNCHANGED <<m, servers, target, health, dsn, errCount, hook, todo>>

\* Ping fails on a closed *sql.DB and on a database that refuses.  It closes
\* the server, and GetServer forgets it.  A database that hangs does neither:
\* Ping has no deadline.
PingFails(c) ==
    /\ pc[c] = "ping"
    /\ server[c] \in open => health[dsn[c]] = "down"
    /\ open' = open \ {server[c]}
    /\ servers' = [servers EXCEPT ![dsn[c]] = NoServer]
    /\ server' = [server EXCEPT ![c] = NoServer]
    /\ pc' = [pc EXCEPT ![c] = "sleep"]
    /\ UNCHANGED <<m, target, health, dsn, errCount, hook, todo>>

\* Mutant of Retry: one attempt too many.
RetryOnceMore(c) ==
    /\ pc[c] = "sleep"
    /\ errCount[c] <= Retries
    /\ errCount' = [errCount EXCEPT ![c] = @ + 1]
    /\ pc' = [pc EXCEPT ![c] = "lookup"]
    /\ UNCHANGED <<m, servers, open, target, health, dsn, server, hook, todo>>

\* The sleep, with the mutex held, before the next attempt ...
Retry(c) ==
    /\ pc[c] = "sleep"
    /\ errCount[c] < Retries
    /\ errCount' = [errCount EXCEPT ![c] = @ + 1]
    /\ pc' = [pc EXCEPT ![c] = "lookup"]
    /\ UNCHANGED <<m, servers, open, target, health, dsn, server, hook, todo>>

\* Mutant of GiveUp: the error return does not unlock.
GiveUpLocked(c) ==
    /\ pc[c] = "sleep"
    /\ errCount[c] >= Retries
    /\ pc' = [pc EXCEPT ![c] = "idle"]
    /\ UNCHANGED <<m, servers, open, target, health, dsn, server, errCount, hook, todo>>

\* ... or before GetServer gives up.
GiveUp(c) ==
    /\ pc[c] = "sleep"
    /\ errCount[c] >= Retries
    /\ m' = Nobody
    /\ pc' = [pc EXCEPT ![c] = "idle"]
    /\ errCount' = [errCount EXCEPT ![c] = 0]
    /\ UNCHANGED <<servers, open, target, health, dsn, server, hook, todo>>

\* The scrape is done with the server.
Release(c) ==
    /\ pc[c] = "use"
    /\ pc' = [pc EXCEPT ![c] = "idle"]
    /\ server' = [server EXCEPT ![c] = NoServer]
    /\ UNCHANGED <<m, servers, open, target, health, dsn, errCount, hook, todo>>

-----------------------------------------------------------------------------
\* Servers.Close, called by the hook registered with srv.RegisterOnShutdown.

HookStarts ==
    /\ hook = "idle"
    /\ hook' = "lock"
    /\ UNCHANGED <<m, servers, open, target, health, pc, dsn, server, errCount, todo>>

\* Mutant of HookLocks: Close iterates over the map without the mutex.
HookLocksNothing ==
    /\ hook = "lock"
    /\ hook' = "closing"
    /\ todo' = {servers[d] : d \in DSN} \ {NoServer}
    /\ UNCHANGED <<m, servers, open, target, health, pc, dsn, server, errCount>>

HookLocks ==
    /\ hook = "lock"
    /\ m = Nobody
    /\ m' = Hook
    /\ hook' = "closing"
    /\ todo' = {servers[d] : d \in DSN} \ {NoServer}
    /\ UNCHANGED <<servers, open, target, health, pc, dsn, server, errCount>>

\* Close leaves the closed server registered.
HookCloses(s) ==
    /\ hook = "closing"
    /\ s \in todo
    /\ open' = open \ {s}
    /\ todo' = todo \ {s}
    /\ UNCHANGED <<m, servers, target, health, pc, dsn, server, errCount, hook>>

HookReturns ==
    /\ hook = "closing"
    /\ todo = {}
    /\ m' = Nobody
    /\ hook' = "done"
    /\ UNCHANGED <<servers, open, target, health, pc, dsn, server, errCount, todo>>

-----------------------------------------------------------------------------
HealthChanges(d) ==
    /\ health[d] # "malformed"
    /\ \E h \in Health \ {"malformed"} : health' = [health EXCEPT ![d] = h]
    /\ UNCHANGED <<m, servers, open, target, pc, dsn, server, errCount, hook, todo>>

\* The steps of a scrape inside GetServer that wait for no other goroutine.
GetServerStep(c) ==
    \/ Lookup(c)
    \/ \E s \in Server : NewServer(c, s)
    \/ NewServerFails(c)
    \/ PingSucceeds(c)
    \/ PingFails(c)
    \/ Retry(c)
    \/ GiveUp(c)

CloseStep ==
    \/ \E s \in Server : HookCloses(s)
    \/ HookReturns

Next ==
    \/ \E c \in Scrape :
        \/ \E d \in DSN : Call(c, d)
        \/ Lock(c)
        \/ GetServerStep(c)
        \/ Release(c)
    \/ HookStarts
    \/ HookLocks
    \/ CloseStep
    \/ \E d \in DSN : HealthChanges(d)

Spec == Init /\ [][Next]_vars

\* A goroutine that can run runs.  sync.Mutex queues its waiters first in,
\* first out once one has waited a millisecond, so a waiter is served although
\* others keep locking: strong fairness.  Nothing makes a scrape start, a
\* database recover or the process stop.
Fairness ==
    /\ \A c \in Scrape : SF_vars(Lock(c)) /\ WF_vars(GetServerStep(c))
    /\ SF_vars(HookLocks) /\ WF_vars(CloseStep)

FairSpec == Spec /\ Fairness

-----------------------------------------------------------------------------
\* Properties

\* Every open connection pool is the registered one of its DSN, so there is
\* no leaked pool and a DSN never has two (its connections are bounded by one
\* max-connections): Ping's close and GetServer's delete and insert agree,
\* whatever scrapes and Close interleave.
NoLeak == \A s \in open : servers[target[s]] = s

\* Until Close starts, the registry holds no closed server: the next GetServer
\* of a DSN whose database is up is not refused because of an old failure.
NoStaleServer ==
    hook \in {"idle", "lock"} =>
        \A d \in DSN : servers[d] # NoServer => servers[d] \in open

\* "Close disconnects from all known servers": when it returns no pool is
\* open, not even one that a scrape was opening when Close was called.
CloseDisconnectsAll ==
    [][hook = "closing" /\ hook' = "done" => open' = {}]_vars

\* The scrapes see the registry of ServerPool: they are lent only the open,
\* registered server of a DSN that answered, and no step outside GetServer,
\* Ping and Close touches the registry.
Pool == INSTANCE ServerPool WITH
    lent <- [c \in Scrape |-> IF pc[c] = "use" THEN server[c] ELSE NoServer],
    closing <- hook # "idle"

ImplementsPool == Pool!PoolSpec

\* From some time on every database answers or refuses.
Answering == <>[](\A d \in DSN : health[d] # "hung")

\* Then GetServer returns, however many goroutines compete for the mutex that
\* is held across pings and sleeps, and whatever was hanging before.
GetServerReturns ==
    Answering => \A c \in Scrape : pc[c] = "lock" ~> pc[c] \in {"use", "idle"}

\* So does the Close of the shutdown hook.
CloseReturns == Answering => (hook = "lock" ~> hook = "done")

\* A database that is back for good stops failing scrapes: a server closed by
\* a failed ping, or by Close, is replaced and does not fail every later ping.
Recovers ==
    \A d \in DSN :
        <>[](health[d] = "up")
            => <>[](\A c \in Scrape : dsn[c] = d => pc[c] # "sleep")

-----------------------------------------------------------------------------
\* The inductive invariant behind the safety properties (ServersProofs.tla).

\* The mutex is owned by the goroutine that is between its Lock and Unlock.
MutexHeld ==
    /\ \A c \in Scrape : pc[c] \in Critical <=> m = c
    /\ hook = "closing" <=> m = Hook

\* What a caller pings is what the registry holds for its DSN.
PingsRegistered ==
    \A c \in Scrape :
        pc[c] = "ping" => /\ server[c] \in Server
                          /\ servers[dsn[c]] = server[c]

\* A server is registered under the DSN it was opened with, hence once.
RegisteredAtTarget ==
    \A d \in DSN : servers[d] \in Server => target[servers[d]] = d

\* While Close runs, the servers it still has to close are registered, and
\* the open ones are among them.
CloseReachesOpen ==
    hook = "closing" => /\ open \subseteq todo
                        /\ \A s \in todo : servers[target[s]] = s

\* A scrape between two calls holds no server.
UseHoldsServer ==
    \A c \in Scrape :
        /\ pc[c] = "use" => server[c] \in Server
        /\ pc[c] \in {"idle", "lock", "lookup", "sleep"} => server[c] = NoServer

IInv ==
    /\ TypeOK
    /\ MutexHeld
    /\ PingsRegistered
    /\ RegisteredAtTarget
    /\ NoLeak
    /\ NoStaleServer
    /\ CloseReachesOpen
    /\ UseHoldsServer
=============================================================================
