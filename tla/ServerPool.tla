----------------------------- MODULE ServerPool -----------------------------
(***************************************************************************)
(* What the registry of connection pools promises to the scrapes, without  *)
(* its mutex, its retry loop or the order of its calls.                    *)
(*                                                                         *)
(* A Server is one *sql.DB (cmd/postgres_exporter/server.go).  A server is *)
(* opened straight into the registry; a scrape is only ever handed the     *)
(* server registered for its DSN, and only while it is open and its        *)
(* database answers; a server leaves the registry exactly when it is       *)
(* closed, except at shutdown, where the servers are closed in place.      *)
(*                                                                         *)
(* Servers.tla, the detailed model of the code, implements this module;    *)
(* the models of a scrape are built on it.                                 *)
(***************************************************************************)
CONSTANTS
    Scrape,     \* the request goroutines that ask for servers
    DSN,        \* the data source names
    Server,     \* the identities of Server objects
    NoServer    \* the nil *Server

ASSUME PoolAssumption == NoServer \notin Server

VARIABLES
    servers,  \* the registry: DSN -> its server, or NoServer
    open,     \* the servers whose *sql.DB is open
    target,   \* the DSN a server was opened with
    lent,     \* the server each scrape works with, or NoServer
    health,   \* how a DSN answers now
    closing   \* TRUE once the registry is being shut down

poolVars == <<servers, open, target, lent, health, closing>>

\* A database answers, refuses or hangs; sql.Open or parseFingerprint rejects a
\* malformed DSN whatever its database does.
AnyHealth == {"up", "down", "hung", "malformed"}

PoolTypeOK ==
    /\ servers \in [DSN -> Server \cup {NoServer}]
    /\ open \subseteq Server
    /\ target \in [Server -> DSN]
    /\ lent \in [Scrape -> Server \cup {NoServer}]
    /\ health \in [DSN -> AnyHealth]
    /\ closing \in BOOLEAN

PoolInit ==
    /\ servers = [d \in DSN |-> NoServer]
    /\ open = {}
    /\ \E d \in DSN : target = [s \in Server |-> d]
    /\ lent = [c \in Scrape |-> NoServer]
    /\ health \in [DSN -> AnyHealth]
    /\ closing = FALSE

\* A Server nothing refers to: its memory may become a new Server.
Unreferenced(s) ==
    /\ s \notin open
    /\ \A d \in DSN : servers[d] # s
    /\ \A c \in Scrape : lent[c] # s

Open(d, s) ==
    /\ health[d] # "malformed"
    /\ servers[d] = NoServer
    /\ Unreferenced(s)
    /\ servers' = [servers EXCEPT ![d] = s]
    /\ target' = [target EXCEPT ![s] = d]
    /\ open' = open \cup {s}
    /\ UNCHANGED <<lent, health, closing>>

\* A server that does not answer, or was closed, is closed and forgotten.
Drop(d) ==
    /\ servers[d] \in Server
    /\ servers[d] \in open => health[d] = "down"
    /\ open' = open \ {servers[d]}
    /\ servers' = [servers EXCEPT ![d] = NoServer]
    /\ UNCHANGED <<target, lent, health, closing>>

Lend(c, d) ==
    /\ lent[c] = NoServer
    /\ servers[d] \in open
    /\ health[d] = "up"
    /\ lent' = [lent EXCEPT ![c] = servers[d]]
    /\ UNCHANGED <<servers, open, target, health, closing>>

Return(c) ==
    /\ lent[c] # NoServer
    /\ lent' = [lent EXCEPT ![c] = NoServer]
    /\ UNCHANGED <<servers, open, target, health, closing>>

BeginShutdown ==
    /\ closing' = TRUE
    /\ UNCHANGED <<servers, open, target, lent, health>>

\* Shutdown closes a registered server and leaves it registered.
Disconnect(d) ==
    /\ closing
    /\ servers[d] \in Server
    /\ open' = open \ {servers[d]}
    /\ UNCHANGED <<servers, target, lent, health, closing>>

\* The database behind d starts or stops answering.
HealthChanges(d) ==
    /\ health[d] # "malformed"
    /\ \E h \in AnyHealth \ {"malformed"} : health' = [health EXCEPT ![d] = h]
    /\ UNCHANGED <<servers, open, target, lent, closing>>

PoolNext ==
    \/ \E d \in DSN, s \in Server : Open(d, s)
    \/ \E d \in DSN : Drop(d) \/ Disconnect(d) \/ HealthChanges(d)
    \/ \E c \in Scrape, d \in DSN : Lend(c, d)
    \/ \E c \in Scrape : Return(c)
    \/ BeginShutdown

PoolSpec == PoolInit /\ [][PoolNext]_poolVars
=============================================================================
