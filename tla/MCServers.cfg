\* Two scrapes, two DSNs that may be malformed or hang, and the shutdown hook; two attempts
\* to connect, so that the loop of GetServer comes round.  No symmetry: liveness.
CONSTANTS
    Scrape = {s1, s2}
    DSN = {d1, d2}
    Server = {v1, v2, v3}
    NoServer = NoServer
    Hook = Hook
    Nobody = Nobody
    Retries = 2
    Health = {"up", "down", "hung", "malformed"}
SPECIFICATION FairSpec
INVARIANTS TypeOK NoLeak NoStaleServer
PROPERTIES CloseDisconnectsAll ImplementsPool GetServerReturns CloseReturns Recovers
CHECK_DEADLOCK TRUE
