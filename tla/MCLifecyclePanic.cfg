\* One request, and a database that is down or up when the exporter starts.
CONSTANTS
    Scrape = {s1}
    DSN = {d1}
    Malformed = {}
    First = d1
    Server = {v1, v2}
    NoServer = NoServer
    Hook = Hook
    Nobody = Nobody
    Retries = 1
    Health = {"up", "down"}
    Environment <- Named
SPECIFICATION ProcessSpec
INVARIANTS NeverPanics
CHECK_DEADLOCK FALSE
