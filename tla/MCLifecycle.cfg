\* Two requests of a DSN that may hang and of a malformed one, in every
\* environment.  The process ends: no deadlock check.
CONSTANTS
    Scrape = {s1, s2}
    DSN = {d1, bad}
    Malformed = {bad}
    First = d1
    Server = {v1, v2}
    NoServer = NoServer
    Hook = Hook
    Nobody = Nobody
    Retries = 1
    Health = {"up", "down", "hung", "malformed"}
    Environment <- Varied
SPECIFICATION FairProcessSpec
INVARIANTS ProcessTypeOK
PROPERTIES ConfiguredStarts ShutdownEnds RequestEnds
CHECK_DEADLOCK FALSE
