\* Two overlapping scrapes that discover databases; one outage.
CONSTANTS
    d1 = d1
    d2 = d2
    bad = bad
    Scrape = {s1, s2}
    DSN = {d1}
    Malformed = {}
    Server = {v1, v2, v3}
    NoServer = NoServer
    Configured = {d1}
    Databases <- Lists
    AutoDiscover = TRUE
    DisableSettings = FALSE
    MaxOutages = 1
SPECIFICATION FairSpec
PROPERTIES DefaultMetricsReturn
