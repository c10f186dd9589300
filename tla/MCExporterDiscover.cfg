\* One scrape after the other, discovery on one of two DSNs.
CONSTANTS
    d1 = d1
    d2 = d2
    bad = bad
    Scrape = {s1}
    DSN = {d1, d2}
    Malformed = {}
    Server = {v1, v2, v3}
    NoServer = NoServer
    Configured = {d1}
    Databases <- Lists
    AutoDiscover = TRUE
    DisableSettings = FALSE
    MaxOutages = 4
SPECIFICATION FairSpec
INVARIANTS TypeOK DefaultOnlyFromConfigured
PROPERTIES ImplementsGauges DefaultMetricsReturn GaugesRecover OutageReported
