\* Two overlapping scrapes of two configured DSNs, one of them malformed.
CONSTANTS
    d1 = d1
    d2 = d2
    bad = bad
    Scrape = {s1, s2}
    DSN = {d1, bad}
    Malformed = {bad}
    Server = {v1, v2, v3}
    NoServer = NoServer
    Configured = {d1, bad}
    Databases <- Lists
    AutoDiscover = FALSE
    DisableSettings = TRUE
    MaxOutages = 1
SPECIFICATION FairSpec
PROPERTIES ImplementsGauges DefaultMetricsReturn GaugesRecover OutageReported
