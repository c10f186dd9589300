\* One scrape of one DSN that goes down once.
CONSTANTS
    d1 = d1
    d2 = d2
    bad = bad
    Scrape = {s1}
    DSN = {d1}
    Malformed = {}
    Server = {v1, v2}
    NoServer = NoServer
    Configured = {d1}
    Databases <- Lists
    AutoDiscover = FALSE
    DisableSettings = FALSE
    MaxOutages = 1
SPECIFICATION Spec
PROPERTIES NoErrorMeansExposed
