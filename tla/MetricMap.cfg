\* Two overlapping scrapes of one server, two versions, a user queries file,
\* and another server.
\* No symmetry: liveness.
CONSTANTS
    Scrape = {s1, s2}
    Version = {v1, v2}
    NoVersion = NoVersion
    NoMap = NoMap
    Nobody = Nobody
    Other = {o1}
    UserQueries = TRUE
SPECIFICATION ScrapedSpec
INVARIANTS TypeOK NeverScrapesNil MapVersionSeen LoadReported
PROPERTIES MapStableWhileRead ScrapeEnds MapConverges
