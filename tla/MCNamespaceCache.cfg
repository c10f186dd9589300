\* Two overlapping scrapes of a cached and an uncached namespace, either
\* of which may be disabled.
CONSTANTS
    cached = cached
    plain = plain
    Scrape = {s1, s2}
    Namespace = {cached, plain}
    CacheSeconds <- Seconds
    MasterOnly = {cached}
    Nothing = Nothing
    MaxTime = 2
SYMMETRY Interchangeable
SPECIFICATION Spec
INVARIANTS TypeOK ExposedFresh RowsComeBack
