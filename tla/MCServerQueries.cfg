\* Five versions, at each of which a query, a column or a view appeared or went
\* away; five user queries files and a broken one; the default prefix and another.
CONSTANTS
    Version = {901, 902, 904, 1000, 1600}
    Prefix = {"pg", "db"}
    Broken = Broken
    Files <- UserFiles
    Reports <- SettingsReports
SPECIFICATION Spec
INVARIANTS TypeOK BuiltinsFit UniqueSeries  
