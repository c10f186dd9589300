\* Two overlapping requests, each of two collectors, on a single connection.
CONSTANTS
    Request = {r1, r2}
    Enabled = {"database", "wal"}
    Update <- Updates
    MaxOpen = 1
SPECIFICATION FairSpec
INVARIANTS TypeOK StrictSuccessIsComplete
PROPERTIES CollectReturns
