\* One request of the collector that does not look at rows.Err.
CONSTANTS
    Request = {r1}
    Enabled = {"stat_database"}
    Update <- Updates
    MaxOpen = 1
SPECIFICATION Spec
INVARIANTS SuccessIsComplete
