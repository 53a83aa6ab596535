SPECIFICATION OracleSpec
CONSTANTS
    Api = {a1, a2}
    Variance = {1}
    StaleAfter = 1
    MaxTime = 2
    NoPayload = NoPayload
INVARIANTS
    ServedNeverGoesBack
    FreshMeansHeardRecently
