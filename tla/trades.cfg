SPECIFICATION Spec
CONSTANTS
    Matcher = {m1}
    Price = {1, 2}
    Limit = 2
    Window = 1
    MaxTrades = 4
    MaxTime = 2
INVARIANTS
    TypeOK
    PagesComplete
PROPERTIES
    StatsCoverPage
