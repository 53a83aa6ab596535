SPECIFICATION FairSpec
CHECK_DEADLOCK FALSE
CONSTANTS
    OrderId = {1, 2, 3, 4, 5, 6}
    Row <- Book
    TicksPerUnit = 2
    MaxDeploys = 2
    MaxRestarts = 1
INVARIANTS
    TypeOK
    BookRestored
PROPERTIES
    PriorityOutsideDeploys
    BookRecovers
    FillsReachBook
