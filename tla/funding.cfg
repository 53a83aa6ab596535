SPECIFICATION FairSpec
CONSTANTS
    Api = {a1}
    Variance = {1}
    StaleAfter = 1
    MaxTime = 2
    NoPayload = NoPayload
    Price = {0, 4}
    Coefficient = 1
    Cap = 1
    NoSnapshot = NoSnapshot
    NoPrice = NoPrice
INVARIANTS
    TypeOK
    FundingFromFreshOracle
PROPERTIES
    OutagePausesFunding
