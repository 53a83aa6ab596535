SPECIFICATION FairSpec
CONSTANTS
    btc = btc
    ngn = ngn
    k1 = k1
    k2 = k2
    k3 = k3
    k4 = k4
    k5 = k5
    u1 = u1
    u2 = u2
    Order <- Stuck
    OrderId = {1, 2, 3, 4, 5}
    Key = {k1, k2, k3, k4, k5}
    Market = {btc, ngn}
    Units = {u1, u2}
    Matcher = {m1}
    MaxTime = 0
    MaxRequests = 1
    Faults = {"lostReply"}
PROPERTIES
    ReservationsEnd
    BookUncrosses
    FillsReachBook
