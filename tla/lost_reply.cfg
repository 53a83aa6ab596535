SPECIFICATION Spec
CONSTANTS
    btc = btc
    ngn = ngn
    k1 = k1
    k2 = k2
    k3 = k3
    k4 = k4
    k5 = k5
    u1 = u1
    u2 = u2
    Order <- Rivals
    OrderId = {1, 2, 3}
    Key = {k1, k2, k3}
    Market = {btc}
    Units = {u1, u2}
    Matcher = {m1}
    MaxTime = 0
    MaxRequests = 1
    Faults = {"lostReply"}
INVARIANTS
    NoPhantomFills
