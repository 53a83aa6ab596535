------------------------------ MODULE Exchange ------------------------------
(***************************************************************************)
(* What the service promises its users, with no matcher, locks or          *)
(* requests: orders are placed once per owner and nonce, rest in the book, *)
(* and leave it by a cancel, by expiring, or by trading with a crossed     *)
(* order of the other side at the price of the order that came first.      *)
(***************************************************************************)
EXTENDS Integers, Sequences, FiniteSets

CONSTANTS OrderId, Order

VARIABLES state,   \* "none", "open", "filled", "cancelled" or "expired"
          filled,  \* amount filled so far
          placed,  \* time of placement
          trades,  \* every trade made, oldest first
          now

exchangeVars == <<state, filled, placed, trades, now>>

Init ==
    /\ state = [o \in OrderId |-> "none"]
    /\ filled = [o \in OrderId |-> Order[o].filled0]
    /\ placed = [o \in OrderId |-> 0]
    /\ trades = <<>>
    /\ now = 0

OpenOrders == {o \in OrderId : state[o] = "open"}

\* An order of a fresh key joins the book, stamped with the current time.
Place(o) ==
    /\ \A p \in OrderId : Order[p].key = Order[o].key => state[p] = "none"
    /\ Order[o].filled0 <= Order[o].desired
    /\ state' = [state EXCEPT ![o] = "open"]
    /\ placed' = [placed EXCEPT ![o] = now]
    /\ UNCHANGED <<filled, trades, now>>

\* Some open orders leave the book together.
Leave(gone, end) ==
    /\ gone # {} /\ gone \subseteq OpenOrders
    /\ state' = [o \in OrderId |-> IF o \in gone THEN end ELSE state[o]]
    /\ UNCHANGED <<filled, placed, trades, now>>

Withdraw(gone) == Leave(gone, "cancelled")
Expire(gone) == (\A o \in gone : Order[o].expiry <= now) /\ Leave(gone, "expired")

Opposed(o, p) ==
    /\ Order[o].market = Order[p].market
    /\ {Order[o].side, Order[p].side} = {"buy", "sell"}

CrossedPrices(o, p) ==
    \/ Order[o].side = "buy" /\ Order[o].price >= Order[p].price
    \/ Order[o].side = "sell" /\ Order[o].price <= Order[p].price

AfterFill(o, size) ==
    IF filled[o] + size = Order[o].desired THEN "filled" ELSE "open"

\* The taker is the younger order and gets the maker's price.
MakeTrade(taker, maker, size) ==
    /\ {taker, maker} \subseteq OpenOrders
    /\ Opposed(taker, maker) /\ CrossedPrices(taker, maker)
    /\ placed[maker] <= placed[taker]
    /\ size > 0
    /\ \A o \in {taker, maker} : filled[o] + size <= Order[o].desired
    /\ filled' = [o \in OrderId |-> IF o \in {taker, maker} THEN filled[o] + size
                                                            ELSE filled[o]]
    /\ state' = [o \in OrderId |-> IF o \in {taker, maker} THEN AfterFill(o, size)
                                                           ELSE state[o]]
    /\ trades' = Append(trades, [taker |-> taker, maker |-> maker,
                                 price |-> Order[maker].price, size |-> size])
    /\ UNCHANGED <<placed, now>>

Pass == now' = now + 1 /\ UNCHANGED <<state, filled, placed, trades>>

Next ==
    \/ \E o \in OrderId : Place(o)
    \/ \E gone \in SUBSET OpenOrders : Withdraw(gone) \/ Expire(gone)
    \/ \E o, p \in OrderId : \E size \in 1..Order[o].desired : MakeTrade(o, p, size)
    \/ Pass

Spec == Init /\ [][Next]_exchangeVars

=============================================================================
