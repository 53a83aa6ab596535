---------------------------- MODULE Correctness ----------------------------
(***************************************************************************)
(* What is claimed of MarketsService.                                      *)
(***************************************************************************)
EXTENDS MarketsService, Arithmetic

-----------------------------------------------------------------------------
(* Invariants *)

\* No order is filled past what it asked for, however often its match is
\* retried, and it is marked filled exactly when nothing of it remains to be
\* filled by a trade (applyFill).
FillsWithinDesired ==
    \A o \in OrderId : Placed(o) =>
        /\ filled[o] <= Order[o].desired
        /\ status[o] = "filled" => filled[o] = Order[o].desired
        /\ filled[o] = Order[o].desired =>
               status[o] = "filled" \/ Order[o].filled0 = Order[o].desired

\* Every recorded trade is between opposite orders of one market, at the price
\* of the order that was not placed later, and no worse than either limit
\* (tickInstrument, chooseTakerMaker).
TradeRespectsLimits(t) ==
    LET limit(side) == {o \in {t.taker, t.maker} : Order[o].side = side}
    IN  /\ Order[t.taker].market = Order[t.maker].market
        /\ created[t.maker] <= created[t.taker]
        /\ t.price = Order[t.maker].price
        /\ \E b \in limit("buy"), s \in limit("sell") :
               Order[s].price <= t.price /\ t.price <= Order[b].price

TradesWithinLimits == \A i \in DOMAIN trades : TradeRespectsLimits(trades[i])

\* What the orders say has been filled is what the trades say: finalizing
\* writes both rows and the trade, or none of them.
FilledByTrades(o) ==
    LET share(t) == IF o \in {t.taker, t.maker} THEN t.size ELSE 0
    IN  Total([i \in DOMAIN trades |-> share(trades[i])])

LedgerConserved ==
    \A o \in OrderId : Placed(o) => filled[o] = Order[o].filled0 + FilledByTrades(o)

\* While tickInstrument works on a candidate both rows stay reserved: no user,
\* reader or expiry changes them under it.
HeldRowsStayReserved ==
    \A m \in Matcher : pc[m] \in Holding => \A o \in Pair(m) : status[o] = "matching"

\* Conversely a reserved row is in the hands of a matcher that will release it.
NoOrphans ==
    \A o \in OrderId : status[o] = "matching" =>
        \E m \in Matcher : pc[m] \in Holding \union {"releasing"} /\ o \in Pair(m)

\* The book never shows a fill that did not happen on chain.
NoPhantomFills == \A o \in OrderId : filled[o] <= chainFilled[o]

\* With an executor that answers truthfully and in time, the book and the chain
\* agree on every order, except for the match whose answer has arrived and
\* whose finalization is under way.
InHand(o) ==
    \E m \in Matcher : pc[m] = "finalizing" /\ o \in Pair(m)
                          /\ chainFilled[o] = filled[o] + cand[m].fill
BookMatchesChain ==
    \A o \in OrderId : chainFilled[o] = filled[o] \/ InHand(o)

\* A candidate is the best of each side among the orders placed before the
\* tick began: an active order that was there then never has a better price.
PriceTimePriority ==
    \A m \in Matcher : pc[m] \in Holding =>
        \A o \in OrderId, p \in Pair(m) :
            /\ status[o] = "active" /\ created[o] < asOf[m]
            /\ Order[o].market = Order[p].market /\ Order[o].side = Order[p].side
            => ~Before(o, p)

-----------------------------------------------------------------------------
(* Action properties *)

\* A filled, cancelled or expired row never changes again, whatever retry,
\* late release or duplicate request still refers to it.
TerminalRowsFrozen ==
    [][\A o \in OrderId : status[o] \in Terminal =>
           status'[o] = status[o] /\ filled'[o] = filled[o]]_vars

\* A service-tagged cancel never removes an order of a protected namespace:
\* when one is cancelled, a manual request for its owner and nonce was pending
\* (README.md, Namespace Separation For Cancels).
ProtectedFromService ==
    [][\A o \in OrderId :
           Order[o].protected /\ Open(o) /\ status'[o] = "cancelled" =>
               [key |-> Order[o].key, service |-> FALSE] \in cancelling]_vars

\* A row whose reservation outlived its matcher stays as it is: no loop, cancel
\* or expiry takes it while its fate on chain is unknown.
Orphaned(o) ==
    /\ status[o] = "matching"
    /\ \A m \in Matcher : o \notin Pair(m)
OrphansStayReserved ==
    [][\A o \in OrderId : Orphaned(o) => status'[o] = "matching"]_vars

-----------------------------------------------------------------------------
(* Liveness *)

\* Every reservation ends.
ReservationsEnd ==
    \A o \in OrderId : status[o] = "matching" ~> status[o] # "matching"

\* Two crossed orders do not both stay in the book, unless the matcher is stuck
\* on a pair ahead of them that it reserves and releases at every tick, because
\* an order of it has nothing left or its signed actions do not fit together.
OnSide(side) == {o \in OrderId : Order[o].side = side}
SameMarket(o, p) == Order[o].market = Order[p].market
AsksFor(b) == {a \in OnSide("sell") : SameMarket(b, a)}
Tradable(o, p) == Remaining(o) > 0 /\ Remaining(p) > 0 /\ Executable(o, p)
Crossed(b, a) ==
    /\ Open(b) /\ Open(a)
    /\ Order[b].price >= Order[a].price
Ahead(o, p) == Open(o) /\ SameMarket(o, p) /\ ~Before(p, o)
Stranded(b, a) ==
    \E o \in OnSide("buy"), p \in OnSide("sell") :
        Ahead(o, b) /\ Ahead(p, a) /\ ~Tradable(o, p)
BookUncrosses ==
    \A b \in OnSide("buy") : \A a \in AsksFor(b) :
        Crossed(b, a) ~> ~Crossed(b, a) \/ Stranded(b, a)

\* A fill whose answer was lost still reaches the rows of both orders: the pair
\* is matched again and TM_FillLimitCrossed finalizes it.  That takes both
\* orders: it may fail when one of them is cancelled or expires first, and has
\* to wait as long as the matcher is stuck on a pair ahead of these two.  In a
\* book where another order can trade with one of them it is not promised
\* (NoPhantomFills without "lostReply").
Unrecorded(o) == filled[o] # chainFilled[o]
LeftBook(o) == status[o] \in {"cancelled", "expired"}
FillsReachBook ==
    \A b \in OnSide("buy") : \A a \in AsksFor(b) :
        Unrecorded(b) /\ Unrecorded(a)
            ~> \/ ~Unrecorded(b) /\ ~Unrecorded(a)
               \/ LeftBook(b) \/ LeftBook(a)
               \/ Stranded(b, a)

-----------------------------------------------------------------------------
(* The service implements Exchange: a reserved order is still open. *)

ExchangeState(s) == IF s \in {"active", "matching"} THEN "open" ELSE s

Contract == INSTANCE Exchange WITH
    state <- [o \in OrderId |-> ExchangeState(status[o])],
    placed <- created

ImplementsExchange == Contract!Spec

=============================================================================
