-------------------------------- MODULE Units --------------------------------
(***************************************************************************)
(* The units of the contracts.  Each order carries the action its owner    *)
(* signed, whose price and amount are those of the row times a scale that  *)
(* is stored nowhere: it is found again by dividing one by the other.      *)
(*                                                                         *)
(* An order is a record with side, ticks, desired, filled and signed, and  *)
(* signed a record with market, bid, price and desired.                    *)
(***************************************************************************)
EXTENDS Integers, FiniteSets, FiniteSetsExt

NoScale == 0
NoUnits == [price |-> 0, amount |-> 0]

\* Mutant: the scale of the taker, without a look at the maker's.
ScaleOfTaker(base, signed, otherBase, otherSigned) ==
    IF base <= 0 \/ signed <= 0 \/ signed % base # 0 THEN NoScale ELSE signed \div base

\* inferSharedScale: the scale of the taker when it is also that of the maker.
SharedScale(base, signed, otherBase, otherSigned) ==
    IF /\ base > 0 /\ signed > 0 /\ signed % base = 0
       /\ otherBase > 0 /\ otherSigned > 0 /\ otherSigned % otherBase = 0
       /\ signed \div base = otherSigned \div otherBase
    THEN signed \div base
    ELSE NoScale

\* validateActionMarket: the action signs an order of this market and side.
SignedFor(order) ==
    /\ order.signed.market = order.market
    /\ order.signed.bid = (order.side = "buy")

\* validatePriceScaleAlignment.
WithinSigned(order, price) ==
    IF order.side = "buy" THEN price <= order.signed.price ELSE price >= order.signed.price

Remaining(order) == order.desired - order.filled

\* Mutant: an amount of zero passes.
SizeFitsOrZero(taker, maker, amount) ==
    amount <= Remaining(taker) /\ amount <= Remaining(maker)

SizeFits(taker, maker, amount) ==
    amount > 0 /\ amount <= Remaining(taker) /\ amount <= Remaining(maker)

\* computeExecutionUnits: the price and the amount to execute, NoUnits when it refuses.
ExecutionUnits(taker, maker, ticks, amount) ==
    LET priceScale == SharedScale(taker.ticks, taker.signed.price, maker.ticks, maker.signed.price)
        amountScale == SharedScale(taker.desired, taker.signed.desired,
                                   maker.desired, maker.signed.desired)
        price == ticks * priceScale
    IN  IF /\ SignedFor(taker) /\ SignedFor(maker)
           /\ priceScale # NoScale /\ amountScale # NoScale
           /\ SizeFits(taker, maker, amount)
           /\ WithinSigned(taker, price) /\ WithinSigned(maker, price)
        THEN [price |-> price, amount |-> amount * amountScale]
        ELSE NoUnits

=============================================================================
