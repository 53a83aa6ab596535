------------------------------- MODULE MCEntry -------------------------------
(***************************************************************************)
(* Instruments and requests for TLC.  The instruments are those of the     *)
(* registry with fewer decimal places, so that TLC's integers hold the     *)
(* products: four for an order of the spot engine instead of 18 and one    *)
(* for an intent instead of six.                                           *)
(***************************************************************************)
EXTENDS Entry

Plain == [spot |-> FALSE, variance |-> FALSE, lots |-> FALSE, tick |-> Dec(1, 0),
          precision |-> 2, minSize |-> Dec(1, 0), lowest |-> Dec(0, 0), highest |-> Dec(0, 0)]

Registry ==
    [perp |-> Plain,
     var |-> [Plain EXCEPT !.variance = TRUE, !.tick = Dec(1, 2), !.precision = 3,
                           !.lowest = Dec(5, 2), !.highest = Dec(2, 0)],
     spot |-> [Plain EXCEPT !.spot = TRUE, !.tick = Dec(1, 4), !.precision = 4,
                            !.minSize = Dec(1, 1)],
     future |-> [Plain EXCEPT !.lots = TRUE, !.minSize = Dec(1, 3)]]

Sign(market, bid, price, desired) ==
    [market |-> market, bid |-> bid, price |-> price, desired |-> desired]

\* A request with the fields of the engine.
Raw(market, side, price, amount, signedPrice, signedAmount) ==
    [market |-> market, account |-> "a", side |-> side, price |-> price, amount |-> amount,
     filled |-> Dec(0, 0), ui |-> NoIntent,
     signed |-> Sign(market, side = "buy", signedPrice, signedAmount)]

\* A request with an intent.
Intent(side, price, size, signedPrice, signedAmount) ==
    [Raw("spot", Opposite(side), NoDecimal, NoDecimal, signedPrice, signedAmount)
        EXCEPT !.side = NoSide, !.ui = [side |-> side, price |-> price, size |-> size]]

Requests ==
    << \* 1-4: the perpetual; the last one is signed on another scale
       Raw("perp", "buy", Dec(12, 0), Dec(5, 0), 120, 50),
       Raw("perp", "sell", Dec(110, 1), Dec(2, 0), 110, 20),
       [Raw("perp", "sell", Dec(12, 0), Dec(4, 0), 120, 40) EXCEPT !.filled = Dec(1, 0)],
       Raw("perp", "sell", Dec(10, 0), Dec(1, 0), 1000, 10),
       \* 5-8: signed for the other side, off the scale, off the ticks
       [Raw("perp", "buy", Dec(12, 0), Dec(2, 0), 120, 20) EXCEPT !.signed.bid = FALSE],
       Raw("perp", "buy", Dec(12, 0), Dec(2, 0), 125, 21),
       Raw("perp", "buy", Dec(125, 1), Dec(2, 0), 125, 20),
       Raw("perp", "sell", Dec(9, 0), Dec(2, 0), 90, 20),
       \* 9-12: the variance, with a zero after the point, off the grid, too high
       Raw("var", "buy", Dec(105, 2), Dec(2, 0), 1050, 20),
       Raw("var", "sell", Dec(250, 3), Dec(3, 0), 250, 30),
       Raw("var", "buy", Dec(255, 3), Dec(2, 0), 255, 20),
       Raw("var", "buy", Dec(201, 2), Dec(2, 0), 2010, 20),
       \* 13-16: spot: 3 cNGN, then 2.9, with fields of the engine, and 0.7
       Intent("buy", Dec(3, 0), Dec(2, 0), 33330, 60),
       Intent("sell", Dec(29, 1), Dec(10, 0), 34480, 290),
       [Intent("sell", Dec(29, 1), Dec(10, 0), 34480, 290)
            EXCEPT !.side = "buy", !.price = Dec(3449, 4), !.amount = Dec(29, 0)],
       Intent("buy", Dec(7, 1), Dec(20, 0), 142860, 140),
       \* 17-20: spot: raw, at odds with the fields, not a whole cNGN, high
       Raw("spot", "buy", Dec(3334, 4), Dec(5, 0), 33340, 50),
       [Intent("buy", Dec(3, 0), Dec(2, 0), 33330, 60) EXCEPT !.price = Dec(34, 2)],
       Intent("buy", Dec(7, 1), Dec(14, 1), 142860, 10),
       Intent("buy", Dec(295, 1), Dec(20, 0), 3390, 5900),
       \* 21-24: the future, in lots of 0.001; the last two are signed raw
       Raw("future", "buy", Dec(14, 0), Dec(3, 3), 140, 30),
       Raw("future", "sell", Dec(13, 0), Dec(2, 3), 130, 20),
       Raw("future", "sell", Dec(13, 0), Dec(2, 0), 130, 2),
       Raw("future", "buy", Dec(14, 0), Dec(2, 0), 140, 2) >>

\* Each group is the orders of one market that may meet.
Groups == {{1, 2, 3}, {1, 2, 4}, {5, 8}, {6, 8}, {7, 8}, {9, 10}, {10, 11}, {10, 12},
           {13, 14, 17}, {13, 15}, {15, 18}, {16, 20}, {19, 20}, {21, 22, 23}, {22, 24}}

=============================================================================
