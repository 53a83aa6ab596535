-------------------------------- MODULE Spot --------------------------------
(***************************************************************************)
(* The USDC/cNGN contract: an intent in the units of the UI, a price in    *)
(* cNGN per USDC and a size in USDC, becomes an order of the engine, a     *)
(* price in USDC per cNGN and an amount of cNGN, on the other side; and    *)
(* the stored order is shown as an intent again.                           *)
(***************************************************************************)
EXTENDS Pricing

CONSTANTS EngineScale,  \* decimal places of an order of the engine (18)
          UIScale       \* decimal places of an intent as it is shown (6)

ASSUME ScaleAssumption ==
    EngineScale \in Nat /\ UIScale \in Nat /\ 2 * UIScale <= EngineScale

Opposite(side) == IF side = "buy" THEN "sell" ELSE "buy"

\* Mutant: digits past the scale are dropped.
RoundedDown(n, d, scale) == Dec((n * TenTo[scale]) \div d, scale)

\* formatDecimal: n / d, to the nearest at the scale, a half upwards.
Rounded(n, d, scale) ==
    LET scaled == n * TenTo[scale]
        up == IF 2 * (scaled % d) >= d THEN 1 ELSE 0
    IN  Dec(scaled \div d + up, scale)

\* translateSpotUIIntent, for an intent with a positive price and size.
Translate(ui) ==
    [side |-> Opposite(ui.side),
     price |-> Rounded(TenTo[ui.price.places], ui.price.units, EngineScale),
     amount |-> Rounded(ui.price.units * ui.size.units,
                        TenTo[ui.price.places + ui.size.places], EngineScale)]

\* deriveSpotOrderContractEchoFromEngine.
Echo(order) ==
    [side |-> Opposite(order.side),
     price |-> Rounded(TenTo[order.price.places], order.price.units, UIScale),
     size |-> Rounded(order.price.units * order.amount, TenTo[order.price.places], UIScale)]

\* decimalStringsMatch: equal up to one unit of the last place.
Match(a, b) ==
    LET places == Max({a.places, b.places, EngineScale})
        difference == At(a, places) - At(b, places)
    IN  difference \in -TenTo[places - EngineScale] .. TenTo[places - EngineScale]

\* What a request leaves out.
NoIntent == [side |-> "", price |-> Dec(0, 0), size |-> Dec(0, 0)]
NoSide == ""
NoDecimal == Dec(-1, 0)

\* validateOrTranslateSpotUIIntent: the intent is usable, and the fields of the
\* engine that come with it say the same.
IntentHolds(ui, side, price, amount) ==
    /\ ui.side \in {"buy", "sell"}
    /\ ui.price.units > 0
    /\ ui.size.units > 0
    /\ side \in {NoSide, Translate(ui).side}
    /\ price = NoDecimal \/ Match(price, Translate(ui).price)
    /\ amount = NoDecimal \/ Match(amount, Translate(ui).amount)

=============================================================================
