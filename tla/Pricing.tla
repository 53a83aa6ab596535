------------------------------- MODULE Pricing -------------------------------
(***************************************************************************)
(* Decimals, and the ticks of an instrument.                               *)
(*                                                                         *)
(* A decimal of a request or of a row is a number of units at so many      *)
(* decimal places; digits that do not change its value are left out.       *)
(***************************************************************************)
EXTENDS Arithmetic, FiniteSets, FiniteSetsExt

Dec(units, places) == [units |-> units, places |-> places]

Decimal == [units: Int, places: Nat]
Positive == [units: Nat \ {0}, places: Nat]

\* a in units of the last of so many places, of which it has no more.
At(a, places) == a.units * TenTo[places - a.places]

Finest(a, b) == Max({a.places, b.places})

Same(a, b) == At(a, Finest(a, b)) = At(b, Finest(a, b))

Below(a, b) == At(a, Finest(a, b)) < At(b, Finest(a, b))

NoTicks == 0

\* Converter.Parse: the ticks of a price, NoTicks when it refuses.
Parse(instrument, price) ==
    LET n == price.units * TenTo[instrument.tick.places]
        d == TenTo[price.places] * instrument.tick.units
    IN  IF price.units < 0 \/ n % d # 0 THEN NoTicks ELSE n \div d

Length(n) == CHOOSE digits \in 1..9 : TenTo[digits - 1] <= n /\ n < TenTo[digits]

\* Mutant: the zeros in front of a fraction are lost.
WrittenUnpadded(integer, fraction, places) ==
    IF fraction = 0 THEN Dec(integer, 0)
    ELSE Dec(integer * TenTo[Length(fraction)] + fraction, Length(fraction))

\* "integer.fraction", the fraction padded with zeros on its left to so many places.
Written(integer, fraction, places) == Dec(integer * TenTo[places] + fraction, places)

\* Converter.FormatTicks.
FormatTicks(instrument, ticks) ==
    LET n == ticks * instrument.tick.units
        d == TenTo[instrument.tick.places]
        places == Max({instrument.tick.places, instrument.precision})
    IN  Written(n \div d, ((n % d) * TenTo[places]) \div d, places)

=============================================================================
