----------------------------- MODULE MCService -----------------------------
(***************************************************************************)
(* Order books for TLC.  A book is a sequence, so its identifiers are      *)
(* 1..Len.  MaxTime + 1 is an expiry the clock never reaches.              *)
(***************************************************************************)
EXTENDS Correctness

CONSTANTS btc, ngn,         \* markets
          k1, k2, k3, k4, k5,  \* owner and nonce
          u1, u2            \* scales of signed actions

Limit(key, side, price, desired) ==
    [key |-> key, market |-> btc, side |-> side, price |-> price,
     desired |-> desired, filled0 |-> 0, expiry |-> MaxTime + 1,
     protected |-> FALSE, units |-> u1]

\* A bid for two and three asks that cross it: two of one price, of which the
\* first expires, and a better one.
Queue ==
    <<Limit(k1, "buy", 5, 2),
      [Limit(k2, "sell", 5, 1) EXCEPT !.expiry = MaxTime],
      Limit(k3, "sell", 5, 1),
      Limit(k4, "sell", 4, 1)>>

\* A bid of which one unit was filled before it was submitted here, an ask that
\* does not cross it and one that does.
PartlyFilled ==
    <<[Limit(k1, "buy", 5, 3) EXCEPT !.filled0 = 1],
      Limit(k2, "sell", 6, 1),
      Limit(k3, "sell", 4, 1)>>

\* A bid and its protected successor under the same nonce, and two asks that
\* compete for them, of which one expires.
SharedRivals ==
    <<Limit(k1, "buy", 5, 1),
      [Limit(k1, "buy", 5, 1) EXCEPT !.protected = TRUE],
      Limit(k2, "sell", 5, 1),
      [Limit(k3, "sell", 4, 1) EXCEPT !.expiry = 1]>>

\* A bid that either of two asks can fill.
Rivals ==
    <<Limit(k1, "buy", 5, 1), Limit(k2, "sell", 5, 1), Limit(k3, "sell", 4, 1)>>

\* One bid and one ask.
OnePair == <<Limit(k1, "buy", 5, 2), Limit(k2, "sell", 5, 1)>>

\* One market with a pair that cannot trade, because it was signed on two
\* scales, and another with a pair that can and, ahead of it, a bid of which
\* nothing is left.
TwoMarkets ==
    <<[Limit(k1, "buy", 5, 1) EXCEPT !.market = ngn, !.units = u2],
      [Limit(k2, "sell", 5, 1) EXCEPT !.market = ngn],
      [Limit(k3, "buy", 6, 1) EXCEPT !.filled0 = 1],
      Limit(k4, "buy", 5, 2),
      Limit(k5, "sell", 5, 1)>>

\* Only their owners cancel them.
Stuck == [o \in 1..5 |-> [TwoMarkets[o] EXCEPT !.protected = TRUE]]

=============================================================================
