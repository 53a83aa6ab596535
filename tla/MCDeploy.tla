------------------------------ MODULE MCDeploy ------------------------------
(***************************************************************************)
(* A book for TLC, with two ticks to a price of 1.                         *)
(***************************************************************************)
EXTENDS Deploy

Limit(side, price, desired, legacy) ==
    [side |-> side, ticks |-> price, desired |-> desired, legacy |-> legacy,
     known |-> TRUE]

\* Two bids and two asks that cross, and an ask that does not.  The best bid and
\* the best ask have a price with a point, those behind them do not.  A bid of
\* an instrument that has been removed is as old as any of them.
Book ==
    <<Limit("buy", 3, 2, TRUE), Limit("sell", 1, 1, TRUE),
      Limit("sell", 2, 1, FALSE), Limit("buy", 2, 1, FALSE),
      Limit("sell", 5, 1, FALSE),
      [Limit("buy", 5, 1, TRUE) EXCEPT !.known = FALSE]>>

=============================================================================
