----------------------------- MODULE MCMarketFeed -----------------------------
(* Model values of MarketFeed for TLC: a tick, a later one, and a second price for   *)
(* the later instant.                                                                *)
EXTENDS MarketFeed

Tick(t, p) == [symbol |-> CHOOSE s \in Symbols : TRUE, time |-> t, price |-> p]

MCTicks == {Tick(1, 1), Tick(2, 1), Tick(2, 2)}

===============================================================================
