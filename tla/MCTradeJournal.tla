--------------------------- MODULE MCTradeJournal -----------------------------
(* Model values of TradeJournal for TLC; the requests are symmetric.                *)
EXTENDS TradeJournal, TLC

Symmetry == Permutations(Requests)

===============================================================================
