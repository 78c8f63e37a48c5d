----------------------------- MODULE MCPortfolio ------------------------------
(* Model values of Portfolio for TLC.  The fills give two symbols, positions of both     *)
(* directions, an average over unequal quantities, and symbol 1 held both ways.         *)
EXTENDS Portfolio, TLC

Symmetry == Permutations(EntryIds)

Trade(s, side, q, p) == [symbol |-> s, side |-> side, quantity |-> q, price |-> p]

MCFills == {Trade(1, "buy", 1, 6), Trade(1, "buy", 2, 12), Trade(1, "sell", 1, 12),
            Trade(2, "sell", 1, 6)}

===============================================================================
