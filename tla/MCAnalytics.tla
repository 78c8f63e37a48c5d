----------------------------- MODULE MCAnalytics -----------------------------
(* Trades and periods of Analytics for TLC.                                    *)
EXTENDS Analytics

CONSTANTS r1, r2, s1, s2, short

Trade(symbol, filled, verdict, direction, ratio, committed) ==
    [symbol |-> symbol, filled |-> filled, verdict |-> verdict, direction |-> direction,
     ratio |-> ratio, committed |-> committed]

\* The last hour of a month and the first of the next, with and without a direction and a plan.
MCTrades == {Trade(s1, 743, null, null, null, 4), Trade(s2, 744, null, short, 3, 0)}
Period(from, to) == [from |-> from, to |-> to]
\* Everything, and what lies on both bounds of a period.
MCRanges == {Period(null, null), Period(744, 744)}
MCEquities == {-1, 1, 2}
MCPnls == {-2, 0, 3}
Symmetry == Permutations(Queries)

===============================================================================
