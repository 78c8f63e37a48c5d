------------------------------ MODULE TradeStats ------------------------------
(***************************************************************************)
(* services/analytics: what each statistic makes of a journal (a function  *)
(* from entry ids to entries) and of an equity curve (a sequence, oldest   *)
(* first).  A quotient is a fraction [num, den], or null where the code    *)
(* returns null; the doubles of the code are taken as exact.               *)
(*                                                                         *)
(* A fill time is in hours since a Sunday that is the first of a month,    *)
(* and months have 31 days.                                                *)
(***************************************************************************)
EXTENDS Integers, Sequences, SequencesExt

CONSTANT null

Fraction(num, den) == [num |-> num, den |-> den]
Zero        == Fraction(0, 1)
Plus(a, b)  == Fraction(a.num * b.den + b.num * a.den, a.den * b.den)
Minus(a, b) == Fraction(a.num * b.den - b.num * a.den, a.den * b.den)
Product(a, b) == Fraction(a.num * b.num, a.den * b.den)
Over(a, n)  == Fraction(a.num, a.den * n)
Exceeds(a, b)    == a.num * b.den > b.num * a.den
SameNumber(a, b) == a.num * b.den = b.num * a.den

-------------------------------------------------------------------------------
(* Trades.                                                                     *)

closedTradesOf(j) == {i \in DOMAIN j : j[i].status = "closed" /\ j[i].pnl # null}
Wins(j)   == {i \in closedTradesOf(j) : j[i].pnl > 0}
Losses(j) == {i \in closedTradesOf(j) : j[i].pnl < 0}
TotalPnl(j, ids) == SumFunction([i \in ids |-> j[i].pnl])

computeTradeCounts_ZeroLoses(j) ==
    [totalTrades     |-> Cardinality(DOMAIN j),
     winningTrades   |-> Cardinality(Wins(j)),
     losingTrades    |-> Cardinality({i \in closedTradesOf(j) : j[i].pnl <= 0}),
     breakevenTrades |-> 0,
     openTrades      |-> Cardinality(DOMAIN j \ closedTradesOf(j))]
computeTradeCounts(j) ==
    [totalTrades     |-> Cardinality(DOMAIN j),
     winningTrades   |-> Cardinality(Wins(j)),
     losingTrades    |-> Cardinality(Losses(j)),
     breakevenTrades |-> Cardinality(closedTradesOf(j) \ (Wins(j) \cup Losses(j))),
     openTrades      |-> Cardinality(DOMAIN j \ closedTradesOf(j))]

computeWinRate(j) ==
    LET counts   == computeTradeCounts(j)
        decisive == counts.winningTrades + counts.losingTrades
    IN  IF decisive = 0 THEN null ELSE Fraction(counts.winningTrades, decisive)

computeAverageReturn(j) ==
    LET closed == closedTradesOf(j)
    IN  IF closed = {} THEN null ELSE Fraction(TotalPnl(j, closed), Cardinality(closed))

\* The mean over the trades that committed any capital.
computeAverageReturnPct(j) ==
    LET counted == {i \in closedTradesOf(j) : j[i].committed # 0}
        pct(i)  == Fraction(j[i].pnl, j[i].committed)
    IN  IF counted = {} THEN null
        ELSE Over(MapThenFoldSet(Plus, Zero, pct, LAMBDA ids : CHOOSE i \in ids : TRUE, counted),
                  Cardinality(counted))

\* Over open trades too.
computePlannedRiskRewardRatio(j) ==
    LET planned == {i \in DOMAIN j : j[i].ratio # null}
    IN  IF planned = {} THEN null
        ELSE Fraction(MapThenSumSet(LAMBDA i : j[i].ratio, planned), Cardinality(planned))

computeRealizedRiskRewardRatio(j) ==
    IF Wins(j) = {} \/ Losses(j) = {} THEN null
    ELSE Fraction(TotalPnl(j, Wins(j)) * Cardinality(Losses(j)),
                  Cardinality(Wins(j)) * (-TotalPnl(j, Losses(j))))

\* winRate * avgWin - lossRate * avgLoss.
computeExpectancy(j) ==
    LET decisive == Cardinality(Wins(j)) + Cardinality(Losses(j))
        rate(ids) == Fraction(Cardinality(ids), decisive)
        average(ids, total) == IF ids = {} THEN Zero ELSE Fraction(total, Cardinality(ids))
    IN  IF decisive = 0 THEN null
        ELSE Minus(Product(rate(Wins(j)), average(Wins(j), TotalPnl(j, Wins(j)))),
                   Product(rate(Losses(j)), average(Losses(j), -TotalPnl(j, Losses(j)))))

-------------------------------------------------------------------------------
(* Breakdowns: a row for each group of entries, by the key of the group.       *)

\* {...row, ...more}: an object with the fields of both, which have none in common.
Joined(row, more) ==
    [field \in DOMAIN row \cup DOMAIN more |->
        IF field \in DOMAIN row THEN row[field] ELSE more[field]]

FiguresOf(j) ==
    Joined(computeTradeCounts(j),
           [totalRealizedPnl |-> TotalPnl(j, closedTradesOf(j)), winRate |-> computeWinRate(j)])
SessionRow(j)  == Joined(FiguresOf(j), [averageReturn |-> computeAverageReturn(j)])
StrategyRow(j) == Joined(SessionRow(j), [expectancy |-> computeExpectancy(j)])
MonthRow(j) ==
    Joined(StrategyRow(j),
           [averageReturnPct        |-> computeAverageReturnPct(j),
            plannedRiskRewardRatio  |-> computePlannedRiskRewardRatio(j),
            realizedRiskRewardRatio |-> computeRealizedRiskRewardRatio(j)])
HeatmapCell(j) == Restrict(FiguresOf(j), {"totalTrades", "totalRealizedPnl", "winRate"})

\* The entries of j that keyed, a function of their ids, gives this key.
Group(j, keyed, key) == Restrict(j, {i \in DOMAIN j : keyed[i] = key})

monthBucketOf(entry) == entry.filled \div (31 * 24)
dayOf(entry)         == (entry.filled \div 24) % 7

SESSION_WINDOWS == {[startHour |-> 0,  endHour |-> 6],  [startHour |-> 6,  endHour |-> 12],
                    [startHour |-> 12, endHour |-> 18], [startHour |-> 18, endHour |-> 24]}
sessionWindowOf(entry) ==
    LET hour == entry.filled % 24
    IN  CHOOSE w \in SESSION_WINDOWS : hour >= w.startHour /\ hour < w.endHour

\* Verdict and direction, each of which may be missing.
strategyKeyOf(entry) == <<entry.verdict, entry.direction>>

Keyed(j, keyOf(_)) == [i \in DOMAIN j |-> keyOf(j[i])]
symbolOf(entry) == entry.symbol

computeMonthlyReports(j) ==
    LET months == Keyed(j, monthBucketOf)
    IN  [month \in Range(months) |-> MonthRow(Group(j, months, month))]
computeStrategyStats_Recommended(j) ==
    LET strategies == Keyed(j, strategyKeyOf)
    IN  [key \in Range(strategies) \ {<<null, null>>} |-> StrategyRow(Group(j, strategies, key))]
computeStrategyStats(j) ==
    LET strategies == Keyed(j, strategyKeyOf)
    IN  [key \in Range(strategies) |-> StrategyRow(Group(j, strategies, key))]
computeInstrumentAnalysis(j) ==
    LET symbols == Keyed(j, symbolOf)
    IN  [symbol \in Range(symbols) |-> SessionRow(Group(j, symbols, symbol))]
\* Every window and every cell has a row, the empty ones too.
computeSessionAnalysis(j) ==
    LET windows == Keyed(j, sessionWindowOf)
    IN  [window \in SESSION_WINDOWS |-> SessionRow(Group(j, windows, window))]
computeHeatmap(j) ==
    LET cells == Keyed(j, LAMBDA entry : <<dayOf(entry), sessionWindowOf(entry)>>)
    IN  [cell \in (0..6) \X SESSION_WINDOWS |-> HeatmapCell(Group(j, cells, cell))]

\* n equal buckets from the smallest P&L to the largest, which belongs to the last one.
computeTradeDistribution(j, n) ==
    LET closed == closedTradesOf(j)
        low    == Min({j[i].pnl : i \in closed})
        high   == Max({j[i].pnl : i \in closed})
        index(i) == Min({((j[i].pnl - low) * n) \div (high - low), n - 1})
    IN  IF closed = {} THEN << >>
        ELSE IF low = high THEN <<Cardinality(closed)>>
        ELSE [b \in 1..n |-> Cardinality({i \in closed : index(i) = b - 1})]

-------------------------------------------------------------------------------
(* The equity curve.                                                           *)

\* The running peak and the worst decline from it, as a fraction of a positive peak.
Walk_FirstPeak(at, equity) ==
    LET decline == Fraction(at.peak - equity, at.peak)
    IN  [peak |-> at.peak,
         worst |-> IF at.peak > 0 /\ Exceeds(decline, at.worst) THEN decline ELSE at.worst]
Walk(at, equity) ==
    LET peak    == IF equity > at.peak THEN equity ELSE at.peak
        decline == Fraction(peak - equity, peak)
    IN  [peak |-> peak,
         worst |-> IF peak > 0 /\ Exceeds(decline, at.worst) THEN decline ELSE at.worst]
WalkFrom(equity) == [peak |-> equity, worst |-> Zero]
computeMaxDrawdownPct(curve) ==
    IF Len(curve) < 2 THEN null ELSE FoldLeft(Walk, WalkFrom(curve[1]), curve).worst

\* The return of each period, by the place it starts at; one that starts at no positive equity is
\* skipped.
periodReturns(curve) ==
    [i \in {k \in 1..(Len(curve) - 1) : curve[k] > 0} |->
        Fraction(curve[i + 1] - curve[i], curve[i])]

Mean(values) == Over(FoldFunction(Plus, Zero, values), Cardinality(DOMAIN values))
\* The standard deviation of a sample is zero exactly when its values are the same number.
Deviates(values) == \E a, b \in DOMAIN values : ~ SameNumber(values[a], values[b])
Sign(a) == IF a.num > 0 THEN 1 ELSE IF a.num < 0 THEN -1 ELSE 0

\* Each ratio by its sign, which is that of the mean return it divides by a deviation.
computeRiskAdjustedReturns(curve) ==
    LET returns  == periodReturns(curve)
        downside == Restrict(returns, {i \in DOMAIN returns : returns[i].num < 0})
        ratio(values) == IF Deviates(values) THEN Sign(Mean(returns)) ELSE null
    IN  IF Cardinality(DOMAIN returns) < 2
        THEN [sharpeRatio |-> null, sortinoRatio |-> null, insufficientData |-> TRUE]
        ELSE [sharpeRatio |-> ratio(returns), sortinoRatio |-> ratio(downside),
              insufficientData |-> FALSE]

computeFullStatSet(j, curve) ==
    LET riskAdjusted == computeRiskAdjustedReturns(curve)
    IN  Joined(MonthRow(j), [maxDrawdownPct |-> computeMaxDrawdownPct(curve),
                             sharpeRatio    |-> riskAdjusted.sharpeRatio,
                             sortinoRatio   |-> riskAdjusted.sortinoRatio])

===============================================================================
