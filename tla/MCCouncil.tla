------------------------------ MODULE MCCouncil ------------------------------
(* Figures, readings and contexts of Council for TLC.                          *)
EXTENDS Council

Reading(rsi14, trend, momentum, breakout) ==
    [rsi14 |-> rsi14, trend |-> trend, momentum |-> momentum, breakout |-> breakout]
MCReadings == {Reading(60, 1, 1, 1), Reading(50, 1, 0, 0), Reading(40, -1, 1, -1)}

Chain(strikes, calls, callsBefore, puts, putsBefore) ==
    [strikes |-> strikes, calls |-> calls, callsBefore |-> callsBefore,
     puts |-> puts, putsBefore |-> putsBefore]
MCChains == {Chain(0, 0, 0, 0, 0), Chain(1, 2, 1, 1, 1), Chain(1, 1, 2, 1, 1)}

MCFigures == {[growth |-> 16, margin |-> 16, debt |-> 99], [growth |-> 16, margin |-> 16, debt |-> 201]}
MCStrengths == {-201, 200}
MCZScores == {-150, 150}

Plain == [dataValid |-> TRUE, drawdown |-> 0, maxDrawdown |-> 10, exposure |-> 0, maxExposure |-> 80,
          minConfidence |-> UNDEFINED, minRiskRewardRatio |-> UNDEFINED, stopLossPct |-> UNDEFINED,
          targetRiskRewardRatio |-> UNDEFINED, referencePrice |-> 1000]
\* Limits reached and neared; invalid data; prices that rounding gets hold of; a wide stop, whose
\* target for a short sale is below zero; a ratio that is too low, and one that any target has;
\* and requests that are refused.
MCContexts == {
    Plain,
    [Plain EXCEPT !.drawdown = 10],
    [Plain EXCEPT !.dataValid = FALSE, !.minConfidence = 0],
    [Plain EXCEPT !.minConfidence = 70],
    [Plain EXCEPT !.referencePrice = 30, !.exposure = 64],
    [Plain EXCEPT !.referencePrice = 20],
    [Plain EXCEPT !.stopLossPct = 50, !.targetRiskRewardRatio = 300],
    [Plain EXCEPT !.targetRiskRewardRatio = 149],
    [Plain EXCEPT !.referencePrice = 30, !.targetRiskRewardRatio = 50, !.minRiskRewardRatio = 0],
    [Plain EXCEPT !.referencePrice = 0]}

===============================================================================
