------------------------------ MODULE CioEngine ------------------------------
(***************************************************************************)
(* services/cio: the verdict, the risk gate, the trade idea and the trace  *)
(* that come of a sequence of expert opinions and a context.               *)
(*                                                                         *)
(* Prices are in cents, ratios in hundredths and percentages whole; a      *)
(* confidence is an integer from 0 to 100, and a score a quotient of       *)
(* integers with a positive denominator.                                   *)
(***************************************************************************)
EXTENDS Integers, Sequences, SequencesExt

CONSTANTS
    UNDEFINED,  \* an optional value left out, or a gap in research
    THROWN      \* an exception instead of a result

VERDICT_SCORES == [bearish |-> -2, moderately_bearish |-> -1, neutral |-> 0,
                   moderately_bullish |-> 1, bullish |-> 2]
Verdicts == DOMAIN VERDICT_SCORES
verdictScore(verdict) == VERDICT_SCORES[verdict]

\* The verdict nearest to num / den; a score half-way is the stronger verdict.
scoreToVerdict(num, den) ==
    IF 2 * num >= 3 * den THEN "bullish"
    ELSE IF 2 * num >= den THEN "moderately_bullish"
    ELSE IF 2 * num > -den THEN "neutral"
    ELSE IF 2 * num > -3 * den THEN "moderately_bearish"
    ELSE "bearish"

\* num / den to the nearest integer, a half upwards.
Round(num, den) == (2 * num + den) \div (2 * den)
Distance(a, b)  == IF a > b THEN a - b ELSE b - a
Total(values) == FoldLeft(LAMBDA sum, value : sum + value, 0, values)
SumOver(seq, value(_)) == Total([i \in DOMAIN seq |-> value(seq[i])])

-------------------------------------------------------------------------------
(* Consensus.                                                                  *)

Experts == {"technical", "options", "sector", "quant", "fundamental", "indices", "strategy",
            "risk", "education"}
DOMAIN_WEIGHTS == [expert \in Experts |-> IF expert \in {"risk", "education"} THEN 0 ELSE 1]
weightOf(expert) == DOMAIN_WEIGHTS[expert]

ScoreOf(opinion)  == opinion.confidence * verdictScore(opinion.verdict)
Votes(opinion)    == weightOf(opinion.expert) # 0
Weigh(opinion)    == weightOf(opinion.expert) * opinion.confidence
Contribute(opinion) == weightOf(opinion.expert) * ScoreOf(opinion)

\* An expert without weight adds to none of the sums and makes no contribution; contributions
\* are a function of the places of the others.
computeConsensus(opinions) ==
    LET voters     == {i \in DOMAIN opinions : Votes(opinions[i])}
        weight     == SumOver(opinions, LAMBDA o : weightOf(o.expert))
        confidence == SumOver(opinions, Weigh)
        score      == SumOver(opinions, Contribute)
    IN  [verdict       |-> IF confidence = 0 THEN "neutral" ELSE scoreToVerdict(score, confidence),
         confidence    |-> IF confidence = 0 THEN 0 ELSE Round(confidence, weight),
         contributions |-> [i \in voters |->
             [expert |-> opinions[i].expert, contribution |-> Contribute(opinions[i]),
              weight |-> weightOf(opinions[i].expert)]]]

-------------------------------------------------------------------------------
(* The risk gate.  A context is the request without its opinions.              *)

OrDefault(value, default) == IF value = UNDEFINED THEN default ELSE value
minConfidenceOf(context)      == OrDefault(context.minConfidence, 40)
minRiskRewardRatioOf(context) == OrDefault(context.minRiskRewardRatio, 150)

Unfavourable == {"bearish", "moderately_bearish"}
\* riskOpinion and idea may be UNDEFINED.
evaluateRiskGate(context, confidence, riskOpinion, idea) ==
    LET veto == \/ ~ context.dataValid
                \/ context.drawdown >= context.maxDrawdown
                \/ context.exposure >= context.maxExposure
                \/ confidence < minConfidenceOf(context)
                \/ idea # UNDEFINED /\ idea.riskRewardRatio < minRiskRewardRatioOf(context)
        caution == \/ riskOpinion # UNDEFINED /\ riskOpinion.verdict \in Unfavourable
                   \/ 10 * context.drawdown >= 8 * context.maxDrawdown
                   \/ 10 * context.exposure >= 8 * context.maxExposure
    IN  [level    |-> IF veto THEN 1 ELSE IF caution THEN 2 ELSE 3,
         approved |-> ~ veto]

-------------------------------------------------------------------------------
(* Trade ideas.                                                                *)

stopLossPctOf(context)           == OrDefault(context.stopLossPct, 2)
targetRiskRewardRatioOf(context) == OrDefault(context.targetRiskRewardRatio, 200)

\* The prices an idea for this verdict has, after rounding.
PricesOf(verdict, context) ==
    LET price == context.referencePrice
        side  == IF verdictScore(verdict) > 0 THEN 1 ELSE -1
        risk  == price * stopLossPctOf(context)
    IN  [direction |-> IF side = 1 THEN "long" ELSE "short",
         entry     |-> price,
         stopLoss  |-> Round(price * 100 - side * risk, 100),
         target    |-> Round(price * 10000 + side * risk * targetRiskRewardRatioOf(context), 10000)]
RatioOf(prices) == Round(100 * Distance(prices.target, prices.entry),
                         Distance(prices.entry, prices.stopLoss))

\* A trade idea has the ratio that its prices have.
IdeaOf(prices, ratio) ==
    [direction |-> prices.direction, entry |-> prices.entry, stopLoss |-> prices.stopLoss,
     target |-> prices.target, riskRewardRatio |-> ratio]

\* UNDEFINED where there is no direction to trade in.
generateTradeIdea_AsAsked(verdict, context) ==
    LET prices == PricesOf(verdict, context)
    IN  IF \/ context.referencePrice <= 0
           \/ stopLossPctOf(context) <= 0 \/ stopLossPctOf(context) >= 100
           \/ targetRiskRewardRatioOf(context) <= 0
        THEN THROWN
        ELSE IF verdictScore(verdict) = 0 THEN UNDEFINED
        ELSE IF prices.entry = prices.stopLoss THEN THROWN
        ELSE IdeaOf(prices, targetRiskRewardRatioOf(context))
generateTradeIdea(verdict, context) ==
    LET prices == PricesOf(verdict, context)
    IN  IF \/ context.referencePrice <= 0
           \/ stopLossPctOf(context) <= 0 \/ stopLossPctOf(context) >= 100
           \/ targetRiskRewardRatioOf(context) <= 0
        THEN THROWN
        ELSE IF verdictScore(verdict) = 0 THEN UNDEFINED
        ELSE IF prices.entry = prices.stopLoss THEN THROWN
        ELSE IdeaOf(prices, RatioOf(prices))

-------------------------------------------------------------------------------
(* The trace.                                                                  *)

\* Contributions are kept by expert: of two by one expert, the last.
ContributionOf(consensus, expert) ==
    LET own == {i \in DOMAIN consensus.contributions :
                   consensus.contributions[i].expert = expert}
    IN  IF own = {} THEN UNDEFINED ELSE consensus.contributions[Max(own)]

buildExplainabilityTrace_Unweighted(opinions, consensus) ==
    [i \in DOMAIN opinions |->
        LET own == ContributionOf(consensus, opinions[i].expert)
        IN  [expert |-> opinions[i].expert, verdict |-> opinions[i].verdict,
             confidence |-> opinions[i].confidence,
             weight       |-> IF own = UNDEFINED THEN 0 ELSE own.weight,
             included     |-> own # UNDEFINED,
             contribution |-> IF own = UNDEFINED THEN 0 ELSE verdictScore(opinions[i].verdict)]]
buildExplainabilityTrace(opinions, consensus) ==
    [i \in DOMAIN opinions |->
        LET own == ContributionOf(consensus, opinions[i].expert)
        IN  [expert |-> opinions[i].expert, verdict |-> opinions[i].verdict,
             confidence |-> opinions[i].confidence,
             weight       |-> IF own = UNDEFINED THEN 0 ELSE own.weight,
             included     |-> own # UNDEFINED,
             contribution |-> IF own = UNDEFINED THEN 0 ELSE own.contribution]]

reproduceVerdictFromTrace(trace) ==
    LET confidence == SumOver(trace, LAMBDA e : IF e.included THEN e.weight * e.confidence ELSE 0)
        score      == SumOver(trace, LAMBDA e : IF e.included THEN e.contribution ELSE 0)
    IN  IF confidence = 0 THEN "neutral" ELSE scoreToVerdict(score, confidence)

-------------------------------------------------------------------------------
(* The verdict.                                                                *)

FirstBy(opinions, expert) ==
    LET own == {i \in DOMAIN opinions : opinions[i].expert = expert}
    IN  IF own = {} THEN UNDEFINED ELSE opinions[Min(own)]

buildCioVerdict(opinions, context) ==
    LET consensus == computeConsensus(opinions)
        idea      == generateTradeIdea(consensus.verdict, context)
        gate      == evaluateRiskGate(context, consensus.confidence, FirstBy(opinions, "risk"), idea)
    IN  IF idea = THROWN THEN THROWN
        ELSE [verdict    |-> consensus.verdict,
              confidence |-> consensus.confidence,
              tradeIdeas |-> IF gate.approved /\ idea # UNDEFINED THEN {idea} ELSE {},
              trace      |-> buildExplainabilityTrace(opinions, consensus),
              riskGate   |-> gate]

===============================================================================
