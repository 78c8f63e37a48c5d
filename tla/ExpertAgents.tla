----------------------------- MODULE ExpertAgents -----------------------------
(***************************************************************************)
(* services/research and services/ai: the opinions the nine experts form   *)
(* of what the research modules report, or of each other's opinions.       *)
(*                                                                         *)
(* The arithmetic of indicators over price bars is left out: what a        *)
(* research module reports is a record of the figures the agents look at,  *)
(* or UNDEFINED for a gap.                                                      *)
(***************************************************************************)
EXTENDS CioEngine

Opinion(expert, verdict, confidence) ==
    [expert |-> expert, verdict |-> verdict, confidence |-> confidence]
gapOpinion(expert) == Opinion(expert, "neutral", 0)

\* opinion-schema.ts: what the framework lets an agent say.
ValidOpinion(opinion) ==
    /\ opinion.expert \in Experts
    /\ opinion.verdict \in Verdicts
    /\ opinion.confidence \in 0..100

Least(a, b)    == IF a < b THEN a ELSE b
Greatest(a, b) == IF a > b THEN a ELSE b

-------------------------------------------------------------------------------
(* Experts who read research.                                                  *)

\* bars: how many; the other figures are those of the indicators over them.
analyzeTechnical(bars, reading) == IF bars < 50 THEN UNDEFINED ELSE reading
TechnicalReading == [rsi14 : Int, trend : -1..1, momentum : -1..1, breakout : -1..1]

TechnicalNet(reading) ==
    (IF reading.rsi14 >= 60 THEN 1 ELSE IF reading.rsi14 <= 40 THEN -1 ELSE 0)
        + reading.trend + reading.momentum + reading.breakout
TechnicalAgent(expert, reading) ==
    IF reading = UNDEFINED THEN gapOpinion(expert)
    ELSE LET net == TechnicalNet(reading)
         IN  Opinion(expert,
                     CHOOSE verdict \in Verdicts :
                         verdictScore(verdict) = Greatest(-2, Least(2, net)),
                     Least(95, 50 + Distance(net, 0) * 12))
IndicesAgent(reading) == TechnicalAgent("indices", reading)

\* A chain: the open interest of all its calls and puts, now and before.
analyzeOptionChain(chain) ==
    LET calls == chain.calls - chain.callsBefore
        puts  == chain.puts - chain.putsBefore
    IN  IF chain.strikes = 0 \/ chain.calls = 0 THEN UNDEFINED
        ELSE IF calls > 0 /\ puts <= 0 THEN "call_writing"
        ELSE IF puts > 0 /\ calls <= 0 THEN "put_writing"
        ELSE IF calls < 0 /\ puts >= 0 THEN "call_unwinding"
        ELSE IF puts < 0 /\ calls >= 0 THEN "put_unwinding"
        ELSE "neutral"
OptionsAgent(interpretation) ==
    IF interpretation = UNDEFINED THEN gapOpinion("options")
    ELSE CASE interpretation = "call_writing"   -> Opinion("options", "moderately_bearish", 65)
           [] interpretation = "put_writing"    -> Opinion("options", "moderately_bullish", 65)
           [] interpretation = "call_unwinding" -> Opinion("options", "moderately_bullish", 55)
           [] interpretation = "put_unwinding"  -> Opinion("options", "moderately_bearish", 55)
           [] interpretation = "neutral"        -> Opinion("options", "neutral", 50)

\* The relative strength of the sector, in hundredths of a percent, against a threshold of 2 %.
analyzeSector(bars, strength) ==
    IF bars < 2 THEN UNDEFINED
    ELSE IF strength > 200 THEN "inflow" ELSE IF strength < -200 THEN "outflow" ELSE "neutral"
SectorAgent(rotation) ==
    IF rotation = UNDEFINED THEN gapOpinion("sector")
    ELSE CASE rotation = "inflow"  -> Opinion("sector", "moderately_bullish", 60)
           [] rotation = "outflow" -> Opinion("sector", "moderately_bearish", 60)
           [] rotation = "neutral" -> Opinion("sector", "neutral", 50)

\* The z-score in hundredths.
analyzeQuant(bars, zScore) ==
    IF bars < 21 THEN UNDEFINED
    ELSE IF zScore <= -150 THEN "buy" ELSE IF zScore >= 150 THEN "sell" ELSE "hold"
QuantAgent(signal) ==
    IF signal = UNDEFINED THEN gapOpinion("quant")
    ELSE CASE signal = "buy"  -> Opinion("quant", "moderately_bullish", 60)
           [] signal = "sell" -> Opinion("quant", "moderately_bearish", 60)
           [] signal = "hold" -> Opinion("quant", "neutral", 50)

\* figures: growth and margin in percent, and debt to equity in hundredths.
analyzeFundamentals(figures) ==
    IF figures = UNDEFINED THEN UNDEFINED
    ELSE IF figures.growth < 0 \/ figures.margin < 0 \/ figures.debt > 200 THEN "weak"
    ELSE IF figures.growth > 15 /\ figures.margin > 15 /\ figures.debt < 100 THEN "strong"
    ELSE "stable"
FundamentalAgent(health) ==
    IF health = UNDEFINED THEN gapOpinion("fundamental")
    ELSE CASE health = "strong" -> Opinion("fundamental", "bullish", 70)
           [] health = "weak"   -> Opinion("fundamental", "moderately_bearish", 65)
           [] health = "stable" -> Opinion("fundamental", "neutral", 50)

-------------------------------------------------------------------------------
(* Experts who read opinions.                                                  *)

ConfidenceOf(opinion) == opinion.confidence
\* The verdict and the confidence of opinions taken together, whoever gave them.
Blend(opinions) ==
    LET confidence == SumOver(opinions, ConfidenceOf)
    IN  [verdict    |-> IF confidence = 0 THEN "neutral"
                        ELSE scoreToVerdict(SumOver(opinions, ScoreOf), confidence),
         confidence |-> Round(confidence, Len(opinions))]

StrategyAgent_OneVoteEach(opinions) ==
    IF opinions = << >> THEN gapOpinion("strategy")
    ELSE Opinion("strategy",
                 scoreToVerdict(SumOver(opinions, LAMBDA o : verdictScore(o.verdict)), Len(opinions)),
                 Blend(opinions).confidence)
StrategyAgent(opinions) ==
    IF opinions = << >> THEN gapOpinion("strategy")
    ELSE Opinion("strategy", Blend(opinions).verdict, Blend(opinions).confidence)

EducationAgent_Sum(opinions) ==
    IF opinions = << >> THEN gapOpinion("education")
    ELSE Opinion("education", Blend(opinions).verdict, SumOver(opinions, ConfidenceOf))
EducationAgent(opinions) ==
    IF opinions = << >> THEN gapOpinion("education")
    ELSE Opinion("education", Blend(opinions).verdict, Blend(opinions).confidence)

\* Whether the deviation of the experts' scores is at least quarters / 4.
Spread(opinions, quarters) ==
    LET n   == Len(opinions)
        sum == SumOver(opinions, LAMBDA o : verdictScore(o.verdict))
        squares == SumOver(opinions, LAMBDA o : verdictScore(o.verdict) * verdictScore(o.verdict))
    IN  n > 1 /\ 16 * (n * squares - sum * sum) >= quarters * quarters * n * n

\* volatility: in percent, or UNDEFINED when the caller has none.
RiskAgent(opinions, volatility) ==
    LET known  == OrDefault(volatility, 0)
        points == (IF known >= 30 THEN 2 ELSE IF known >= 15 THEN 1 ELSE 0)
                    + (IF Spread(opinions, 6) THEN 2 ELSE IF Spread(opinions, 3) THEN 1 ELSE 0)
    IN  IF opinions = << >> /\ volatility = UNDEFINED THEN gapOpinion("risk")
        ELSE Opinion("risk",
                     CHOOSE verdict \in Verdicts : verdictScore(verdict) = 2 - points,
                     Greatest(30, 90 - points * 12))

===============================================================================
