------------------------------- MODULE Council -------------------------------
(***************************************************************************)
(* A client of the gateway puts a council together: it asks experts, in    *)
(* any order and as often as it likes, and posts the opinions it has with  *)
(* a context to /v1/cio/verdict.  The gateway computes the verdict,        *)
(* broadcasts it, and replies.  Meanwhile financials are ingested.         *)
(***************************************************************************)
EXTENDS ExpertAgents

CONSTANTS
    Periods,        \* reporting periods, in chronological order
    Figures,        \* the financials of a period
    BarCounts,      \* how many price bars a client sends
    Readings,       \* technical readings
    Chains,         \* option chains
    Strengths,      \* relative strengths of a sector
    ZScores,
    Volatilities,
    Contexts,       \* the rest of a verdict request
    MaxBatches,     \* bound on the batches of financials
    MaxOpinions     \* bound on the opinions a client gathers

-------------------------------------------------------------------------------
(* The bodies the gateway accepts (validation.ts); any other is answered with  *)
(* a 400 before anything is computed.  Numbers may be negative throughout.     *)

\* How many bars, of a symbol, a sector and its benchmark; and a z-score or a strength.
priceBars == Nat
optionChainSnapshotBody ==
    [strikes : Nat, calls : Int, callsBefore : Int, puts : Int, putsBefore : Int]
expertOpinion == [expert : Experts, verdict : Verdicts, confidence : 0..100]
opinionsOnlyBody(ops) == \A i \in DOMAIN ops : ops[i] \in expertOpinion
riskAgentBody(ops, volatility) == opinionsOnlyBody(ops) /\ volatility \in Int \cup {UNDEFINED}

\* The context of a verdict: the portfolio, and thresholds that may be left out.
portfolioRiskContext == {"drawdown", "maxDrawdown", "exposure", "maxExposure"}
thresholds == {"minConfidence", "minRiskRewardRatio", "stopLossPct", "targetRiskRewardRatio"}
buildCioVerdictBody(ops, context) ==
    /\ opinionsOnlyBody(ops)
    /\ context.referencePrice \in Int /\ context.dataValid \in BOOLEAN
    /\ \A field \in portfolioRiskContext : context[field] \in Int
    /\ \A field \in thresholds : context[field] \in Int \cup {UNDEFINED}

\* What fundamentals-ingest.ts lets into the table: no negative debt.
validateFinancials == [growth : Int, margin : Int, debt : Nat]

ASSUME InputsAssumption ==
    /\ BarCounts \subseteq priceBars
    /\ Readings \subseteq TechnicalReading
    /\ Chains \subseteq optionChainSnapshotBody
    /\ Strengths \subseteq Int /\ ZScores \subseteq Int
    /\ Figures \subseteq validateFinancials
\* A gap is no contribution to a verdict.
ASSUME GapsAssumption == UNDEFINED \notin [expert : Experts, contribution : Int, weight : Int]
ASSUME PeriodsAssumption == Periods \subseteq Int
ASSUME BoundsAssumption == MaxBatches \in Nat /\ MaxOpinions \in Nat

VARIABLES
    fundamentals,   \* the rows of company_fundamentals of the symbol, by period
    batches,        \* how many batches have been ingested: the clock of ingested_at
    opinions,       \* what the client has gathered
    verdictCall     \* where the handler of the verdict request is, and its verdict

councilVars == <<fundamentals, batches, opinions, verdictCall>>

-------------------------------------------------------------------------------

Asking == verdictCall.at = "idle"

CouncilInit ==
    /\ fundamentals = << >>
    /\ batches = 0
    /\ opinions = << >>
    /\ verdictCall = [at |-> "idle"]

\* A batch: for each of some periods, its figures.  A period that is stored is skipped.
InsertFinancials(batch) ==
    /\ batches < MaxBatches
    /\ batches' = batches + 1
    /\ fundamentals' = fundamentals @@
          [period \in DOMAIN batch |-> [figures |-> batch[period], ingestedAt |-> batches + 1]]
    /\ UNCHANGED <<opinions, verdictCall>>

\* What a lookup may find: a row ingested last, UNDEFINED where there is none.
LatestBySymbol ==
    IF DOMAIN fundamentals = {} THEN {UNDEFINED}
    ELSE {fundamentals[p].figures : p \in {q \in DOMAIN fundamentals :
             \A other \in DOMAIN fundamentals :
                 fundamentals[other].ingestedAt <= fundamentals[q].ingestedAt}}

-------------------------------------------------------------------------------
(* Asking an expert: the gateway runs the agent on what the client sends.      *)

Gather(opinion) ==
    /\ Asking
    /\ Len(opinions) < MaxOpinions
    /\ opinions' = Append(opinions, opinion)
    /\ UNCHANGED <<fundamentals, batches, verdictCall>>

AskTechnical   == \E bars \in BarCounts, reading \in Readings :
                      Gather(TechnicalAgent("technical", analyzeTechnical(bars, reading)))
AskIndices     == \E bars \in BarCounts, reading \in Readings :
                      Gather(IndicesAgent(analyzeTechnical(bars, reading)))
AskOptions     == \E chain \in Chains : Gather(OptionsAgent(analyzeOptionChain(chain)))
AskSector      == \E bars \in BarCounts, strength \in Strengths :
                      Gather(SectorAgent(analyzeSector(bars, strength)))
AskQuant       == \E bars \in BarCounts, zScore \in ZScores :
                      Gather(QuantAgent(analyzeQuant(bars, zScore)))
AskFundamental == \E figures \in LatestBySymbol :
                      Gather(FundamentalAgent(analyzeFundamentals(figures)))
AskStrategy    == opinionsOnlyBody(opinions) /\ Gather(StrategyAgent(opinions))
AskEducation   == opinionsOnlyBody(opinions) /\ Gather(EducationAgent(opinions))
AskRisk        == \E volatility \in Volatilities \cup {UNDEFINED} :
                      riskAgentBody(opinions, volatility) /\ Gather(RiskAgent(opinions, volatility))

-------------------------------------------------------------------------------
(* POST /v1/cio/verdict.                                                       *)

PostVerdict(context) ==
    /\ Asking
    /\ buildCioVerdictBody(opinions, context)
    /\ LET verdict == buildCioVerdict(opinions, context)
       IN  verdictCall' = IF verdict = THROWN THEN [at |-> "failed"]
                      ELSE [at |-> "publishing", context |-> context, verdict |-> verdict]
    /\ UNCHANGED <<fundamentals, batches, opinions>>

\* On CIO_VERDICTS_CHANNEL, vetoed verdicts too.
Publish ==
    /\ verdictCall.at = "publishing"
    /\ verdictCall' = [at |-> "replied"]
    /\ UNCHANGED <<fundamentals, batches, opinions>>

\* The client gets a 500 for its verdict, which subscribers may have received all the same.
PublishFails ==
    /\ verdictCall.at = "publishing"
    /\ verdictCall' = [at |-> "failed"]
    /\ UNCHANGED <<fundamentals, batches, opinions>>

CouncilNext ==
    \/ \E periods \in SUBSET Periods \ {{}} : \E batch \in [periods -> Figures] :
          InsertFinancials(batch)
    \/ AskTechnical \/ AskIndices \/ AskOptions \/ AskSector \/ AskQuant \/ AskFundamental
    \/ AskStrategy \/ AskEducation \/ AskRisk
    \/ \E context \in Contexts : PostVerdict(context)
    \/ Publish \/ PublishFails

CouncilSpec == CouncilInit /\ [][CouncilNext]_councilVars

-------------------------------------------------------------------------------
(* Properties.                                                                 *)

CouncilTypeOK ==
    /\ DOMAIN fundamentals \subseteq Periods
    /\ \A p \in DOMAIN fundamentals :
          fundamentals[p] \in [figures : Figures, ingestedAt : 1..batches]
    /\ batches \in 0..MaxBatches
    /\ Len(opinions) <= MaxOpinions
    /\ verdictCall.at \in {"idle", "publishing", "replied", "failed"}

\* No agent ever says what opinion-schema.ts refuses, so that no council call ends in a 500:
\* whatever the figures, an average of confidences is one, and points lost to risk leave one.
\* A gap is neutral without confidence.
OpinionsAreValid == Asking => \A i \in DOMAIN opinions : ValidOpinion(opinions[i])

HasVerdict == verdictCall.at = "publishing"
\* Decision D8: risk and education are heard, and have no vote.
HasVote(opinion) == opinion.expert \notin {"risk", "education"}
Hear(voters, opinion) == IF HasVote(opinion) THEN Append(voters, opinion) ELSE voters
Voters(ops) == FoldLeft(Hear, << >>, ops)
\* No expert with a vote speaks twice.
DistinctVoters(ops) ==
    \A i, j \in DOMAIN ops : HasVote(ops[i]) /\ ops[i].expert = ops[j].expert => i = j

\* A verdict only comes with a trade idea that its own prices bear out: the stop is on the losing
\* side of the entry and the target never is after rounding to cents, the ratio between them is at
\* least the minimum asked for (where a ratio was asked for, the target is on the winning side), the
\* direction is one that some expert with a vote took, and the council was confident enough, on
\* valid data, for a portfolio within its limits.
IdeasAreSound ==
    HasVerdict => \A idea \in verdictCall.verdict.tradeIdeas :
        LET context == verdictCall.context
            side    == IF idea.direction = "long" THEN 1 ELSE -1
            risk    == side * (idea.entry - idea.stopLoss)
            reward  == side * (idea.target - idea.entry)
        IN  /\ risk > 0 /\ reward >= 0
            /\ minRiskRewardRatioOf(context) > 0 => reward > 0
            /\ Round(100 * reward, risk) >= minRiskRewardRatioOf(context)
            /\ \E i \in DOMAIN opinions :
                  /\ HasVote(opinions[i]) /\ opinions[i].confidence > 0
                  /\ side * verdictScore(opinions[i].verdict) > 0
            /\ verdictCall.verdict.confidence >= minConfidenceOf(context)
            /\ context.dataValid
            /\ context.drawdown < context.maxDrawdown /\ context.exposure < context.maxExposure

\* The trace alone is enough to work the verdict out again, as trace.ts asks of it: it holds for
\* councils in which no expert with a vote speaks twice.  (Of two opinions of one expert the trace
\* keeps one contribution, and shows it for both.)
TraceExplains ==
    HasVerdict /\ DistinctVoters(opinions) =>
        reproduceVerdictFromTrace(verdictCall.verdict.trace) = verdictCall.verdict.verdict

SameCall(ops1, ops2) ==
    LET one == computeConsensus(ops1)
        two == computeConsensus(ops2)
    IN  one.verdict = two.verdict /\ one.confidence = two.confidence

\* Only experts with a vote move a verdict, and no expert's place in the list does: leaving risk
\* and education out, or reading the list backwards, changes neither verdict nor confidence.  The
\* verdict is between those of the experts who are not silent, and a gap only lowers confidence.
OnlyVotersVote ==
    LET voters  == Voters(opinions)
        heard   == {i \in DOMAIN voters : voters[i].confidence > 0}
        scores  == {verdictScore(voters[i].verdict) : i \in heard}
        call    == computeConsensus(opinions)
        withGap == computeConsensus(Append(opinions, gapOpinion("sector")))
    IN  Asking =>
        /\ SameCall(opinions, voters)
        /\ SameCall(opinions, Reverse(opinions))
        /\ heard # {} => verdictScore(call.verdict) \in Min(scores)..Max(scores)
        /\ withGap.verdict = call.verdict /\ withGap.confidence <= call.confidence

\* The strategy expert has a vote of its own although it only repeats the council: where it is
\* asked about experts with a vote, its opinion changes neither their verdict nor its confidence.
StrategyEchoes ==
    LET voters == Voters(opinions)
    IN  Asking /\ voters # << >> => SameCall(Append(voters, StrategyAgent(voters)), voters)

\* However a council is put together, a vote counts once: not for its place in the list, not
\* for coming with those who have none, and not again through the strategy expert.
VotesCountOnce == OnlyVotersVote /\ StrategyEchoes

===============================================================================
