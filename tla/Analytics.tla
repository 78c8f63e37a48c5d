------------------------------ MODULE Analytics ------------------------------
(***************************************************************************)
(* services/analytics: what a user's statistics and stored reports say,    *)
(* while trades are recorded and closed (services/journal) and equity      *)
(* snapshots are taken, for any moment and in any order                    *)
(* (services/portfolio).                                                   *)
(*                                                                         *)
(* Every route loads the entries and the snapshots in two independent      *)
(* reads, each a statement of its own, and computes from what it read.     *)
(***************************************************************************)
EXTENDS TradeStats, Tables

CONSTANTS
    Trades,      \* the trades a user may make: symbol, filled, verdict, direction, ratio, committed
    Pnls,        \* the profits and losses a close may realize
    Moments,     \* the asOf times of snapshots
    Equities,    \* the equities of snapshots
    Ranges,      \* the periods asked for, [from, to], either of which may be null
    Buckets,     \* the number of buckets of the distribution
    Queries,     \* the requests of a behaviour, each served once
    MaxTrades,   \* bound on the trades recorded
    MaxEvents    \* bound on the trades recorded, trades closed and snapshots taken

ASSUME NullAssumption == null \notin Int /\ null \notin [num : Int, den : Int]
ASSUME TradesAssumption == (\A trade \in Trades : trade.filled \in Int) /\ Pnls \subseteq Int
ASSUME BucketsAssumption == Buckets \in Nat \ {0}
ASSUME CurveAssumption == Moments \subseteq Int /\ Equities \subseteq Int
ASSUME BoundsAssumption == MaxTrades \in Nat /\ MaxEvents \in Nat

VARIABLES
    journal,     \* the user's entries, oldest first
    equitySnapshots, \* the user's equity snapshots, and how many there are of each
    request,     \* where each request is, and what it has read
    reports      \* the rows of analytics_reports, oldest first

analyticsVars == <<journal, equitySnapshots, request, reports>>

-------------------------------------------------------------------------------

Entries   == [trade : Trades, status : {"open", "closed"}, pnl : Pnls \cup {null}]
Snapshots == [asOf : Moments, equity : Equities]
Sections  == {"performance", "strategies", "distribution", "heatmap", "sessions",
              "instruments", "monthly"}

\* loaded: what each read returned, after the range is applied.
Idle(r)       == request[r].at = "idle"
Loading(r)    == request[r].at = "loading"
EntriesOf(r)  == request[r].entries
CurveOf(r)    == request[r].curve
Loaded(r)     == Loading(r) /\ EntriesOf(r) # null /\ CurveOf(r) # null

\* The fields the statistics read, of the entry a trade became.
Entry(row) ==
    [symbol |-> row.trade.symbol, filled |-> row.trade.filled, verdict |-> row.trade.verdict,
     direction |-> row.trade.direction, ratio |-> row.trade.ratio,
     committed |-> row.trade.committed, status |-> row.status, pnl |-> row.pnl]

Within(range, at) == /\ range.from = null \/ at >= range.from
                     /\ range.to = null \/ at <= range.to

Events == Len(journal) + Cardinality({i \in DOMAIN journal : journal[i].status = "closed"})
          + SumFunction(equitySnapshots)

AnalyticsInit ==
    /\ journal = << >>
    /\ equitySnapshots = EmptyTable
    /\ request = [r \in Queries |-> [at |-> "idle"]]
    /\ reports = << >>

-------------------------------------------------------------------------------
(* The rest of the system.                                                     *)

TradeRecorded(trade) ==
    /\ Len(journal) < MaxTrades
    /\ Events < MaxEvents
    /\ journal' = Append(journal, [trade |-> trade, status |-> "open", pnl |-> null])
    /\ UNCHANGED <<equitySnapshots, request, reports>>

TradeClosed(i, pnl) ==
    /\ Events < MaxEvents
    /\ journal[i].status = "open"
    /\ journal' = [journal EXCEPT ![i].status = "closed", ![i].pnl = pnl]
    /\ UNCHANGED <<equitySnapshots, request, reports>>

SnapshotTaken(asOf, equity) ==
    /\ Events < MaxEvents
    /\ LET s      == [asOf |-> asOf, equity |-> equity]
           copies == IF s \in DOMAIN equitySnapshots THEN equitySnapshots[s] ELSE 0
       IN  equitySnapshots' = Put(equitySnapshots, s, copies + 1)
    /\ UNCHANGED <<journal, request, reports>>

-------------------------------------------------------------------------------
(* A request.                                                                  *)

\* stored: the reports stored before the request began.
Begin(r, range) ==
    /\ Idle(r)
    /\ request' = [request EXCEPT ![r] = [at |-> "loading", range |-> range, entries |-> null,
                                          curve |-> null, stored |-> Len(reports)]]
    /\ UNCHANGED <<journal, equitySnapshots, reports>>

ReadEntries(r) ==
    /\ Loading(r) /\ EntriesOf(r) = null
    /\ LET kept == {i \in DOMAIN journal : Within(request[r].range, journal[i].trade.filled)}
       IN  request' = [request EXCEPT ![r].entries = [i \in kept |-> Entry(journal[i])]]
    /\ UNCHANGED <<journal, equitySnapshots, reports>>

\* The copies of the snapshots of the range; and copies in some order, each as often as there is one.
InRange(range, copies) == [s \in {t \in DOMAIN copies : Within(range, t.asOf)} |-> copies[s]]
Listings(copies) ==
    {rows \in [1..SumFunction(copies) -> DOMAIN copies] :
        \A s \in DOMAIN copies : Cardinality({i \in DOMAIN rows : rows[i] = s}) = copies[s]}
\* The order of their asOf: of two with the same one, either may come first.
InOrderOfAsOf(rows) == \A i, j \in DOMAIN rows : i < j => rows[i].asOf <= rows[j].asOf
Equity(rows) == [i \in DOMAIN rows |-> rows[i].equity]

ReadSnapshots_Unordered(r) ==
    /\ Loading(r) /\ CurveOf(r) = null
    /\ \E rows \in Listings(InRange(request[r].range, equitySnapshots)) :
          request' = [request EXCEPT ![r].curve = Equity(rows)]
    /\ UNCHANGED <<journal, equitySnapshots, reports>>
ReadSnapshots(r) ==
    /\ Loading(r) /\ CurveOf(r) = null
    /\ \E rows \in Listings(InRange(request[r].range, equitySnapshots)) :
          /\ InOrderOfAsOf(rows)
          /\ request' = [request EXCEPT ![r].curve = Equity(rows)]
    /\ UNCHANGED <<journal, equitySnapshots, reports>>

\* What the GET route of a section replies.
Rows(section, j) ==
    CASE section = "strategies"  -> computeStrategyStats(j)
      [] section = "heatmap"     -> computeHeatmap(j)
      [] section = "sessions"    -> computeSessionAnalysis(j)
      [] section = "instruments" -> computeInstrumentAnalysis(j)
      [] section = "monthly"     -> computeMonthlyReports(j)
Reply(section, j, curve) ==
    CASE section = "performance"  -> computeFullStatSet(j, curve)
      [] section = "distribution" -> computeTradeDistribution(j, Buckets)
      [] OTHER                    -> Rows(section, j)

\* A GET route: the reply is computed from what was read, and nothing is stored.
Respond(r) ==
    /\ Loaded(r)
    /\ request' = [request EXCEPT ![r] = [at |-> "over"]]
    /\ UNCHANGED <<journal, equitySnapshots, reports>>

\* The row a report becomes: the statistics are the server's, only the range is the client's.
ReportRow(r) ==
    [range |-> request[r].range,
     stats |-> computeFullStatSet(EntriesOf(r), CurveOf(r)),
     after |-> request[r].stored]

\* POST /analytics/reports.
Store(r) ==
    /\ Loaded(r)
    /\ reports' = Append(reports, ReportRow(r))
    /\ request' = [request EXCEPT ![r] = [at |-> "over"]]
    /\ UNCHANGED <<journal, equitySnapshots>>

\* A read or the insert failed: the error handler replies 500.
FailQuery(r) ==
    /\ Loading(r)
    /\ request' = [request EXCEPT ![r] = [at |-> "over"]]
    /\ UNCHANGED <<journal, equitySnapshots, reports>>

AnalyticsNext ==
    \/ \E trade \in Trades : TradeRecorded(trade)
    \/ \E i \in DOMAIN journal, pnl \in Pnls : TradeClosed(i, pnl)
    \/ \E asOf \in Moments, equity \in Equities : SnapshotTaken(asOf, equity)
    \/ \E r \in Queries :
          \/ \E range \in Ranges : Begin(r, range)
          \/ ReadEntries(r) \/ ReadSnapshots(r)
          \/ Respond(r)
          \/ Store(r) \/ FailQuery(r)

AnalyticsSpec == AnalyticsInit /\ [][AnalyticsNext]_analyticsVars

-------------------------------------------------------------------------------
(* Properties.                                                                 *)

\* The type invariant; a report is stored after the reports its request began after.
AnalyticsTypeOK ==
    /\ journal \in Seq(Entries) /\ Len(journal) <= MaxTrades
    /\ DOMAIN equitySnapshots \subseteq Snapshots
    /\ \A r \in Queries : request[r].at \in {"idle", "loading", "over"}
    /\ \A k \in DOMAIN reports : reports[k].range \in Ranges /\ reports[k].after < k

\* A loaded request replies next, and with no other data; requests do not disturb each other,
\* so it is enough to look at one while no other is loading.
Replying == {r \in Queries : Loaded(r) /\ \A q \in Queries \ {r} : ~ Loading(q)}
StatsShown == {reports[k].stats : k \in DOMAIN reports}
              \cup {Reply("performance", EntriesOf(r), CurveOf(r)) : r \in Replying}

Is(a, n) == SameNumber(a, Fraction(n, 1))
Scaled(a, n) == Product(a, Fraction(n, 1))

\* The counts make up the total; expectancy and average return, multiplied out, give the realized
\* P&L they are shown beside; a figure is missing exactly when nothing supports it; expectancy is
\* positive exactly when the realized ratio pays for the losses; and a Sortino ratio is only there
\* with a drawdown and a Sharpe ratio of its sign.
Agree(s) ==
    LET decisive == s.winningTrades + s.losingTrades
        closed   == decisive + s.breakevenTrades
    IN  /\ s.totalTrades = closed + s.openTrades
        /\ s.winRate = null <=> decisive = 0
        /\ s.expectancy = null <=> decisive = 0
        /\ s.averageReturn = null <=> closed = 0
        /\ s.expectancy # null => Is(Scaled(s.expectancy, decisive), s.totalRealizedPnl)
        /\ s.averageReturn # null => Is(Scaled(s.averageReturn, closed), s.totalRealizedPnl)
        /\ s.realizedRiskRewardRatio = null <=> s.winningTrades = 0 \/ s.losingTrades = 0
        /\ s.realizedRiskRewardRatio # null =>
              (Exceeds(s.expectancy, Zero) <=>
                  Exceeds(Scaled(s.realizedRiskRewardRatio, s.winningTrades),
                          Fraction(s.losingTrades, 1)))
        /\ s.sortinoRatio # null =>
              s.sharpeRatio = s.sortinoRatio /\ Exceeds(s.maxDrawdownPct, Zero)

\* The figures of a report or of a performance reply never contradict each other.
StatsAgree == \A s \in StatsShown : Agree(s)

Added == {"totalTrades", "winningTrades", "losingTrades", "breakevenTrades", "openTrades",
          "totalRealizedPnl"}

\* Every entry is in one row of every breakdown, whatever hour, day, month, symbol or
\* recommendation it has: the rows make up the counts and the P&L of the performance reply for
\* the same entries, and the buckets of the distribution hold every closed trade, the best and
\* the worst included.  (No row depends on the curve: looking at replies without one is enough.)
BreakdownsAddUp ==
    \A r \in {q \in Replying : CurveOf(q) = << >>} :
        LET whole   == FiguresOf(EntriesOf(r))
            buckets == Reply("distribution", EntriesOf(r), CurveOf(r))
        IN  /\ \A section \in Sections \ {"performance", "distribution"} :
                  LET rows == Rows(section, EntriesOf(r))
                  IN  \A field \in {f \in Added : \A key \in DOMAIN rows : f \in DOMAIN rows[key]} :
                         SumFunction([key \in DOMAIN rows |-> rows[key][field]]) = whole[field]
            /\ SumFunction(buckets) = whole.totalTrades - whole.openTrades

\* The decline between two points of a curve, as a fraction of the first.
Decline(from, to) == Fraction(from - to, from)
Declines(curve) ==
    {Decline(curve[p[1]], curve[p[2]]) :
        p \in {q \in (DOMAIN curve) \X (DOMAIN curve) : q[1] < q[2] /\ curve[q[1]] > 0}}

\* A drawdown is the worst decline of a curve: no decline exceeds it, and when it is not zero
\* some decline is as bad.
IsWorst(shown, curve) ==
    /\ \A decline \in Declines(curve) : ~ Exceeds(decline, shown)
    /\ ~ SameNumber(shown, Zero) => \E decline \in Declines(curve) : SameNumber(decline, shown)

\* The drawdown shown is the worst decline from any snapshot to any later one, though the code
\* looks at each snapshot once.  (For equities that are never negative: below zero a lower peak
\* gives the larger fraction, and the code takes the higher one.)
DrawdownIsWorst ==
    \A r \in Replying :
        LET curve == CurveOf(r)
            shown == computeMaxDrawdownPct(curve)
        IN  (\A i \in DOMAIN curve : curve[i] >= 0) =>
                IF Len(curve) < 2 THEN shown = null ELSE IsWorst(shown, curve)

CertainOrder == \A a, b \in DOMAIN equitySnapshots : a.asOf = b.asOf => a = b
AlwaysFunded == \A s \in DOMAIN equitySnapshots : s.equity >= 0
FullHistory(k) == reports[k].range = [from |-> null, to |-> null]

\* A report on the full history takes nothing back that an earlier one said: a request begun
\* after a report was stored counts at least its trades, its closed trades and its wins, and
\* remembers its drawdown, though snapshots may be added anywhere in the past.  (As long as
\* equities are not negative and no two snapshots have one asOf, which leaves their order open.)
ReportsNeverForget ==
    \A k \in DOMAIN reports : \A i \in 1..reports[k].after :
        FullHistory(i) /\ FullHistory(k) =>
            LET old == reports[i].stats
                new == reports[k].stats
            IN  /\ new.totalTrades >= old.totalTrades
                /\ new.totalTrades - new.openTrades >= old.totalTrades - old.openTrades
                /\ new.winningTrades >= old.winningTrades
                /\ CertainOrder /\ AlwaysFunded /\ old.maxDrawdownPct # null =>
                      /\ new.maxDrawdownPct # null
                      /\ ~ Exceeds(old.maxDrawdownPct, new.maxDrawdownPct)

===============================================================================
