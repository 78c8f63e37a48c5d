------------------------------- MODULE Portfolio ------------------------------
(***************************************************************************)
(* services/portfolio: marking an account's journal to market, and the     *)
(* snapshots POST /portfolio/snapshot stores, while the journal and the    *)
(* market move under the request.                                          *)
(*                                                                         *)
(* A request reads the journal once, then the latest price of each open    *)
(* position, one await after the other, and computes everything it answers *)
(* from these reads.  The journal is the JournalBook.  Prices are whole    *)
(* numbers, and an average is multiplied out before it is divided, so that *)
(* nothing is rounded unless a symbol is held both ways.                   *)
(***************************************************************************)
EXTENDS Integers, FiniteSetsExt, Tables, MarketTicks

CONSTANTS
    Users, Symbols, EntryIds,
    Fills,         \* the fills that journal entries snapshot
    ExitPrices, Times, Prices,
    StartingCash,  \* PORTFOLIO_STARTING_CASH
    Requests,      \* the requests of a behaviour, each served once
    NULL

ASSUME NumbersAssumption ==
    /\ StartingCash \in Int
    /\ Symbols \subseteq Nat
    /\ Prices \cup ExitPrices \subseteq Nat \ {0}
    /\ Times \subseteq Nat
ASSUME FillsAssumption ==
    \A fill \in Fills : /\ fill.symbol \in Symbols /\ fill.side \in {"buy", "sell"}
                        /\ fill.quantity \in Nat \ {0} /\ fill.price \in Nat \ {0}

VARIABLES
    users, ticks,
    entries,     \* table journal_entries: id -> row
    snapshots,   \* table portfolio_snapshots, by the request that inserted the row
    view,        \* what each handler has read so far
    pc           \* where each handler is, or the reply it gave

vars == <<users, ticks, entries, snapshots, view, pc>>

Book == INSTANCE JournalBook

Row == [user : Users \cup {NULL}, fill : Fills, status : {"open", "closed"},
        exitPrice : ExitPrices \cup {NULL}, pnl : Int \cup {NULL}]

-------------------------------------------------------------------------------
(* positions.ts, over trades: a table of the journal's rows of one account.     *)

Signed(row) == Book!Direction(row.fill.side) * row.fill.quantity

OpenIn(trades, s) ==
    {id \in DOMAIN trades : trades[id].status = "open" /\ trades[id].fill.symbol = s}

\* direction * quantity of the position in s; a wash has no position.
Net(trades, s) == SumFunction([id \in OpenIn(trades, s) |-> Signed(trades[id])])

PositionSymbols(trades) == {s \in Symbols : Net(trades, s) # 0}

\* direction * quantity * averageEntryPrice, where the average is weighted by the quantities
\* of all open trades of the symbol, on both sides.
EntryValue(trades, s) ==
    LET open          == OpenIn(trades, s)
        totalCost     == SumFunction([id \in open |-> trades[id].fill.quantity * trades[id].fill.price])
        totalQuantity == SumFunction([id \in open |-> trades[id].fill.quantity])
    IN  (Net(trades, s) * totalCost) \div totalQuantity

MarketValue(trades, s, price) == Net(trades, s) * price

-------------------------------------------------------------------------------
(* cash.ts, pnl.ts, mtm.ts; priced[s] is the quote of the position in s.        *)

ClosedIn(trades) == {id \in DOMAIN trades : trades[id].status = "closed"}

CashBalance(trades) ==
    LET openLeg  == [id \in DOMAIN trades |-> -Signed(trades[id]) * trades[id].fill.price]
        closeLeg == [id \in ClosedIn(trades) |-> Signed(trades[id]) * trades[id].exitPrice]
    IN  StartingCash + SumFunction(openLeg) + SumFunction(closeLeg)

RealizedPnl(trades) == SumFunction([id \in ClosedIn(trades) |-> trades[id].pnl])

UnrealizedPnl(trades, priced) ==
    SumFunction([s \in DOMAIN priced |->
                    Net(trades, s) * priced[s].price - EntryValue(trades, s)])

PositionsValue(trades, priced) ==
    SumFunction([s \in DOMAIN priced |-> MarketValue(trades, s, priced[s].price)])

TotalEquity(trades, priced) ==
    StartingCash + RealizedPnl(trades) + UnrealizedPnl(trades, priced)

(* allocation.ts, risk.ts *)

Abs(n) == IF n < 0 THEN -n ELSE n

GrossExposure(trades, priced) ==
    SumFunction([s \in DOMAIN priced |-> Abs(MarketValue(trades, s, priced[s].price))])

\* What allocationPct and largestPositionPct are the share of the gross exposure of.
Exposures(trades, priced) ==
    [s \in DOMAIN priced |-> Abs(MarketValue(trades, s, priced[s].price))]

\* The largest of no positions is 0, and so is the share of it.
RiskExposure(trades, priced) ==
    LET exposures == Exposures(trades, priced)
    IN  [grossExposure   |-> GrossExposure(trades, priced),
         netExposure     |-> PositionsValue(trades, priced),
         largestPosition |-> Max({exposures[s] : s \in DOMAIN priced} \cup {0})]

-------------------------------------------------------------------------------

\* "seen" is a history field: the latest ticks of the positions when the journal was read.
Quote == [price : Prices, asOf : Times]
NoView == [kind |-> "none"]

IsView(v) ==
    /\ v.kind \in {"holdings", "summary", "snapshot"}
    /\ v.user \in Users
    /\ IsTable(v.trades, EntryIds, Row)
    /\ v.seen \in [PositionSymbols(v.trades) -> SUBSET Times]
    /\ v.todo \subseteq PositionSymbols(v.trades)
    /\ v.missing \subseteq PositionSymbols(v.trades) \ v.todo
    /\ IsTable(v.priced, PositionSymbols(v.trades), Quote)
    /\ DOMAIN v.priced = IF v.kind = "holdings" THEN {}
                        ELSE PositionSymbols(v.trades) \ (v.todo \cup v.missing)

Snapshot == [user : Users \cup {NULL}, cashBalance : Int, positionsValue : Int,
             realizedPnl : Int, unrealizedPnl : Int, totalEquity : Int]

\* 2xx, 409, 500, and no reply at all.
Replies == {"ok", "conflict", "error", "lost"}

TypeOK ==
    /\ users \subseteq Users
    /\ IsTicks(ticks, Symbols, Times, Prices)
    /\ IsTable(entries, EntryIds, Row)
    /\ IsTable(snapshots, Requests, Snapshot)
    /\ \A q \in Requests : IF pc[q] \in {"pricing", "ok"} THEN IsView(view[q]) ELSE view[q] = NoView
    /\ pc \in [Requests -> {"idle", "pricing"} \cup Replies]

Init ==
    /\ users = Users
    /\ ticks = NoTicks(Symbols)
    /\ entries = EmptyTable
    /\ snapshots = EmptyTable
    /\ view = [q \in Requests |-> NoView]
    /\ pc = [q \in Requests |-> "idle"]

Goto(q, where) == pc' = [pc EXCEPT ![q] = where]

\* The handler ends with an error; what it had read is gone.
Fail(q, reply) == Goto(q, reply) /\ view' = [view EXCEPT ![q] = NoView]

-------------------------------------------------------------------------------
(* computeMarkToMarket, which every route but positions and cash ("holdings")   *)
(* answers from.                                                               *)

TradesOf(table, u) == [id \in {i \in DOMAIN table : table[i].user = u} |-> table[id]]

\* await listByUser: the journal as one query sees it.
ListTrades(q) ==
    \E u \in Users, kind \in {"holdings", "summary", "snapshot"} :
        LET trades == TradesOf(entries, u)
        IN  /\ pc[q] = "idle"
            /\ view' = [view EXCEPT ![q] =
                  [kind |-> kind, user |-> u, trades |-> trades,
                   seen |-> [s \in PositionSymbols(trades) |-> LatestTimes(ticks, s)],
                   todo |-> IF kind = "holdings" THEN {} ELSE PositionSymbols(trades),
                   priced |-> EmptyTable, missing |-> {}]]
            /\ Goto(q, "pricing")
            /\ UNCHANGED <<users, ticks, entries, snapshots>>

\* await getLatestPrice of the next position by symbol; without a tick it is reported missing.
PricePosition(q) ==
    LET v == view[q]
        s == Min(v.todo)
    IN  /\ pc[q] = "pricing" /\ v.todo # {}
        /\ \/ \E t \in LatestTimes(ticks, s) :
                 view' = [view EXCEPT ![q].todo = @ \ {s},
                     ![q].priced = Put(@, s, [price |-> ticks[s][t], asOf |-> t])]
           \/ /\ LatestTimes(ticks, s) = {}
              /\ view' = [view EXCEPT ![q].todo = @ \ {s}, ![q].missing = @ \cup {s}]
        /\ UNCHANGED <<users, ticks, entries, snapshots, pc>>

Mtm(v) ==
    [user           |-> v.user,
     cashBalance    |-> CashBalance(v.trades),
     positionsValue |-> PositionsValue(v.trades, v.priced),
     realizedPnl    |-> RealizedPnl(v.trades),
     unrealizedPnl  |-> UnrealizedPnl(v.trades, v.priced),
     totalEquity    |-> TotalEquity(v.trades, v.priced)]

\* What GET /portfolio/performance, allocation and risk answer from the same reads; percentages
\* are shares of StartingCash, the gross exposure and the total equity.
PerformanceMetrics(v) ==
    [totalReturn |-> TotalEquity(v.trades, v.priced) - StartingCash,
     realizedPnl |-> RealizedPnl(v.trades), unrealizedPnl |-> UnrealizedPnl(v.trades, v.priced)]
Answer(v) ==
    [performance |-> PerformanceMetrics(v),
     allocation  |-> Exposures(v.trades, v.priced),
     risk        |-> RiskExposure(v.trades, v.priced)]

\* Everything is priced.  A read is answered; a snapshot is refused when a price was missing
\* (IncompletePricingError), else inserted, which the foreign key on users may reject.
StoreOrAnswer_Incomplete(q) ==
    LET v == view[q]
    IN  /\ pc[q] = "pricing" /\ v.todo = {}
        /\ snapshots' = Put(snapshots, q, Mtm(v))
        /\ Goto(q, "ok")
        /\ UNCHANGED <<users, ticks, entries, view>>
StoreOrAnswer(q) ==
    LET v == view[q]
    IN  /\ pc[q] = "pricing" /\ v.todo = {}
        /\ \/ /\ v.kind # "snapshot"
              /\ Goto(q, "ok")
              /\ UNCHANGED <<snapshots, view>>
           \/ /\ v.kind = "snapshot" /\ v.missing # {}
              /\ Fail(q, "conflict")
              /\ UNCHANGED snapshots
           \/ /\ v.kind = "snapshot" /\ v.missing = {} /\ v.user \in users
              /\ snapshots' = Put(snapshots, q, Mtm(v))
              /\ Goto(q, "ok")
              /\ UNCHANGED view
           \/ /\ v.kind = "snapshot" /\ v.missing = {} /\ v.user \notin users
              /\ Fail(q, "error")
              /\ UNCHANGED snapshots
        /\ UNCHANGED <<users, ticks, entries>>

-------------------------------------------------------------------------------
(* The environment *)

\* A query fails or the service dies between two awaits.
Abort(q) ==
    /\ pc[q] = "pricing"
    /\ Fail(q, "lost")
    /\ UNCHANGED <<users, ticks, entries, snapshots>>

\* services/journal.
JournalStep ==
    /\ \/ \E id \in EntryIds, u \in users, fill \in Fills : Book!Record(id, u, fill)
       \/ \E id \in EntryIds, exit \in ExitPrices : Book!Close(id, exit)
    /\ UNCHANGED <<users, ticks, snapshots, view, pc>>

\* services/market-data.
IngestTick(s, t, p) ==
    /\ ticks' = WithTick(ticks, s, t, p)
    /\ UNCHANGED <<users, entries, snapshots, view, pc>>

\* Journal entries and snapshots outlive their account (ON DELETE SET NULL).
DeleteUser(u) ==
    /\ u \in users
    /\ users' = users \ {u}
    /\ entries' = Book!Disowned(entries, u)
    /\ snapshots' = Book!Disowned(snapshots, u)
    /\ UNCHANGED <<ticks, view, pc>>

Next ==
    \/ \E q \in Requests : ListTrades(q) \/ PricePosition(q) \/ StoreOrAnswer(q) \/ Abort(q)
    \/ JournalStep
    \/ \E s \in Symbols, t \in Times, p \in Prices : IngestTick(s, t, p)
    \/ \E u \in Users : DeleteUser(u)

Spec == Init /\ [][Next]_vars

-------------------------------------------------------------------------------
(* Correctness *)

\* No symbol is held both long and short.
OneSided(trades) ==
    \A id, other \in DOMAIN trades :
        /\ trades[id].status = "open" /\ trades[other].status = "open"
        /\ trades[id].fill.symbol = trades[other].fill.symbol
        => trades[id].fill.side = trades[other].fill.side

Balanced(row) == row.totalEquity = row.cashBalance + row.positionsValue

\* The identity of portfolio-schema.ts: in a stored snapshot of an account that holds no
\* symbol both ways, the P&L walk-forward and the balance sheet agree, whatever was
\* traded, closed or ticked between the reads they were computed from.
SnapshotsReconcile ==
    \A q \in DOMAIN snapshots : OneSided(view[q].trades) => Balanced(snapshots[q])

\* Every position that an answer values is valued at a tick that is no older than the
\* latest one the table had when the request read the journal, however long the awaits took.
ValuesAreFresh ==
    \A q \in Requests :
        pc[q] = "ok" =>
            \A s \in DOMAIN view[q].priced :
                \A t \in view[q].seen[s] : t <= view[q].priced[s].asOf

\* What was paid for the positions that an answer could not price.
Unpriced(v) ==
    SumFunction([s \in v.missing |-> EntryValue(v.trades, s)])

\* The answers a client combines never contradict each other, although each module sums for
\* itself, and when prices are missing too: an account that holds no symbol both ways has
\* gained what its cash and its positions, at cost where they have no price, exceed the cash
\* it began with; the allocation adds up to the gross exposure even when longs and shorts
\* offset each other, the net one is within it, and the largest position is in the allocation.
AnswersAgree ==
    \A q \in Requests :
        pc[q] = "ok" /\ view[q].kind # "holdings" =>
            LET v      == view[q]
                answer == Answer(v)
                shares == answer.allocation
                risk   == answer.risk
            IN  /\ OneSided(v.trades) =>
                      answer.performance.totalReturn
                        = Mtm(v).cashBalance + risk.netExposure + Unpriced(v) - StartingCash
                /\ SumFunction(shares) = risk.grossExposure
                /\ \A s \in DOMAIN shares : shares[s] \in 1..risk.largestPosition
                /\ shares # << >> => \E s \in DOMAIN shares : shares[s] = risk.largestPosition
                /\ Abs(risk.netExposure) <= risk.grossExposure

\* Accounts add up: in what is stored, and in what is answered.
PortfolioInv == TypeOK /\ SnapshotsReconcile /\ AnswersAgree

\* What GET /portfolio/summary would answer if its reads were instantaneous.
Quotes(tk, trades) ==
    LET quoted == {s \in PositionSymbols(trades) : LatestTimes(tk, s) # {}}
        latest == [s \in quoted |-> CHOOSE t \in LatestTimes(tk, s) : TRUE]
    IN  [s \in quoted |-> [price |-> tk[s][latest[s]], asOf |-> latest[s]]]

EquityOf(u, table, tk) == LET trades == TradesOf(table, u)
                          IN  TotalEquity(trades, Quotes(tk, trades))

\* Closing a trade at the market price realizes the profit it had and no other: the
\* account's total equity is the same before and after.  The journal computes the realized
\* profit with its own formula, the portfolio the unrealized one.
ClosingIsNeutral ==
    [][\A id \in DOMAIN entries :
         LET row == entries[id]
             s   == row.fill.symbol
         IN  /\ row.status = "open" /\ entries'[id].status = "closed"
             /\ row.user # NULL /\ OneSided(TradesOf(entries, row.user))
             /\ \E t \in LatestTimes(ticks, s) : ticks[s][t] = entries'[id].exitPrice
             => EquityOf(row.user, entries', ticks) = EquityOf(row.user, entries, ticks)]_vars

===============================================================================
