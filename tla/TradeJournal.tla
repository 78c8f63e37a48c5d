----------------------------- MODULE TradeJournal -----------------------------
(***************************************************************************)
(* Paper orders and the journal that records them: the gateway's routes    *)
(* over services/paper-trading (placeOrder) and services/journal           *)
(* (DrizzleJournalRepository), with the tables market_ticks, users and     *)
(* journal_entries behind them.                                            *)
(*                                                                         *)
(* Every request is a process whose actions are the code between two       *)
(* awaits with the one SQL statement the await performs.                   *)
(***************************************************************************)
EXTENDS Integers, Tables, MarketTicks

CONSTANTS
    Users, Symbols, EntryIds,
    Times,       \* exchange timestamps
    Prices,      \* prices of ticks
    Quantities,  \* quantities an order may ask for, the rejected ones included
    Exits,       \* exit prices an outcome may carry, the rejected ones included
    Requests,    \* the requests of a behaviour, each served once
    NULL

ASSUME NumbersAssumption ==
    /\ Times \subseteq Int
    /\ Prices \subseteq Int
    /\ Quantities \subseteq Int
    /\ Exits \subseteq Int

VARIABLES
    users,       \* the accounts that exist
    ticks,       \* table market_ticks
    entries,     \* table journal_entries: id -> row
    request,     \* what each client sent
    fillOf,      \* the fill each handler has in hand
    pc           \* where each handler is, or the reply it gave

vars == <<users, ticks, entries, request, fillOf, pc>>

-------------------------------------------------------------------------------

Sides == {"buy", "sell"}

Positive(S) == {x \in S : x > 0}

Fill == [symbol : Symbols, side : Sides, quantity : Positive(Quantities), price : Prices, asOf : Times]

ASSUME NullAssumption == NULL \notin Users \cup EntryIds \cup Fill

Row == [user : Users \cup {NULL}, fill : Fill, status : {"open", "closed"},
        exitPrice : Exits \cup {NULL}, pnl : Int \cup {NULL}]

\* "seen" is a history field: the latest tick of the symbol when the order arrived.
OrderRequest   == [op : {"order"}, symbol : Symbols, side : Sides, quantity : Quantities,
                   seen : SUBSET Times]
CreateRequest  == [op : {"create"}, user : Users]
OutcomeRequest == [op : {"outcome"}, entry : EntryIds, exitPrice : Exits]
NoRequest      == [op |-> "none"]

Phases  == {"price", "insert", "find", "close"}
\* 2xx, 400, 404, 409, 500, and no reply at all.
Replies == {"ok", "invalid", "notFound", "conflict", "error", "lost"}

TypeOK ==
    /\ users \subseteq Users
    /\ IsTicks(ticks, Symbols, Times, Prices)
    /\ IsTable(entries, EntryIds, Row)
    /\ request \in [Requests -> OrderRequest \cup CreateRequest \cup OutcomeRequest \cup {NoRequest}]
    /\ fillOf \in [Requests -> Fill \cup {NULL}]
    /\ pc \in [Requests -> {"idle"} \cup Phases \cup Replies]

Book == INSTANCE JournalBook WITH Fills <- Fill, ExitPrices <- Positive(Exits)

Init ==
    /\ users = Users
    /\ ticks = NoTicks(Symbols)
    /\ entries = EmptyTable
    /\ request = [r \in Requests |-> NoRequest]
    /\ fillOf = [r \in Requests |-> NULL]
    /\ pc = [r \in Requests |-> "idle"]

Goto(r, where) == pc' = [pc EXCEPT ![r] = where]

Arrive(r, req, where) ==
    /\ pc[r] = "idle"
    /\ request' = [request EXCEPT ![r] = req]
    /\ Goto(r, where)
    /\ UNCHANGED <<users, ticks, entries>>

-------------------------------------------------------------------------------
(* POST /v1/paper-trading/orders *)

\* validateOrder runs before the first await.
OrderArrives(r) ==
    \E s \in Symbols, side \in Sides, q \in Quantities :
        /\ Arrive(r, [op |-> "order", symbol |-> s, side |-> side, quantity |-> q,
                      seen |-> LatestTimes(ticks, s)],
                  IF q > 0 THEN "price" ELSE "invalid")
        /\ UNCHANGED fillOf

\* await priceSource.getLatestPrice: NoMarketDataError, or a fill at that very tick.
GetLatestPrice(r) ==
    LET order == request[r]
    IN  /\ pc[r] = "price"
        /\ \/ /\ LatestTimes(ticks, order.symbol) = {}
              /\ Goto(r, "notFound")
              /\ UNCHANGED fillOf
           \/ \E t \in LatestTimes(ticks, order.symbol) :
                 /\ fillOf' = [fillOf EXCEPT ![r] =
                       [symbol |-> order.symbol, side |-> order.side, quantity |-> order.quantity,
                        price |-> ticks[order.symbol][t], asOf |-> t]]
                 /\ Goto(r, "ok")
        /\ UNCHANGED <<users, ticks, entries, request>>

-------------------------------------------------------------------------------
(* POST /v1/journal/entries: the client hands back a fill it was given, as      *)
(* often as it likes; its access token may outlive its account.                 *)

FillsAnswered == {fillOf[q] : q \in {p \in Requests : request[p].op = "order" /\ pc[p] = "ok"}}

CreateArrives(r) ==
    \E u \in Users, fill \in FillsAnswered :
        /\ Arrive(r, [op |-> "create", user |-> u], "insert")
        /\ fillOf' = [fillOf EXCEPT ![r] = fill]

\* await create: the insert, which the foreign key on users may reject.
InsertEntry(r) ==
    /\ pc[r] = "insert"
    /\ \/ /\ request[r].user \in users
          /\ \E id \in EntryIds \ DOMAIN entries :
                entries' = Put(entries, id, Book!OpenRow(request[r].user, fillOf[r]))
          /\ Goto(r, "ok")
       \/ /\ request[r].user \notin users
          /\ Goto(r, "error")
          /\ UNCHANGED entries
    /\ UNCHANGED <<users, ticks, request, fillOf>>

-------------------------------------------------------------------------------
(* POST /v1/journal/entries/:id/outcome *)

\* validateOutcome runs before the first await.
OutcomeArrives(r) ==
    \E id \in EntryIds, exit \in Exits :
        /\ Arrive(r, [op |-> "outcome", entry |-> id, exitPrice |-> exit],
                  IF exit > 0 THEN "find" ELSE "invalid")
        /\ UNCHANGED fillOf

\* await getById: NotFoundError, AlreadyClosedError, or the fill to compute P&L from.
FindEntry(r) ==
    LET id == request[r].entry
    IN  /\ pc[r] = "find"
        /\ \/ /\ id \notin DOMAIN entries
              /\ Goto(r, "notFound")
              /\ UNCHANGED fillOf
           \/ /\ id \in DOMAIN entries
              /\ entries[id].status = "closed"
              /\ Goto(r, "conflict")
              /\ UNCHANGED fillOf
           \/ /\ id \in DOMAIN entries
              /\ entries[id].status = "open"
              /\ Goto(r, "close")
              /\ fillOf' = [fillOf EXCEPT ![r] = entries[id].fill]
        /\ UNCHANGED <<users, ticks, entries, request>>

\* The row recordOutcome's UPDATE writes, with the P&L of the fill it read earlier.
Outcome(r) ==
    LET req == request[r]
    IN  Book!ClosedRow(entries[req.entry], req.exitPrice, Book!Pnl(fillOf[r], req.exitPrice))

\* await UPDATE ... WHERE id AND status = 'open' RETURNING: no row means someone was first.
CloseEntry_Unguarded(r) ==
    /\ pc[r] = "close"
    /\ entries' = Put(entries, request[r].entry, Outcome(r))
    /\ Goto(r, "ok")
    /\ UNCHANGED <<users, ticks, request, fillOf>>
CloseEntry(r) ==
    /\ pc[r] = "close"
    /\ \/ /\ entries[request[r].entry].status = "open"
          /\ entries' = Put(entries, request[r].entry, Outcome(r))
          /\ Goto(r, "ok")
       \/ /\ entries[request[r].entry].status # "open"
          /\ Goto(r, "conflict")
          /\ UNCHANGED entries
    /\ UNCHANGED <<users, ticks, request, fillOf>>

-------------------------------------------------------------------------------
(* The environment *)

\* A query fails, the connection drops or the gateway dies, between two awaits.
Abort(r) ==
    /\ pc[r] \in Phases
    /\ Goto(r, "lost")
    /\ UNCHANGED <<users, ticks, entries, request, fillOf>>

\* services/market-data stores a tick, live or backfilled, in any order of timestamps.
IngestTick(s, t, p) ==
    /\ ticks' = WithTick(ticks, s, t, p)
    /\ UNCHANGED <<users, entries, request, fillOf, pc>>

\* An account is deleted; its entries stay, without an owner.
DeleteUser_Cascade(u) ==
    /\ u \in users
    /\ users' = users \ {u}
    /\ entries' = Drop(entries, {id \in DOMAIN entries : entries[id].user = u})
    /\ UNCHANGED <<ticks, request, fillOf, pc>>
DeleteUser(u) ==
    /\ u \in users
    /\ users' = users \ {u}
    /\ entries' = Book!Disowned(entries, u)
    /\ UNCHANGED <<ticks, request, fillOf, pc>>

-------------------------------------------------------------------------------

Step(r) ==
    \/ OrderArrives(r) \/ GetLatestPrice(r)
    \/ CreateArrives(r) \/ InsertEntry(r)
    \/ OutcomeArrives(r) \/ FindEntry(r) \/ CloseEntry(r)
    \/ Abort(r)

Next ==
    \/ \E r \in Requests : Step(r)
    \/ \E s \in Symbols, t \in Times, p \in Prices : IngestTick(s, t, p)
    \/ \E u \in Users : DeleteUser(u)

Spec == Init /\ [][Next]_vars

-------------------------------------------------------------------------------
(* Correctness *)

\* An outcome the journal accepted stands: its entry is closed with that exit price for
\* ever, and no other outcome of the entry was accepted, however the two reads and the two
\* writes interleaved (recordOutcome: "can't both succeed").
OutcomeStands ==
    \A r \in Requests :
        request[r].op = "outcome" /\ pc[r] = "ok" =>
            /\ request[r].entry \in DOMAIN entries
            /\ entries[request[r].entry].status = "closed"
            /\ entries[request[r].entry].exitPrice = request[r].exitPrice
            /\ \A q \in Requests \ {r} :
                   request[q].op = "outcome" /\ request[q].entry = request[r].entry => pc[q] # "ok"

\* Every fill, and every fill in the journal, is at a tick that is in market_ticks, at the
\* price it has there today: fills are never fabricated and ticks never rewritten.
RealTick(fill) ==
    /\ fill.asOf \in DOMAIN ticks[fill.symbol]
    /\ ticks[fill.symbol][fill.asOf] = fill.price

FillsAreReal ==
    /\ \A r \in Requests : fillOf[r] # NULL => RealTick(fillOf[r])
    /\ \A id \in DOMAIN entries : RealTick(entries[id].fill)

\* No order is filled at a tick older than the newest one stored when it arrived, however
\* late older ticks are backfilled (DatabasePriceSource orders by tick_timestamp).
FreshFills ==
    \A r \in Requests :
        request[r].op = "order" /\ pc[r] = "ok" =>
            \A t \in request[r].seen : t <= fillOf[r].asOf

\* The table implements the write-once book.
ImplementsBook == Book!Spec

-------------------------------------------------------------------------------
(* The inductive invariant.                                                    *)

\* A closed row has an outcome, the one its fill and exit price determine; an open row none.
RowsOK ==
    \A id \in DOMAIN entries :
        LET row == entries[id]
        IN  /\ row.user # NULL => row.user \in users
            /\ row.status = "open" => row.exitPrice = NULL /\ row.pnl = NULL
            /\ row.status = "closed" =>
                   row.exitPrice \in Positive(Exits) /\ row.pnl = Book!Pnl(row.fill, row.exitPrice)

\* What a handler knows, by where it is.
HandlersOK ==
    \A r \in Requests :
        /\ request[r].op = "none" <=> pc[r] = "idle"
        /\ pc[r] = "idle" => fillOf[r] = NULL
        /\ pc[r] = "price" => request[r].op = "order" /\ request[r].quantity > 0
        /\ pc[r] = "insert" => request[r].op = "create"
        /\ pc[r] \in {"find", "close"} => request[r].op = "outcome" /\ request[r].exitPrice > 0
        /\ request[r].op \in {"order", "create"} /\ pc[r] \in {"ok", "insert"} => fillOf[r] # NULL
        /\ pc[r] = "close" =>
               /\ request[r].entry \in DOMAIN entries
               /\ fillOf[r] = entries[request[r].entry].fill

\* Ticks an order has seen are never removed.
SeenOK ==
    \A r \in Requests :
        request[r].op = "order" => request[r].seen \subseteq DOMAIN ticks[request[r].symbol]

JournalInv ==
    /\ TypeOK
    /\ RowsOK
    /\ HandlersOK
    /\ SeenOK
    /\ FillsAreReal
    /\ FreshFills
    /\ OutcomeStands

===============================================================================
