-------------------------- MODULE TradeJournalProofs --------------------------
(***************************************************************************)
(* Proofs about TradeJournal for any number of requests, entries, ticks    *)
(* and accounts: the inductive invariant JournalInv, and the refinement of *)
(* the write-once JournalBook.                                             *)
(***************************************************************************)
EXTENDS TradeJournal, DataLemmas

-------------------------------------------------------------------------------
(* Facts used by several steps.                                                *)

\* The op field tells the kinds of requests apart.
LEMMA RequestKinds ==
    ASSUME TypeOK, NEW r \in Requests
    PROVE  /\ request[r].op = "order"   => request[r] \in OrderRequest
           /\ request[r].op = "create"  => request[r] \in CreateRequest
           /\ request[r].op = "outcome" => request[r] \in OutcomeRequest
  BY DEF TypeOK, OrderRequest, CreateRequest, OutcomeRequest, NoRequest

\* An insert of a tick keeps every tick the table has, at its price.
LEMMA WithTickKeeps ==
    ASSUME TypeOK, NEW s \in Symbols, NEW t \in Times, NEW p \in Prices
    PROVE  /\ IsTicks(WithTick(ticks, s, t, p), Symbols, Times, Prices)
           /\ \A x \in Symbols : \A u \in DOMAIN ticks[x] :
                 /\ u \in DOMAIN WithTick(ticks, s, t, p)[x]
                 /\ WithTick(ticks, s, t, p)[x][u] = ticks[x][u]
  <1> DEFINE new == WithTick(ticks, s, t, p)
  <1>1. CASE t \in DOMAIN ticks[s]
    BY <1>1 DEF WithTick, TypeOK
  <1>2. CASE t \notin DOMAIN ticks[s]
    <2>1. new = [ticks EXCEPT ![s] = Put(@, t, p)]
      BY <1>2 DEF WithTick
    <2>2. ticks = [x \in Symbols |-> ticks[x]]
      BY DEF TypeOK, IsTicks
    <2>3. new = [x \in Symbols |-> IF x = s THEN Put(ticks[s], t, p) ELSE ticks[x]]
      BY <2>1, <2>2
    <2>4. IsTable(Put(ticks[s], t, p), Times, Prices)
      BY PutType DEF TypeOK, IsTicks
    <2>5. \A x \in Symbols : new[x] = IF x = s THEN Put(ticks[s], t, p) ELSE ticks[x]
      BY <2>3
    <2>6. \A x \in Symbols : IsTable(new[x], Times, Prices)
      BY <2>4, <2>5 DEF TypeOK, IsTicks
    <2>7. new = [x \in Symbols |-> new[x]]
      BY <2>3
    <2>8. \A u \in DOMAIN ticks[s] : u \in DOMAIN new[s] /\ new[s][u] = ticks[s][u]
      BY <1>2, <2>5 DEF Put
    <2> QED
      BY <2>5, <2>6, <2>7, <2>8 DEF IsTicks
  <1> QED
    BY <1>1, <1>2

\* The rows the statements write are rows.
LEMMA RowTypes ==
    /\ \A u \in Users, fill \in Fill : Book!OpenRow(u, fill) \in Row
    /\ \A row \in Row, exit \in Exits, pnl \in Int : Book!ClosedRow(row, exit, pnl) \in Row
    /\ \A fill \in Fill, exit \in Exits : Book!Pnl(fill, exit) \in Int
  <1>1. \A u \in Users, fill \in Fill : Book!OpenRow(u, fill) \in Row
    BY DEF Book!OpenRow, Row
  <1>2. \A row \in Row, exit \in Exits, pnl \in Int : Book!ClosedRow(row, exit, pnl) \in Row
    BY DEF Book!ClosedRow, Row
  <1>3. ASSUME NEW fill \in Fill, NEW exit \in Exits
        PROVE  Book!Pnl(fill, exit) \in Int
    <2>1. /\ fill.price \in Prices /\ fill.quantity \in Positive(Quantities)
          /\ fill.side \in Sides
      BY DEF Fill
    <2>3. fill.price \in Int /\ fill.quantity \in Int /\ exit \in Int
      BY <2>1, NumbersAssumption DEF Positive
    <2>2. Book!Direction(fill.side) \in Int
      BY DEF Book!Direction
    <2> QED
      BY <2>2, <2>3 DEF Book!Pnl
  <1> QED
    BY <1>1, <1>2, <1>3

-------------------------------------------------------------------------------
(* Every action preserves the invariant.                                       *)

\* JournalInv survives the arrival of an order.
LEMMA OrderArrivesInv ==
    ASSUME JournalInv, NEW r \in Requests, OrderArrives(r)
    PROVE  JournalInv'
  <1>1. PICK s \in Symbols, side \in Sides, q \in Quantities :
           /\ Arrive(r, [op |-> "order", symbol |-> s, side |-> side, quantity |-> q,
                         seen |-> LatestTimes(ticks, s)], IF q > 0 THEN "price" ELSE "invalid")
           /\ UNCHANGED fillOf
    BY DEF OrderArrives
  <1> DEFINE req == [op |-> "order", symbol |-> s, side |-> side, quantity |-> q,
                     seen |-> LatestTimes(ticks, s)]
             where == IF q > 0 THEN "price" ELSE "invalid"
  <1>2. /\ pc[r] = "idle" /\ fillOf[r] = NULL
        /\ request' = [request EXCEPT ![r] = req]
        /\ pc' = [pc EXCEPT ![r] = where]
        /\ UNCHANGED <<users, ticks, entries, fillOf>>
    BY <1>1 DEF Arrive, Goto, JournalInv, HandlersOK
  <1>3. LatestTimes(ticks, s) \subseteq DOMAIN ticks[s] /\ DOMAIN ticks[s] \subseteq Times
    BY DEF LatestTimes, JournalInv, TypeOK, IsTicks, IsTable
  <1>4. req \in OrderRequest /\ req.op = "order" /\ req.symbol = s /\ req.quantity = q
        /\ req.seen = LatestTimes(ticks, s)
    BY <1>3 DEF OrderRequest
  <1> HIDE DEF req
  <1>5. /\ \A x \in Requests : request'[x] = IF x = r THEN req ELSE request[x]
        /\ \A x \in Requests : pc'[x] = IF x = r THEN where ELSE pc[x]
    BY <1>2 DEF JournalInv, TypeOK
  <1>6. where \in {"price", "invalid"} /\ (where = "price" => q > 0)
    OBVIOUS
  <1> HIDE DEF where
  <1>7. TypeOK'
    BY <1>2, <1>4, <1>6 DEF JournalInv, TypeOK, Phases, Replies
  <1>8. RowsOK'
    BY <1>2 DEF JournalInv, RowsOK
  <1>9. HandlersOK'
    BY <1>2, <1>4, <1>5, <1>6 DEF JournalInv, HandlersOK
  <1>10. SeenOK'
    BY <1>2, <1>3, <1>4, <1>5 DEF JournalInv, SeenOK
  <1>11. FillsAreReal'
    BY <1>2 DEF JournalInv, FillsAreReal, RealTick
  <1>12. FreshFills'
    BY <1>2, <1>5, <1>6 DEF JournalInv, FreshFills
  <1>13. OutcomeStands'
    BY <1>2, <1>4, <1>5, <1>6 DEF JournalInv, OutcomeStands
  <1> QED
    BY <1>7, <1>8, <1>9, <1>10, <1>11, <1>12, <1>13 DEF JournalInv

\* JournalInv survives an order's read of the latest price: the tick read is a real one, and
\* no older than those the order had seen.
LEMMA GetLatestPriceInv ==
    ASSUME JournalInv, NEW r \in Requests, GetLatestPrice(r)
    PROVE  JournalInv'
  <1> DEFINE order == request[r]
             s == order.symbol
  <1>1. /\ pc[r] = "price" /\ order.op = "order" /\ order.quantity > 0
        /\ order \in OrderRequest
        /\ UNCHANGED <<users, ticks, entries, request>>
    BY RequestKinds DEF GetLatestPrice, JournalInv, HandlersOK
  <1>2. s \in Symbols /\ order.side \in Sides /\ order.quantity \in Positive(Quantities)
    BY <1>1 DEF OrderRequest, Positive
  <1>3. PICK fill \in Fill \cup {NULL}, where \in {"notFound", "ok"} :
           /\ fillOf' = [fillOf EXCEPT ![r] = fill]
           /\ pc' = [pc EXCEPT ![r] = where]
           /\ fill # NULL => fill \in Fill /\ RealTick(fill)
           /\ where = "ok" => /\ fill # NULL
                              /\ \A t \in order.seen : t <= fill.asOf
    <2>1. CASE LatestTimes(ticks, s) = {}
      <3>1. fillOf' = fillOf /\ pc' = [pc EXCEPT ![r] = "notFound"]
        BY <2>1 DEF GetLatestPrice, Goto
      <3>2. fillOf' = [fillOf EXCEPT ![r] = fillOf[r]] /\ fillOf[r] \in Fill \cup {NULL}
        BY <3>1 DEF JournalInv, TypeOK
      <3>3. fillOf[r] # NULL => fillOf[r] \in Fill /\ RealTick(fillOf[r])
        BY <3>2 DEF JournalInv, FillsAreReal
      <3> QED
        BY <3>1, <3>2, <3>3
    <2>2. CASE LatestTimes(ticks, s) # {}
      <3>1. PICK t \in LatestTimes(ticks, s) :
               /\ fillOf' = [fillOf EXCEPT ![r] =
                     [symbol |-> s, side |-> order.side, quantity |-> order.quantity,
                      price |-> ticks[s][t], asOf |-> t]]
               /\ pc' = [pc EXCEPT ![r] = "ok"]
        BY <2>2 DEF GetLatestPrice, Goto
      <3> DEFINE new == [symbol |-> s, side |-> order.side, quantity |-> order.quantity,
                         price |-> ticks[s][t], asOf |-> t]
      <3>2. /\ t \in DOMAIN ticks[s] /\ t \in Times /\ ticks[s][t] \in Prices
            /\ \A u \in DOMAIN ticks[s] : u <= t
        BY <1>2 DEF LatestTimes, JournalInv, TypeOK, IsTicks, IsTable
      <3>3. new \in Fill
        BY <1>2, <3>2 DEF Fill
      <3>4. RealTick(new)
        BY <3>2 DEF RealTick
      <3>5. \A u \in order.seen : u <= new.asOf
        BY <1>1, <3>2 DEF JournalInv, SeenOK
      <3>6. CASE new # NULL
        BY <3>1, <3>3, <3>4, <3>5, <3>6
      <3> QED
        BY <3>3, <3>6, NullAssumption
    <2> QED
      BY <2>1, <2>2
  <1>4. /\ \A x \in Requests : fillOf'[x] = IF x = r THEN fill ELSE fillOf[x]
        /\ \A x \in Requests : pc'[x] = IF x = r THEN where ELSE pc[x]
    BY <1>3 DEF JournalInv, TypeOK
  <1>5. TypeOK'
    BY <1>1, <1>3 DEF JournalInv, TypeOK, Replies
  <1>6. RowsOK' /\ SeenOK'
    BY <1>1 DEF JournalInv, RowsOK, SeenOK
  <1>7. HandlersOK'
    BY <1>1, <1>3, <1>4 DEF JournalInv, HandlersOK
  <1>8. FillsAreReal'
    BY <1>1, <1>3, <1>4 DEF JournalInv, FillsAreReal, RealTick
  <1>9. FreshFills'
    BY <1>1, <1>3, <1>4 DEF JournalInv, FreshFills
  <1>10. OutcomeStands'
    BY <1>1, <1>3, <1>4 DEF JournalInv, OutcomeStands
  <1> QED
    BY <1>5, <1>6, <1>7, <1>8, <1>9, <1>10 DEF JournalInv

\* JournalInv survives the arrival of a fill to record.
LEMMA CreateArrivesInv ==
    ASSUME JournalInv, NEW r \in Requests, CreateArrives(r)
    PROVE  JournalInv'
  <1>1. PICK u \in Users, fill \in FillsAnswered :
           /\ Arrive(r, [op |-> "create", user |-> u], "insert")
           /\ fillOf' = [fillOf EXCEPT ![r] = fill]
    BY DEF CreateArrives
  <1> DEFINE req == [op |-> "create", user |-> u]
  <1>2. /\ pc[r] = "idle"
        /\ request' = [request EXCEPT ![r] = req]
        /\ pc' = [pc EXCEPT ![r] = "insert"]
        /\ UNCHANGED <<users, ticks, entries>>
    BY <1>1 DEF Arrive, Goto
  <1>3. fill # NULL /\ fill \in Fill /\ RealTick(fill)
    BY DEF FillsAnswered, JournalInv, TypeOK, HandlersOK, FillsAreReal
  <1>4. req \in CreateRequest /\ req.op = "create"
    BY DEF CreateRequest
  <1> HIDE DEF req
  <1>5. /\ \A x \in Requests : request'[x] = IF x = r THEN req ELSE request[x]
        /\ \A x \in Requests : pc'[x] = IF x = r THEN "insert" ELSE pc[x]
        /\ \A x \in Requests : fillOf'[x] = IF x = r THEN fill ELSE fillOf[x]
    BY <1>1, <1>2 DEF JournalInv, TypeOK
  <1>6. TypeOK'
    BY <1>1, <1>2, <1>3, <1>4 DEF JournalInv, TypeOK, Phases
  <1>7. RowsOK'
    BY <1>2 DEF JournalInv, RowsOK
  <1>8. HandlersOK'
    BY <1>2, <1>3, <1>4, <1>5 DEF JournalInv, HandlersOK
  <1>9. SeenOK'
    BY <1>2, <1>4, <1>5 DEF JournalInv, SeenOK
  <1>10. FillsAreReal'
    BY <1>2, <1>3, <1>5 DEF JournalInv, FillsAreReal, RealTick
  <1>11. FreshFills'
    BY <1>2, <1>4, <1>5 DEF JournalInv, FreshFills
  <1>12. OutcomeStands'
    BY <1>2, <1>4, <1>5 DEF JournalInv, OutcomeStands
  <1> QED
    BY <1>6, <1>7, <1>8, <1>9, <1>10, <1>11, <1>12 DEF JournalInv

\* JournalInv survives the insert of an entry.
LEMMA InsertEntryInv ==
    ASSUME JournalInv, NEW r \in Requests, InsertEntry(r)
    PROVE  JournalInv'
  <1>1. /\ pc[r] = "insert" /\ request[r].op = "create" /\ request[r].user \in Users
        /\ fillOf[r] # NULL /\ fillOf[r] \in Fill /\ RealTick(fillOf[r])
        /\ UNCHANGED <<users, ticks, request, fillOf>>
    BY RequestKinds DEF InsertEntry, JournalInv, HandlersOK, TypeOK, FillsAreReal, CreateRequest
  <1>2. SeenOK'
    BY <1>1 DEF JournalInv, SeenOK
  <1>3. CASE request[r].user \in users
    <2> DEFINE row == Book!OpenRow(request[r].user, fillOf[r])
    <2>1. PICK id \in EntryIds \ DOMAIN entries : entries' = Put(entries, id, row)
      BY <1>3 DEF InsertEntry
    <2>2. pc' = [pc EXCEPT ![r] = "ok"]
      BY <1>3 DEF InsertEntry, Goto
    <2>3. row \in Row
      BY <1>1, RowTypes
    <2>4. /\ row.user = request[r].user /\ row.fill = fillOf[r] /\ row.status = "open"
          /\ row.exitPrice = NULL /\ row.pnl = NULL
      BY DEF Book!OpenRow
    <2> HIDE DEF row
    <2>5. /\ DOMAIN entries' = DOMAIN entries \cup {id} /\ entries'[id] = row
          /\ \A x \in DOMAIN entries : entries'[x] = entries[x]
      BY <2>1 DEF Put
    <2>6. \A x \in Requests : pc'[x] = IF x = r THEN "ok" ELSE pc[x]
      BY <2>2 DEF JournalInv, TypeOK
    <2>7. TypeOK'
      <3>1. IsTable(entries', EntryIds, Row)
        BY <2>1, <2>3, PutType DEF JournalInv, TypeOK
      <3> QED
        BY <3>1, <1>1, <2>2 DEF JournalInv, TypeOK, Replies
    <2>8. RowsOK'
      BY <1>1, <1>3, <2>4, <2>5 DEF JournalInv, RowsOK
    <2>9. HandlersOK'
      BY <1>1, <2>5, <2>6 DEF JournalInv, HandlersOK
    <2>10. FillsAreReal'
      BY <1>1, <2>4, <2>5 DEF JournalInv, FillsAreReal, RealTick
    <2>11. FreshFills'
      BY <1>1, <2>6 DEF JournalInv, FreshFills
    <2>12. OutcomeStands'
      BY <1>1, <2>5, <2>6 DEF JournalInv, OutcomeStands
    <2> QED
      BY <1>2, <2>7, <2>8, <2>9, <2>10, <2>11, <2>12 DEF JournalInv
  <1>4. CASE request[r].user \notin users
    <2>1. entries' = entries /\ pc' = [pc EXCEPT ![r] = "error"]
      BY <1>4 DEF InsertEntry, Goto
    <2>2. \A x \in Requests : pc'[x] = IF x = r THEN "error" ELSE pc[x]
      BY <2>1 DEF JournalInv, TypeOK
    <2>3. TypeOK'
      BY <1>1, <2>1 DEF JournalInv, TypeOK, Replies
    <2>4. RowsOK' /\ FillsAreReal'
      BY <1>1, <2>1 DEF JournalInv, RowsOK, FillsAreReal, RealTick
    <2>5. HandlersOK'
      BY <1>1, <2>1, <2>2 DEF JournalInv, HandlersOK
    <2>6. FreshFills' /\ OutcomeStands'
      BY <1>1, <2>1, <2>2 DEF JournalInv, FreshFills, OutcomeStands
    <2> QED
      BY <1>2, <2>3, <2>4, <2>5, <2>6 DEF JournalInv
  <1> QED
    BY <1>3, <1>4

\* JournalInv survives the arrival of an outcome.
LEMMA OutcomeArrivesInv ==
    ASSUME JournalInv, NEW r \in Requests, OutcomeArrives(r)
    PROVE  JournalInv'
  <1>1. PICK id \in EntryIds, exit \in Exits :
           /\ Arrive(r, [op |-> "outcome", entry |-> id, exitPrice |-> exit],
                     IF exit > 0 THEN "find" ELSE "invalid")
           /\ UNCHANGED fillOf
    BY DEF OutcomeArrives
  <1> DEFINE req == [op |-> "outcome", entry |-> id, exitPrice |-> exit]
             where == IF exit > 0 THEN "find" ELSE "invalid"
  <1>2. /\ pc[r] = "idle"
        /\ request' = [request EXCEPT ![r] = req]
        /\ pc' = [pc EXCEPT ![r] = where]
        /\ UNCHANGED <<users, ticks, entries, fillOf>>
    BY <1>1 DEF Arrive, Goto
  <1>3. req \in OutcomeRequest /\ req.op = "outcome" /\ req.exitPrice = exit
    BY DEF OutcomeRequest
  <1> HIDE DEF req
  <1>4. where \in {"find", "invalid"} /\ (where = "find" => exit > 0)
    OBVIOUS
  <1> HIDE DEF where
  <1>5. /\ \A x \in Requests : request'[x] = IF x = r THEN req ELSE request[x]
        /\ \A x \in Requests : pc'[x] = IF x = r THEN where ELSE pc[x]
    BY <1>2 DEF JournalInv, TypeOK
  <1>6. TypeOK'
    BY <1>2, <1>3, <1>4 DEF JournalInv, TypeOK, Phases, Replies
  <1>7. RowsOK' /\ FillsAreReal'
    BY <1>2 DEF JournalInv, RowsOK, FillsAreReal, RealTick
  <1>8. HandlersOK'
    BY <1>2, <1>3, <1>4, <1>5 DEF JournalInv, HandlersOK
  <1>9. SeenOK'
    BY <1>2, <1>3, <1>5 DEF JournalInv, SeenOK
  <1>10. FreshFills'
    BY <1>2, <1>3, <1>5 DEF JournalInv, FreshFills
  <1>11. OutcomeStands'
    BY <1>2, <1>4, <1>5 DEF JournalInv, OutcomeStands
  <1> QED
    BY <1>6, <1>7, <1>8, <1>9, <1>10, <1>11 DEF JournalInv

\* JournalInv survives an outcome's read of its entry.
LEMMA FindEntryInv ==
    ASSUME JournalInv, NEW r \in Requests, FindEntry(r)
    PROVE  JournalInv'
  <1> DEFINE id == request[r].entry
  <1>1. /\ pc[r] = "find" /\ request[r].op = "outcome" /\ request[r].exitPrice > 0
        /\ id \in EntryIds
        /\ UNCHANGED <<users, ticks, entries, request>>
    BY RequestKinds DEF FindEntry, JournalInv, HandlersOK, OutcomeRequest
  <1>2. PICK fill \in Fill \cup {NULL}, where \in {"notFound", "conflict", "close"} :
           /\ fillOf' = [fillOf EXCEPT ![r] = fill]
           /\ pc' = [pc EXCEPT ![r] = where]
           /\ fill # NULL => RealTick(fill)
           /\ where = "close" => id \in DOMAIN entries /\ fill = entries[id].fill
    <2>1. CASE id \in DOMAIN entries /\ entries[id].status = "open"
      <3>1. fillOf' = [fillOf EXCEPT ![r] = entries[id].fill] /\ pc' = [pc EXCEPT ![r] = "close"]
        BY <2>1 DEF FindEntry, Goto
      <3>2. entries[id] \in Row
        BY <2>1 DEF JournalInv, TypeOK, IsTable
      <3>3. entries[id].fill \in Fill /\ RealTick(entries[id].fill)
        BY <2>1, <3>2 DEF Row, JournalInv, FillsAreReal
      <3> QED
        BY <2>1, <3>1, <3>3
    <2>2. CASE id \notin DOMAIN entries \/ entries[id].status = "closed"
      <3>1. PICK where \in {"notFound", "conflict"} :
               fillOf' = fillOf /\ pc' = [pc EXCEPT ![r] = where]
        BY <2>2 DEF FindEntry, Goto
      <3>2. /\ fillOf' = [fillOf EXCEPT ![r] = fillOf[r]] /\ fillOf[r] \in Fill \cup {NULL}
            /\ fillOf[r] # NULL => RealTick(fillOf[r])
        BY <3>1 DEF JournalInv, TypeOK, FillsAreReal
      <3> QED
        BY <3>1, <3>2
    <2> QED
      BY <2>1, <2>2 DEF FindEntry
  <1>3. /\ \A x \in Requests : fillOf'[x] = IF x = r THEN fill ELSE fillOf[x]
        /\ \A x \in Requests : pc'[x] = IF x = r THEN where ELSE pc[x]
    BY <1>2 DEF JournalInv, TypeOK
  <1>4. TypeOK'
    BY <1>1, <1>2 DEF JournalInv, TypeOK, Phases, Replies
  <1>5. RowsOK' /\ SeenOK'
    BY <1>1 DEF JournalInv, RowsOK, SeenOK
  <1>6. HandlersOK'
    BY <1>1, <1>2, <1>3 DEF JournalInv, HandlersOK
  <1>7. FillsAreReal'
    BY <1>1, <1>2, <1>3 DEF JournalInv, FillsAreReal, RealTick
  <1>8. FreshFills'
    BY <1>1, <1>3 DEF JournalInv, FreshFills
  <1>9. OutcomeStands'
    BY <1>1, <1>2, <1>3 DEF JournalInv, OutcomeStands
  <1> QED
    BY <1>4, <1>5, <1>6, <1>7, <1>8, <1>9 DEF JournalInv

\* What the guarded UPDATE of an outcome writes is the row the book's Close writes.
LEMMA CloseIsClose ==
    ASSUME JournalInv, NEW r \in Requests, pc[r] = "close"
    PROVE  LET id == request[r].entry
               exit == request[r].exitPrice
           IN  /\ request[r].op = "outcome" /\ id \in EntryIds /\ id \in DOMAIN entries
               /\ exit \in Positive(Exits) /\ entries[id] \in Row
               /\ Outcome(r) = Book!ClosedRow(entries[id], exit, Book!Pnl(entries[id].fill, exit))
               /\ Outcome(r) \in Row
               /\ Outcome(r).status = "closed" /\ Outcome(r).exitPrice = exit
               /\ Outcome(r).fill = entries[id].fill /\ Outcome(r).user = entries[id].user
               /\ Outcome(r).pnl = Book!Pnl(entries[id].fill, exit)
  <1> DEFINE id == request[r].entry
             exit == request[r].exitPrice
             pnl == Book!Pnl(entries[id].fill, exit)
  <1>1. /\ request[r].op = "outcome" /\ request[r] \in OutcomeRequest
        /\ id \in DOMAIN entries /\ exit > 0 /\ fillOf[r] = entries[id].fill
    BY RequestKinds DEF JournalInv, HandlersOK
  <1>2. id \in EntryIds /\ exit \in Exits /\ exit \in Positive(Exits)
    BY <1>1 DEF OutcomeRequest, Positive
  <1>3. entries[id] \in Row
    BY <1>1 DEF JournalInv, TypeOK, IsTable
  <1>4. Outcome(r) = Book!ClosedRow(entries[id], exit, pnl)
    BY <1>1 DEF Outcome
  <1>5. pnl \in Int
    BY <1>2, <1>3, RowTypes DEF Row
  <1>6. Outcome(r) \in Row
    BY <1>2, <1>3, <1>4, <1>5, RowTypes
  <1>7. /\ Outcome(r).status = "closed" /\ Outcome(r).exitPrice = exit
        /\ Outcome(r).fill = entries[id].fill /\ Outcome(r).user = entries[id].user
        /\ Outcome(r).pnl = pnl
    BY <1>3, <1>4 DEF Book!ClosedRow, Row
  <1> QED
    BY <1>1, <1>2, <1>3, <1>4, <1>6, <1>7

\* JournalInv survives the UPDATE of an outcome: its guard lets only the first one through.
LEMMA CloseEntryInv ==
    ASSUME JournalInv, NEW r \in Requests, CloseEntry(r)
    PROVE  JournalInv'
  <1> DEFINE id == request[r].entry
             row == Outcome(r)
  <1>1. pc[r] = "close" /\ UNCHANGED <<users, ticks, request, fillOf>>
    BY DEF CloseEntry
  <1>2. /\ request[r].op = "outcome" /\ id \in EntryIds /\ id \in DOMAIN entries
        /\ request[r].exitPrice \in Positive(Exits)
        /\ row \in Row /\ row.status = "closed" /\ row.exitPrice = request[r].exitPrice
        /\ row.fill = entries[id].fill /\ row.user = entries[id].user
        /\ row.pnl = Book!Pnl(row.fill, row.exitPrice)
    BY <1>1, CloseIsClose
  <1> HIDE DEF row
  <1>3. SeenOK'
    BY <1>1 DEF JournalInv, SeenOK
  <1>4. CASE entries[id].status = "open"
    <2>1. entries' = Put(entries, id, row) /\ pc' = [pc EXCEPT ![r] = "ok"]
      BY <1>4 DEF CloseEntry, Goto, row
    <2>2. /\ DOMAIN entries' = DOMAIN entries /\ entries'[id] = row
          /\ \A x \in DOMAIN entries : x # id => entries'[x] = entries[x]
      BY <1>2, <2>1 DEF Put
    <2>3. \A x \in Requests : pc'[x] = IF x = r THEN "ok" ELSE pc[x]
      BY <2>1 DEF JournalInv, TypeOK
    <2>4. TypeOK'
      <3>1. IsTable(entries', EntryIds, Row)
        BY <1>2, <2>1, PutType DEF JournalInv, TypeOK
      <3> QED
        BY <3>1, <1>1, <2>1 DEF JournalInv, TypeOK, Replies
    <2>5. RowsOK'
      BY <1>1, <1>2, <2>2 DEF JournalInv, RowsOK
    <2>6. HandlersOK'
      BY <1>1, <1>2, <2>2, <2>3 DEF JournalInv, HandlersOK
    <2>7. FillsAreReal'
      BY <1>1, <1>2, <2>2 DEF JournalInv, FillsAreReal, RealTick
    <2>8. FreshFills'
      BY <1>1, <1>2, <2>3 DEF JournalInv, FreshFills
    <2>9. OutcomeStands'
      <3>1. ASSUME NEW q \in Requests, q # r, request[q].op = "outcome", request[q].entry = id
            PROVE  pc[q] # "ok"
        BY <1>4, <3>1 DEF JournalInv, OutcomeStands
      <3> QED
        BY <1>1, <1>2, <2>2, <2>3, <3>1 DEF JournalInv, OutcomeStands
    <2> QED
      BY <1>3, <2>4, <2>5, <2>6, <2>7, <2>8, <2>9 DEF JournalInv
  <1>5. CASE entries[id].status # "open"
    <2>1. entries' = entries /\ pc' = [pc EXCEPT ![r] = "conflict"]
      BY <1>5 DEF CloseEntry, Goto
    <2>2. \A x \in Requests : pc'[x] = IF x = r THEN "conflict" ELSE pc[x]
      BY <2>1 DEF JournalInv, TypeOK
    <2>3. TypeOK'
      BY <1>1, <2>1 DEF JournalInv, TypeOK, Replies
    <2>4. RowsOK' /\ FillsAreReal'
      BY <1>1, <2>1 DEF JournalInv, RowsOK, FillsAreReal, RealTick
    <2>5. HandlersOK'
      BY <1>1, <1>2, <2>1, <2>2 DEF JournalInv, HandlersOK
    <2>6. FreshFills' /\ OutcomeStands'
      BY <1>1, <2>1, <2>2 DEF JournalInv, FreshFills, OutcomeStands
    <2> QED
      BY <1>3, <2>3, <2>4, <2>5, <2>6 DEF JournalInv
  <1> QED
    BY <1>4, <1>5

\* JournalInv survives a lost connection.
LEMMA AbortInv ==
    ASSUME JournalInv, NEW r \in Requests, Abort(r)
    PROVE  JournalInv'
  <1>1. /\ pc[r] \in Phases /\ pc' = [pc EXCEPT ![r] = "lost"]
        /\ UNCHANGED <<users, ticks, entries, request, fillOf>>
    BY DEF Abort, Goto
  <1>2. \A x \in Requests : pc'[x] = IF x = r THEN "lost" ELSE pc[x]
    BY <1>1 DEF JournalInv, TypeOK
  <1>3. TypeOK'
    BY <1>1 DEF JournalInv, TypeOK, Replies
  <1>4. RowsOK' /\ FillsAreReal' /\ SeenOK'
    BY <1>1 DEF JournalInv, RowsOK, FillsAreReal, RealTick, SeenOK
  <1>5. HandlersOK'
    BY <1>1, <1>2 DEF JournalInv, HandlersOK, Phases
  <1>6. FreshFills' /\ OutcomeStands'
    BY <1>1, <1>2 DEF JournalInv, FreshFills, OutcomeStands
  <1> QED
    BY <1>3, <1>4, <1>5, <1>6 DEF JournalInv

\* JournalInv survives an insert of a tick, which rewrites none.
LEMMA IngestTickInv ==
    ASSUME JournalInv, NEW s \in Symbols, NEW t \in Times, NEW p \in Prices, IngestTick(s, t, p)
    PROVE  JournalInv'
  <1>1. ticks' = WithTick(ticks, s, t, p) /\ UNCHANGED <<users, entries, request, fillOf, pc>>
    BY DEF IngestTick
  <1>2. /\ IsTicks(ticks', Symbols, Times, Prices)
        /\ \A x \in Symbols : \A u \in DOMAIN ticks[x] :
              u \in DOMAIN ticks'[x] /\ ticks'[x][u] = ticks[x][u]
    BY <1>1, WithTickKeeps DEF JournalInv
  <1>3. TypeOK'
    BY <1>1, <1>2 DEF JournalInv, TypeOK
  <1>4. RowsOK' /\ HandlersOK' /\ FreshFills' /\ OutcomeStands'
    BY <1>1 DEF JournalInv, RowsOK, HandlersOK, FreshFills, OutcomeStands
  <1>5. SeenOK'
    <2>1. \A r \in Requests : request[r].op = "order" => request[r].symbol \in Symbols
      BY RequestKinds DEF JournalInv, OrderRequest
    <2> QED
      BY <1>1, <1>2, <2>1 DEF JournalInv, SeenOK
  <1>6. FillsAreReal'
    <2>1. \A fill \in Fill : RealTick(fill) => RealTick(fill)'
      BY <1>2 DEF RealTick, Fill
    <2>2. \A id \in DOMAIN entries : entries[id].fill \in Fill
      BY DEF JournalInv, TypeOK, IsTable, Row
    <2>3. \A r \in Requests : fillOf[r] # NULL => fillOf[r] \in Fill
      BY DEF JournalInv, TypeOK
    <2> QED
      BY <1>1, <2>1, <2>2, <2>3 DEF JournalInv, FillsAreReal
  <1> QED
    BY <1>3, <1>4, <1>5, <1>6 DEF JournalInv

\* ON DELETE SET NULL changes nothing but the owner of the account's entries.
LEMMA DisownedRows ==
    ASSUME JournalInv, NEW u \in Users
    PROVE  LET new == Book!Disowned(entries, u)
           IN  /\ IsTable(new, EntryIds, Row)
               /\ DOMAIN new = DOMAIN entries
               /\ \A id \in DOMAIN entries :
                     /\ new[id].fill = entries[id].fill
                     /\ new[id].status = entries[id].status
                     /\ new[id].exitPrice = entries[id].exitPrice
                     /\ new[id].pnl = entries[id].pnl
                     /\ new[id].user = IF entries[id].user = u THEN NULL ELSE entries[id].user
  <1> DEFINE new == Book!Disowned(entries, u)
  <1>1. DOMAIN new = DOMAIN entries
    BY DEF Book!Disowned
  <1>2. ASSUME NEW id \in DOMAIN entries
        PROVE  /\ new[id] \in Row
               /\ new[id].fill = entries[id].fill
               /\ new[id].status = entries[id].status
               /\ new[id].exitPrice = entries[id].exitPrice
               /\ new[id].pnl = entries[id].pnl
               /\ new[id].user = IF entries[id].user = u THEN NULL ELSE entries[id].user
    <2>1. entries[id] \in Row
      BY DEF JournalInv, TypeOK, IsTable
    <2>2. new[id] = IF entries[id].user = u THEN [entries[id] EXCEPT !.user = NULL] ELSE entries[id]
      BY DEF Book!Disowned
    <2> QED
      BY <2>1, <2>2 DEF Row
  <1>3. new = [id \in DOMAIN entries |-> new[id]]
    BY DEF Book!Disowned
  <1>4. DOMAIN entries \subseteq EntryIds
    BY DEF JournalInv, TypeOK, IsTable
  <1>5. IsTable(new, EntryIds, Row)
    BY <1>1, <1>2, <1>3, <1>4 DEF IsTable
  <1> QED
    BY <1>1, <1>2, <1>5

\* JournalInv survives the deletion of an account.
LEMMA DeleteUserInv ==
    ASSUME JournalInv, NEW u \in Users, DeleteUser(u)
    PROVE  JournalInv'
  <1>1. /\ users' = users \ {u} /\ entries' = Book!Disowned(entries, u)
        /\ UNCHANGED <<ticks, request, fillOf, pc>>
    BY DEF DeleteUser
  <1>2. /\ IsTable(entries', EntryIds, Row)
        /\ DOMAIN entries' = DOMAIN entries
        /\ \A id \in DOMAIN entries :
              /\ entries'[id].fill = entries[id].fill
              /\ entries'[id].status = entries[id].status
              /\ entries'[id].exitPrice = entries[id].exitPrice
              /\ entries'[id].pnl = entries[id].pnl
              /\ entries'[id].user = IF entries[id].user = u THEN NULL ELSE entries[id].user
    BY <1>1, DisownedRows
  <1>3. TypeOK'
    BY <1>1, <1>2 DEF JournalInv, TypeOK
  <1>4. RowsOK'
    BY <1>1, <1>2 DEF JournalInv, RowsOK
  <1>5. HandlersOK'
    BY <1>1, <1>2 DEF JournalInv, HandlersOK
  <1>6. SeenOK' /\ FreshFills'
    BY <1>1 DEF JournalInv, SeenOK, FreshFills
  <1>7. FillsAreReal'
    BY <1>1, <1>2 DEF JournalInv, FillsAreReal, RealTick
  <1>8. OutcomeStands'
    BY <1>1, <1>2 DEF JournalInv, OutcomeStands
  <1> QED
    BY <1>3, <1>4, <1>5, <1>6, <1>7, <1>8 DEF JournalInv

-------------------------------------------------------------------------------
(* The invariant and what follows from it.                                     *)

\* JournalInv holds of the empty journal.
LEMMA InitInv == Init => JournalInv
  <1> SUFFICES ASSUME Init PROVE JournalInv
    OBVIOUS
  <1>1. IsTicks(ticks, Symbols, Times, Prices)
    BY EmptyTableType DEF Init, NoTicks, IsTicks
  <1>2. \A r \in Requests : request[r].op = "none" /\ pc[r] = "idle" /\ fillOf[r] = NULL
    BY DEF Init, NoRequest
  <1>3. IsTable(entries, EntryIds, Row) /\ DOMAIN entries = {}
    BY EmptyTableType DEF Init
  <1>4. TypeOK
    BY <1>1, <1>3 DEF Init, TypeOK
  <1>5. RowsOK
    BY <1>3 DEF RowsOK
  <1>6. HandlersOK /\ SeenOK /\ FreshFills /\ OutcomeStands
    BY <1>2 DEF HandlersOK, SeenOK, FreshFills, OutcomeStands
  <1>7. FillsAreReal
    BY <1>2, <1>3 DEF FillsAreReal
  <1> QED
    BY <1>4, <1>5, <1>6, <1>7 DEF JournalInv

\* JournalInv is inductive.
LEMMA NextInv == JournalInv /\ [Next]_vars => JournalInv'
  <1> SUFFICES ASSUME JournalInv, [Next]_vars
               PROVE  JournalInv'
    OBVIOUS
  <1>1. ASSUME NEW r \in Requests, Step(r)
        PROVE  JournalInv'
    BY <1>1, OrderArrivesInv, GetLatestPriceInv, CreateArrivesInv, InsertEntryInv,
       OutcomeArrivesInv, FindEntryInv, CloseEntryInv, AbortInv DEF Step
  <1>2. ASSUME NEW s \in Symbols, NEW t \in Times, NEW p \in Prices, IngestTick(s, t, p)
        PROVE  JournalInv'
    BY <1>2, IngestTickInv
  <1>3. ASSUME NEW u \in Users, DeleteUser(u)
        PROVE  JournalInv'
    BY <1>3, DeleteUserInv
  <1>4. CASE UNCHANGED vars
    BY <1>4 DEF vars, JournalInv, TypeOK, RowsOK, HandlersOK, SeenOK, FillsAreReal, RealTick,
                FreshFills, OutcomeStands
  <1> QED
    BY <1>1, <1>2, <1>3, <1>4 DEF Next

\* The inductive invariant of orders and journal, for any number of concurrent requests.
THEOREM JournalInvariance == Spec => []JournalInv
  BY InitInv, NextInv, PTL DEF Spec

\* An accepted outcome stands: the guard of the UPDATE closes the race of two outcomes.
THEOREM AcceptedOutcomesStand == Spec => []OutcomeStands
  BY JournalInvariance, PTL DEF JournalInv

\* No fill, in a reply or in the journal, is at a price the market did not print.
THEOREM FillsAreNeverFabricated == Spec => []FillsAreReal
  BY JournalInvariance, PTL DEF JournalInv

\* Backfilled ticks never make an order fill at an older one.
THEOREM FillsAreFresh == Spec => []FreshFills
  BY JournalInvariance, PTL DEF JournalInv

-------------------------------------------------------------------------------
(* The journal implements the write-once book.                                 *)

\* Every step of the journal is a step of the book, or leaves the entries alone.
LEMMA NextSimulation ==
    ASSUME JournalInv, [Next]_vars
    PROVE  [Book!Next]_entries
  <1>1. ASSUME NEW r \in Requests, InsertEntry(r)
        PROVE  [Book!Next]_entries
    <2>1. CASE request[r].user \in users
      <3>1. PICK id \in EntryIds \ DOMAIN entries :
               entries' = Put(entries, id, Book!OpenRow(request[r].user, fillOf[r]))
        BY <1>1, <2>1 DEF InsertEntry
      <3>2. fillOf[r] \in Fill /\ request[r].user \in Users
        BY <1>1, <2>1 DEF InsertEntry, JournalInv, HandlersOK, TypeOK
      <3>3. Book!Record(id, request[r].user, fillOf[r])
        BY <3>1 DEF Book!Record, Put, Book!Put
      <3> QED
        BY <3>2, <3>3 DEF Book!Next
    <2>2. CASE request[r].user \notin users
      BY <1>1, <2>2 DEF InsertEntry
    <2> QED
      BY <2>1, <2>2
  <1>2. ASSUME NEW r \in Requests, CloseEntry(r)
        PROVE  [Book!Next]_entries
    <2> DEFINE id == request[r].entry
               exit == request[r].exitPrice
    <2>1. pc[r] = "close"
      BY <1>2 DEF CloseEntry
    <2>2. /\ id \in EntryIds /\ id \in DOMAIN entries /\ exit \in Positive(Exits)
          /\ Outcome(r) = Book!ClosedRow(entries[id], exit, Book!Pnl(entries[id].fill, exit))
      BY <2>1, CloseIsClose
    <2>3. CASE entries[id].status = "open"
      <3>1. entries' = Put(entries, id, Outcome(r))
        BY <1>2, <2>3 DEF CloseEntry
      <3>2. Book!Close(id, exit)
        BY <2>2, <2>3, <3>1 DEF Book!Close, Put, Book!Put
      <3> QED
        BY <2>2, <3>2 DEF Book!Next
    <2>4. CASE entries[id].status # "open"
      BY <1>2, <2>4 DEF CloseEntry
    <2> QED
      BY <2>3, <2>4
  <1>3. ASSUME NEW u \in Users, DeleteUser(u)
        PROVE  [Book!Next]_entries
    BY <1>3 DEF DeleteUser, Book!Disown, Book!Next
  <1>4. ASSUME NEW r \in Requests,
               OrderArrives(r) \/ GetLatestPrice(r) \/ CreateArrives(r) \/ OutcomeArrives(r)
                  \/ FindEntry(r) \/ Abort(r)
        PROVE  entries' = entries
    BY <1>4 DEF OrderArrives, GetLatestPrice, CreateArrives, OutcomeArrives, FindEntry, Abort,
                Arrive
  <1>5. ASSUME NEW s \in Symbols, NEW t \in Times, NEW p \in Prices, IngestTick(s, t, p)
        PROVE  entries' = entries
    BY <1>5 DEF IngestTick
  <1>6. CASE UNCHANGED vars
    BY <1>6 DEF vars
  <1> QED
    BY <1>1, <1>2, <1>3, <1>4, <1>5, <1>6 DEF Next, Step

\* The journal_entries table implements the write-once book: the read before an outcome's
\* UPDATE may be stale, its effect is still that of one atomic Close.
THEOREM Refinement == Spec => ImplementsBook
  <1>1. Init => Book!Init
    BY DEF Init, Book!Init, EmptyTable, Book!EmptyTable
  <1> QED
    BY <1>1, NextSimulation, JournalInvariance, PTL DEF Spec, ImplementsBook, Book!Spec

\* Entries are never erased, their fills never change, their outcomes are written once.
THEOREM OutcomesAreWrittenOnce == Spec => Book!WriteOnce
  <1> DEFINE Kept == \A id \in DOMAIN entries :
                        /\ id \in DOMAIN entries'
                        /\ entries'[id].fill = entries[id].fill
                        /\ entries[id].status = "closed" =>
                              /\ entries'[id].status = "closed"
                              /\ entries'[id].exitPrice = entries[id].exitPrice
                              /\ entries'[id].pnl = entries[id].pnl
  <1>1. ASSUME JournalInv, [Book!Next]_entries
        PROVE  [Kept]_entries
    <2>1. ASSUME NEW id \in EntryIds, NEW u \in Users, NEW fill \in Fill, Book!Record(id, u, fill)
          PROVE  Kept
      BY <2>1 DEF Book!Record, Book!Put
    <2>2. ASSUME NEW id \in EntryIds, NEW exit \in Positive(Exits), Book!Close(id, exit)
          PROVE  Kept
      <3>1. entries[id] \in Row
        BY <1>1, <2>2 DEF Book!Close, JournalInv, TypeOK, IsTable
      <3>2. Book!ClosedRow(entries[id], exit, Book!Pnl(entries[id].fill, exit)).fill
              = entries[id].fill
        BY <3>1 DEF Book!ClosedRow, Row
      <3> QED
        BY <2>2, <3>2 DEF Book!Close, Book!Put
    <2>3. ASSUME NEW u \in Users, Book!Disown(u)
          PROVE  Kept
      BY <1>1, <2>3, DisownedRows DEF Book!Disown
    <2> QED
      BY <1>1, <2>1, <2>2, <2>3 DEF Book!Next
  <1> QED
    BY <1>1, NextSimulation, JournalInvariance, PTL DEF Spec, Book!WriteOnce

===============================================================================
