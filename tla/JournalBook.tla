----------------------------- MODULE JournalBook ------------------------------
(***************************************************************************)
(* What the trading journal promises, as one atomic object: an entry       *)
(* snapshots a fill, is closed once with the profit its own fill and exit  *)
(* price determine, is never changed or erased afterwards, and outlives    *)
(* the account that made it.                                               *)
(***************************************************************************)
EXTENDS Integers, Tables

CONSTANTS
    Users,       \* account ids
    Fills,       \* what an order was filled with
    ExitPrices,  \* prices a position is closed at
    EntryIds,    \* uuids of journal_entries
    NULL         \* SQL NULL

VARIABLE entries     \* table journal_entries: id -> row

\* +1 for a buy, which opened a long position, -1 for a sell, which opened a short one.
Direction(side) == IF side = "buy" THEN 1 ELSE -1

\* calculateRealizedPnl, of the fill's own side.
Pnl_SideBlind(fill, exit) == (exit - fill.price) * fill.quantity
Pnl(fill, exit) == Direction(fill.side) * (exit - fill.price) * fill.quantity

OpenRow(u, fill) == [user |-> u, fill |-> fill, status |-> "open", exitPrice |-> NULL, pnl |-> NULL]

ClosedRow(row, exit, pnl) ==
    [row EXCEPT !.status = "closed", !.exitPrice = exit, !.pnl = pnl]

\* ON DELETE SET NULL of journal_entries.user_id.
Disowned(table, u) ==
    [id \in DOMAIN table |-> IF table[id].user = u THEN [table[id] EXCEPT !.user = NULL]
                                                   ELSE table[id]]

-------------------------------------------------------------------------------

Init == entries = EmptyTable

Record(id, u, fill) ==
    /\ id \notin DOMAIN entries
    /\ entries' = Put(entries, id, OpenRow(u, fill))

Close(id, exit) ==
    /\ id \in DOMAIN entries
    /\ entries[id].status = "open"
    /\ entries' = Put(entries, id, ClosedRow(entries[id], exit, Pnl(entries[id].fill, exit)))

Disown(u) == entries' = Disowned(entries, u)

Next ==
    \/ \E id \in EntryIds, u \in Users, fill \in Fills : Record(id, u, fill)
    \/ \E id \in EntryIds, exit \in ExitPrices : Close(id, exit)
    \/ \E u \in Users : Disown(u)

Spec == Init /\ [][Next]_entries

-------------------------------------------------------------------------------

\* An entry is never erased and its fill never changes; once closed, neither does its
\* outcome (journal-schema.ts: "written exactly once").
WriteOnce ==
    [][\A id \in DOMAIN entries :
          /\ id \in DOMAIN entries'
          /\ entries'[id].fill = entries[id].fill
          /\ entries[id].status = "closed" =>
                /\ entries'[id].status = "closed"
                /\ entries'[id].exitPrice = entries[id].exitPrice
                /\ entries'[id].pnl = entries[id].pnl]_entries

===============================================================================
