------------------------------ MODULE MarketFeed ------------------------------
(***************************************************************************)
(* The way of a tick from the broker to the screen: live ingestion of      *)
(* services/market-data (store, then publish on Redis), the gateway's      *)
(* stream server that fans the channel out to its sockets, and the         *)
(* reconnecting MarketStreamConnection of apps/web with the hook that      *)
(* keeps the last tick of each symbol.  The table is module MarketTicks.   *)
(*                                                                         *)
(* Redis delivers a channel in order to a subscriber that is connected, so *)
(* a publication and its fan-out are one step, which the gateway may miss. *)
(***************************************************************************)
EXTENDS Naturals, Sequences, Tables, MarketTicks

CONSTANTS
    Symbols, Times, Prices,
    Ticks,       \* what the broker's feed delivers, each at most once, in any order
    Sockets,     \* the browser's WebSocket objects, reused once closed
    NULL

ASSUME TicksAssumption == Ticks \subseteq [symbol : Symbols, time : Times, price : Prices]

ASSUME NullAssumption == NULL \notin Ticks \cup Sockets

VARIABLES
    handler,     \* how far the ingestion of each tick is
    ticks,       \* table market_ticks
    position,    \* history: the place of each tick among the published ones, 0 before
    count,       \* history: how many were published
    up,          \* the gateway runs and can be reached
    clients,     \* the sockets in the gateway's wss.clients
    wire,        \* what each of them sent that the browser has not delivered
    socket,      \* readyState of each socket in the browser; "closed" ones are reusable
    ws, status, retrying, timers,   \* fields of the connection; retrying: reconnectAttempt > 0
    life,        \* the component: "new", "mounted", or "closed" (closedByCaller)
    shown        \* the hook's ticksBySymbol

ingestion == <<handler, ticks, position, count>>
gateway   == <<up, clients, wire>>
client    == <<socket, ws, status, retrying, timers, life, shown>>
vars      == <<ingestion, gateway, client>>

-------------------------------------------------------------------------------

TypeOK ==
    /\ handler \in [Ticks -> {"none", "insert", "publish", "done", "failed"}]
    /\ IsTicks(ticks, Symbols, Times, Prices)
    /\ position \in [Ticks -> Nat]
    /\ count \in Nat
    /\ up \in BOOLEAN
    /\ clients \subseteq Sockets
    /\ wire \in [Sockets -> Seq(Ticks)]
    /\ socket \in [Sockets -> {"closed", "connecting", "open", "closing"}]
    /\ ws \in Sockets \cup {NULL}
    /\ status \in {"connecting", "open", "reconnecting", "disconnected"}
    /\ retrying \in BOOLEAN
    /\ timers \in Nat
    /\ life \in {"new", "mounted", "closed"}
    /\ shown \in [Symbols -> Ticks \cup {NULL}]

Init ==
    /\ handler = [t \in Ticks |-> "none"]
    /\ ticks = NoTicks(Symbols)
    /\ position = [t \in Ticks |-> 0]
    /\ count = 0
    /\ up = TRUE
    /\ clients = {}
    /\ wire = [k \in Sockets |-> <<>>]
    /\ socket = [k \in Sockets |-> "closed"]
    /\ ws = NULL
    /\ status = "connecting"
    /\ retrying = FALSE
    /\ timers = 0
    /\ life = "new"
    /\ shown = [s \in Symbols |-> NULL]

-------------------------------------------------------------------------------
(* services/market-data: handleTick, started per tick and never awaited *)

\* The ticks are those normalizeTick accepts; it rejects the others before the first await.
TickArrives(t) ==
    /\ handler[t] = "none"
    /\ handler' = [handler EXCEPT ![t] = "insert"]
    /\ UNCHANGED <<ticks, position, count, gateway, client>>

\* await insertTicks: a failed insert ends the handler, with a line in the log.
InsertTick_PublishAnyway(t) ==
    /\ handler[t] = "insert"
    /\ handler' = [handler EXCEPT ![t] = "publish"]
    /\ ticks' \in {ticks, WithTick(ticks, t.symbol, t.time, t.price)}
    /\ UNCHANGED <<position, count, gateway, client>>
InsertTick(t) ==
    /\ handler[t] = "insert"
    /\ \/ /\ ticks' = WithTick(ticks, t.symbol, t.time, t.price)
          /\ handler' = [handler EXCEPT ![t] = "publish"]
       \/ /\ handler' = [handler EXCEPT ![t] = "failed"]
          /\ UNCHANGED ticks
    /\ UNCHANGED <<position, count, gateway, client>>

\* GatewayStreamServer.send: every socket the gateway holds at this moment.
Sent(t) == [k \in Sockets |-> IF k \in clients THEN Append(wire[k], t) ELSE wire[k]]

\* await publish: fails, or reaches the gateway, or is lost on it.
PublishTick(t) ==
    /\ handler[t] = "publish"
    /\ \/ /\ handler' = [handler EXCEPT ![t] = "failed"]
          /\ UNCHANGED <<position, count, wire>>
       \/ /\ handler' = [handler EXCEPT ![t] = "done"]
          /\ count' = count + 1
          /\ position' = [position EXCEPT ![t] = count + 1]
          /\ wire' \in {wire, Sent(t)}
    /\ UNCHANGED <<ticks, up, clients, client>>

-------------------------------------------------------------------------------
(* The gateway *)

\* The upgrade handshake.
Accept(k) ==
    /\ up
    /\ socket[k] = "connecting"
    /\ k \notin clients
    /\ clients' = clients \cup {k}
    /\ UNCHANGED <<up, wire, ingestion, client>>

\* The gateway stops or crashes: close() terminates its sockets, and so does the end of the
\* process.  A connection that dies without a close event is not noticed by this code, which
\* never pings, and is not modelled.
GatewayDown ==
    /\ up
    /\ up' = FALSE
    /\ clients' = {}
    /\ UNCHANGED <<wire, ingestion, client>>

GatewayUp ==
    /\ ~up
    /\ up' = TRUE
    /\ UNCHANGED <<clients, wire, ingestion, client>>

-------------------------------------------------------------------------------
(* MarketStreamConnection *)

\* open(): a new WebSocket becomes the current one.
Open ==
    \E k \in Sockets :
        /\ socket[k] = "closed"
        /\ socket' = [socket EXCEPT ![k] = "connecting"]
        /\ wire' = [wire EXCEPT ![k] = <<>>]
        /\ ws' = k
        /\ status' = IF retrying THEN "reconnecting" ELSE "connecting"

\* The effect of useMarketStream: connect().
Mount ==
    /\ life = "new"
    /\ life' = "mounted"
    /\ Open
    /\ UNCHANGED <<retrying, timers, shown, up, clients, ingestion>>

\* The "open" event.
OpenEvent(k) ==
    /\ socket[k] = "connecting"
    /\ k \in clients
    /\ socket' = [socket EXCEPT ![k] = "open"]
    /\ retrying' = FALSE
    /\ status' = "open"
    /\ UNCHANGED <<ws, timers, life, shown, gateway, ingestion>>

\* The "message" event: onTick keeps the tick, whatever its timestamp.  A browser delivers
\* no message of a socket that is closing.
TickEvent(k) ==
    /\ socket[k] = "open"
    /\ wire[k] # <<>>
    /\ LET t == Head(wire[k])
       IN  shown' = [shown EXCEPT ![t.symbol] = t]
    /\ wire' = [wire EXCEPT ![k] = Tail(@)]
    /\ UNCHANGED <<socket, ws, status, retrying, timers, life, up, clients, ingestion>>

\* The connection of k is gone, refused, or closed by this side.
Gone(k) ==
    \/ socket[k] = "connecting" /\ ~up
    \/ socket[k] = "open" /\ k \notin clients
    \/ socket[k] = "closing"

\* scheduleReconnect()
ScheduleReconnect ==
    /\ retrying' = TRUE
    /\ timers' = timers + 1

\* The "close" event; what was still on the wire is lost.  "error" precedes it and does
\* nothing: scheduling there as well would schedule twice.
CloseEvent_Always(k) ==
    /\ Gone(k)
    /\ socket' = [socket EXCEPT ![k] = "closed"]
    /\ clients' = clients \ {k}
    /\ status' = "disconnected"
    /\ ScheduleReconnect
    /\ UNCHANGED <<ws, life, shown, up, wire, ingestion>>
CloseEvent_TwiceScheduled(k) ==
    /\ Gone(k)
    /\ socket' = [socket EXCEPT ![k] = "closed"]
    /\ clients' = clients \ {k}
    /\ \/ /\ life # "closed"
          /\ status' = "disconnected"
          /\ retrying' = TRUE
          /\ timers' = timers + 2
       \/ /\ life = "closed"
          /\ UNCHANGED <<status, retrying, timers>>
    /\ UNCHANGED <<ws, life, shown, up, wire, ingestion>>
CloseEvent_Once(k) ==
    /\ Gone(k)
    /\ socket' = [socket EXCEPT ![k] = "closed"]
    /\ clients' = clients \ {k}
    /\ \/ /\ life # "closed"
          /\ status' = "disconnected"
          /\ IF retrying THEN UNCHANGED <<retrying, timers>> ELSE ScheduleReconnect
       \/ /\ life = "closed"
          /\ UNCHANGED <<status, retrying, timers>>
    /\ UNCHANGED <<ws, life, shown, up, wire, ingestion>>
CloseEvent(k) ==
    /\ Gone(k)
    /\ socket' = [socket EXCEPT ![k] = "closed"]
    /\ clients' = clients \ {k}
    /\ \/ /\ life # "closed"
          /\ status' = "disconnected"
          /\ ScheduleReconnect
       \/ /\ life = "closed"
          /\ UNCHANGED <<status, retrying, timers>>
    /\ UNCHANGED <<ws, life, shown, up, wire, ingestion>>

\* setTimeout's callback.
TimerFires ==
    /\ timers > 0
    /\ timers' = timers - 1
    /\ \/ life # "closed" /\ Open
       \/ life = "closed" /\ UNCHANGED <<socket, wire, ws, status>>
    /\ UNCHANGED <<retrying, life, shown, up, clients, ingestion>>

\* The cleanup of the effect: close(), which clears the last timer and closes the socket.
Unmount ==
    /\ life = "mounted"
    /\ life' = "closed"
    /\ timers' = IF timers > 0 THEN timers - 1 ELSE 0
    /\ socket' = [k \in Sockets |-> IF k = ws /\ socket[k] # "closed" THEN "closing" ELSE socket[k]]
    /\ ws' = NULL
    /\ UNCHANGED <<status, retrying, shown, gateway, ingestion>>

-------------------------------------------------------------------------------

Ingest == \E t \in Ticks : TickArrives(t) \/ InsertTick(t) \/ PublishTick(t)

SocketEvent(k) == OpenEvent(k) \/ TickEvent(k) \/ CloseEvent(k)

Next ==
    \/ Ingest
    \/ GatewayDown \/ GatewayUp
    \/ \E k \in Sockets : Accept(k) \/ SocketEvent(k)
    \/ Mount \/ TimerFires \/ Unmount

Spec == Init /\ [][Next]_vars

\* A gateway that can be reached answers a handshake, a browser delivers the events of its
\* sockets, and its timers fire.
Fairness ==
    /\ \A k \in Sockets : WF_vars(Accept(k)) /\ WF_vars(OpenEvent(k)) /\ WF_vars(CloseEvent(k))
    /\ WF_vars(TimerFires)

FairSpec == Spec /\ Fairness

-------------------------------------------------------------------------------
(* Correctness *)

\* A tick on the screen is one the table has: a row of its symbol and timestamp, written by
\* the feed, with its price unless the feed carried two prices for that instant.  Nothing
\* reaches a subscriber that could not be stored (live-ingestion.ts: insert, then publish).
Handled == {"publish", "done", "failed"}

StoredAs(t, u) ==
    /\ u.symbol = t.symbol
    /\ u.time = t.time
    /\ t.time \in DOMAIN ticks[t.symbol]
    /\ ticks[t.symbol][t.time] = u.price

ShownIsStored ==
    \A s \in Symbols :
        shown[s] # NULL =>
            /\ shown[s].symbol = s
            /\ \E u \in Ticks : handler[u] \in Handled /\ StoredAs(shown[s], u)

\* A mounted client waits for one timer or has one socket, never both, never two of either,
\* never neither, however closes, errors, timers and outages interleave; its status tells
\* which; an unmounted one has no timer left (market-stream.ts: "avoid double-scheduling").
OneConnection ==
    /\ life = "mounted" =>
           \/ /\ timers = 1
              /\ status = "disconnected"
              /\ \A k \in Sockets : socket[k] = "closed"
           \/ /\ timers = 0
              /\ ws # NULL
              /\ \/ socket[ws] = "connecting" /\ status \in {"connecting", "reconnecting"}
                 \/ socket[ws] = "open" /\ status = "open"
              /\ \A k \in Sockets \ {ws} : socket[k] = "closed"
    /\ life = "closed" =>
           /\ timers = 0
           /\ \A k \in Sockets : socket[k] \in {"closed", "closing"}

\* The ticks of a symbol appear in the order they were published, across every reconnect:
\* a reconnected client never falls back to a tick published before one it has shown.
PublicationOrder ==
    [][\A s \in Symbols :
          shown'[s] # shown[s] =>
              /\ shown'[s] # NULL
              /\ shown[s] # NULL => position[shown[s]] < position[shown'[s]]]_vars

\* After close() the component hears nothing more: no status, no tick, no new socket.
SilentAfterClose ==
    [][life = "closed" =>
          /\ UNCHANGED <<status, shown, life>>
          /\ \A k \in Sockets : socket[k] = "closed" => socket'[k] = "closed"]_vars

\* A mounted client whose gateway stays reachable is connected in the end, for good,
\* however many attempts failed before.
Reconnects == <>[](up /\ life = "mounted") => <>[](status = "open" /\ ws \in clients)

-------------------------------------------------------------------------------
(* The inductive invariant.                                                    *)

\* Every row came from the feed, and a tick is published only once its row is there.
RowsOK ==
    /\ \A s \in Symbols : \A time \in DOMAIN ticks[s] :
           \E u \in Ticks :
               /\ handler[u] \in Handled
               /\ u.symbol = s /\ u.time = time /\ u.price = ticks[s][time]
    /\ \A t \in Ticks : handler[t] \in {"publish", "done"} => t.time \in DOMAIN ticks[t.symbol]

\* A tick has a position exactly when it was published.
PositionsOK ==
    \A t \in Ticks :
        /\ position[t] <= count
        /\ position[t] > 0 <=> handler[t] = "done"

\* Every wire carries published ticks in their order.
WiresOK ==
    \A k \in Sockets :
        /\ \A i \in 1..Len(wire[k]) : position[wire[k][i]] > 0
        /\ \A i, j \in 1..Len(wire[k]) : i < j => position[wire[k][i]] < position[wire[k][j]]

\* What is shown was published, before everything a live socket may still deliver.
ShownOK ==
    \A s \in Symbols :
        shown[s] # NULL =>
            /\ shown[s].symbol = s
            /\ position[shown[s]] > 0
            /\ \A k \in Sockets : socket[k] \in {"connecting", "open"} =>
                   \A i \in 1..Len(wire[k]) : position[shown[s]] < position[wire[k][i]]

\* Before it is mounted the component has opened nothing.
UnmountedOK == life = "new" => timers = 0 /\ \A k \in Sockets : socket[k] = "closed"

FeedInv ==
    /\ TypeOK
    /\ RowsOK
    /\ PositionsOK
    /\ WiresOK
    /\ ShownOK
    /\ UnmountedOK
    /\ OneConnection
    /\ ShownIsStored

===============================================================================
