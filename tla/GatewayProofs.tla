---------------------------- MODULE GatewayProofs ----------------------------
(***************************************************************************)
(* Proofs about what the gateway puts together itself.                     *)
(*                                                                         *)
(* MarketFeed, for any number of ticks, symbols and sockets: the inductive *)
(* invariant FeedInv, and the two action properties.                       *)
(*                                                                         *)
(* Council, for councils of any size: sums over opinions are folds, so the *)
(* part before it shows, by induction on the places of a sequence, that a  *)
(* fold is what adding step by step makes of it.  The invariant CouncilInv *)
(* says that the opinions are those of the schema and that the verdict is  *)
(* worked out of them; the properties follow from what consensus.ts,       *)
(* trade-idea.ts and trace.ts compute of any such council.                 *)
(***************************************************************************)
EXTENDS MarketFeed, Council, DataLemmas

-------------------------------------------------------------------------------
(* Facts used by several steps.                                                *)

\* A tick is a symbol, a timestamp and a price.
LEMMA TickType ==
    ASSUME NEW t \in Ticks
    PROVE  t.symbol \in Symbols /\ t.time \in Times /\ t.price \in Prices
  BY TicksAssumption

\* What is shown was published, so its row is there and came from the feed.
LEMMA ShownTicksHaveRows ==
    ASSUME TypeOK, RowsOK, PositionsOK, ShownOK
    PROVE  ShownIsStored
  <1> SUFFICES ASSUME NEW s \in Symbols, shown[s] # NULL
               PROVE  /\ shown[s].symbol = s
                      /\ \E u \in Ticks : handler[u] \in Handled /\ StoredAs(shown[s], u)
    BY DEF ShownIsStored
  <1> DEFINE t == shown[s]
  <1>1. t \in Ticks /\ t.symbol = s /\ position[t] > 0
    BY DEF TypeOK, ShownOK
  <1>2. t.time \in DOMAIN ticks[s]
    BY <1>1 DEF PositionsOK, RowsOK
  <1>3. PICK u \in Ticks :
           /\ handler[u] \in Handled
           /\ u.symbol = s /\ u.time = t.time /\ u.price = ticks[s][t.time]
    BY <1>2 DEF RowsOK
  <1> QED
    BY <1>1, <1>2, <1>3 DEF StoredAs

\* The insert of a tick: the table keeps its rows and has a row of that instant.
LEMMA InsertKeepsRows ==
    ASSUME TypeOK, NEW t \in Ticks
    PROVE  LET new == WithTick(ticks, t.symbol, t.time, t.price)
           IN  /\ IsTicks(new, Symbols, Times, Prices)
               /\ t.time \in DOMAIN new[t.symbol]
               /\ \A s \in Symbols : \A u \in DOMAIN ticks[s] : u \in DOMAIN new[s]
               /\ \A s \in Symbols : \A u \in DOMAIN new[s] :
                     \/ u \in DOMAIN ticks[s] /\ new[s][u] = ticks[s][u]
                     \/ s = t.symbol /\ u = t.time /\ new[s][u] = t.price
  <1> DEFINE new == WithTick(ticks, t.symbol, t.time, t.price)
             row == Put(ticks[t.symbol], t.time, t.price)
  <1>1. t.symbol \in Symbols /\ t.time \in Times /\ t.price \in Prices
    BY TickType
  <1>2. CASE t.time \in DOMAIN ticks[t.symbol]
    BY <1>2 DEF WithTick, TypeOK
  <1>3. CASE t.time \notin DOMAIN ticks[t.symbol]
    <2>1. new = [ticks EXCEPT ![t.symbol] = row]
      BY <1>3 DEF WithTick
    <2>2. ticks = [s \in Symbols |-> ticks[s]]
      BY DEF TypeOK, IsTicks
    <2>3. new = [s \in Symbols |-> IF s = t.symbol THEN row ELSE ticks[s]]
      BY <2>1, <2>2
    <2>4. IsTable(row, Times, Prices)
      BY <1>1, PutType DEF TypeOK, IsTicks
    <2>5. \A s \in Symbols : new[s] = IF s = t.symbol THEN row ELSE ticks[s]
      BY <2>3
    <2>6. IsTicks(new, Symbols, Times, Prices)
      BY <2>3, <2>4, <2>5 DEF TypeOK, IsTicks
    <2>7. /\ DOMAIN row = DOMAIN ticks[t.symbol] \cup {t.time}
          /\ row[t.time] = t.price
          /\ \A u \in DOMAIN ticks[t.symbol] : u # t.time => row[u] = ticks[t.symbol][u]
      BY <1>3 DEF Put
    <2> QED
      BY <1>1, <1>3, <2>5, <2>6, <2>7
  <1> QED
    BY <1>2, <1>3

-------------------------------------------------------------------------------
(* Every action preserves the invariant.                                       *)

\* FeedInv holds initially.
LEMMA InitInv == Init => FeedInv
  <1> SUFFICES ASSUME Init PROVE FeedInv
    OBVIOUS
  <1>1. /\ ticks = [s \in Symbols |-> EmptyTable]
        /\ \A s \in Symbols : DOMAIN ticks[s] = {} /\ IsTable(ticks[s], Times, Prices)
    BY EmptyTableType DEF Init, NoTicks
  <1>2. IsTicks(ticks, Symbols, Times, Prices)
    BY <1>1 DEF IsTicks
  <1>3. TypeOK
    <2>1. <<>> \in Seq(Ticks)
      OBVIOUS
    <2>2. wire \in [Sockets -> Seq(Ticks)]
      BY <2>1 DEF Init
    <2> QED
      BY <1>2, <2>2 DEF Init, TypeOK
  <1>4. RowsOK /\ PositionsOK
    BY <1>1 DEF Init, RowsOK, PositionsOK
  <1>5. WiresOK /\ ShownOK /\ UnmountedOK /\ OneConnection /\ ShownIsStored
    BY DEF Init, WiresOK, ShownOK, UnmountedOK, OneConnection, ShownIsStored
  <1> QED
    BY <1>3, <1>4, <1>5 DEF FeedInv

\* FeedInv survives the arrival of a tick.
LEMMA TickArrivesInv ==
    ASSUME FeedInv, NEW t \in Ticks, TickArrives(t)
    PROVE  FeedInv'
  <1>1. /\ handler[t] = "none"
        /\ \A u \in Ticks : handler'[u] = IF u = t THEN "insert" ELSE handler[u]
        /\ UNCHANGED <<ticks, position, count, gateway, client>>
    BY DEF TickArrives, FeedInv, TypeOK
  <1>2. TypeOK'
    BY DEF TickArrives, FeedInv, TypeOK, gateway, client
  <1>3. RowsOK'
    BY <1>1 DEF FeedInv, RowsOK, Handled
  <1>4. PositionsOK'
    BY <1>1 DEF FeedInv, PositionsOK
  <1>5. (WiresOK /\ ShownOK /\ UnmountedOK /\ OneConnection)'
    BY <1>1 DEF FeedInv, WiresOK, ShownOK, UnmountedOK, OneConnection, gateway, client
  <1> QED
    BY <1>2, <1>3, <1>4, <1>5, ShownTicksHaveRows, PTL DEF FeedInv

\* FeedInv survives the insert of a tick: the row it writes, or finds, came from the feed.
LEMMA InsertTickInv ==
    ASSUME FeedInv, NEW t \in Ticks, InsertTick(t)
    PROVE  FeedInv'
  <1>1. /\ handler[t] = "insert"
        /\ handler' \in [Ticks -> {"none", "insert", "publish", "done", "failed"}]
        /\ \A u \in Ticks : u # t => handler'[u] = handler[u]
        /\ handler'[t] \in {"publish", "failed"}
        /\ handler'[t] = "publish" => ticks' = WithTick(ticks, t.symbol, t.time, t.price)
        /\ handler'[t] = "failed" => ticks' = ticks
        /\ UNCHANGED <<position, count, gateway, client>>
    BY DEF InsertTick, FeedInv, TypeOK
  <1>2. /\ IsTicks(ticks', Symbols, Times, Prices)
        /\ handler'[t] = "publish" => t.time \in DOMAIN ticks'[t.symbol]
        /\ \A s \in Symbols : \A u \in DOMAIN ticks[s] : u \in DOMAIN ticks'[s]
        /\ \A s \in Symbols : \A u \in DOMAIN ticks'[s] :
              \/ u \in DOMAIN ticks[s] /\ ticks'[s][u] = ticks[s][u]
              \/ s = t.symbol /\ u = t.time /\ ticks'[s][u] = t.price
    <2>1. CASE handler'[t] = "publish"
      BY <1>1, <2>1, InsertKeepsRows DEF FeedInv
    <2>2. CASE handler'[t] = "failed"
      BY <1>1, <2>2 DEF FeedInv, TypeOK
    <2> QED
      BY <1>1, <2>1, <2>2
  <1>3. TypeOK'
    BY <1>1, <1>2 DEF FeedInv, TypeOK, gateway, client
  <1>4. RowsOK'
    <2>1. ASSUME NEW s \in Symbols, NEW time \in DOMAIN ticks'[s]
          PROVE  \E u \in Ticks :
                    /\ handler'[u] \in Handled
                    /\ u.symbol = s /\ u.time = time /\ u.price = ticks'[s][time]
      <3>1. CASE time \in DOMAIN ticks[s] /\ ticks'[s][time] = ticks[s][time]
        <4>1. PICK u \in Ticks :
                 /\ handler[u] \in Handled
                 /\ u.symbol = s /\ u.time = time /\ u.price = ticks[s][time]
          BY <3>1 DEF FeedInv, RowsOK
        <4> QED
          BY <1>1, <3>1, <4>1 DEF Handled
      <3>2. CASE s = t.symbol /\ time = t.time /\ ticks'[s][time] = t.price
        BY <1>1, <3>2 DEF Handled
      <3> QED
        BY <1>2, <3>1, <3>2
    <2>2. ASSUME NEW u \in Ticks, handler'[u] \in {"publish", "done"}
          PROVE  u.time \in DOMAIN ticks'[u.symbol]
      BY <1>1, <1>2, <2>2, TickType DEF FeedInv, RowsOK
    <2> QED
      BY <2>1, <2>2 DEF RowsOK
  <1>5. PositionsOK'
    BY <1>1 DEF FeedInv, PositionsOK
  <1>6. (WiresOK /\ ShownOK /\ UnmountedOK /\ OneConnection)'
    BY <1>1 DEF FeedInv, WiresOK, ShownOK, UnmountedOK, OneConnection, gateway, client
  <1> QED
    BY <1>3, <1>4, <1>5, <1>6, ShownTicksHaveRows, PTL DEF FeedInv

\* FeedInv survives a publication: its position is past every other one, on every wire.
LEMMA PublishTickInv ==
    ASSUME FeedInv, NEW t \in Ticks, PublishTick(t)
    PROVE  FeedInv'
  <1> USE DEF FeedInv
  <1>1. /\ handler[t] = "publish" /\ position[t] = 0
        /\ handler' \in [Ticks -> {"none", "insert", "publish", "done", "failed"}]
        /\ \A u \in Ticks : u # t => handler'[u] = handler[u]
        /\ UNCHANGED <<ticks, up, clients, client>>
    <2>1. handler[t] = "publish" /\ UNCHANGED <<ticks, up, clients, client>>
      BY DEF PublishTick
    <2>2. position[t] = 0
      BY <2>1 DEF TypeOK, PositionsOK
    <2>3. PICK h \in {"failed", "done"} : handler' = [handler EXCEPT ![t] = h]
      BY DEF PublishTick
    <2> QED
      BY <2>1, <2>2, <2>3 DEF TypeOK
  <1>2. CASE handler'[t] = "failed" /\ UNCHANGED <<position, count, wire>>
    <2>1. TypeOK'
      BY <1>1, <1>2 DEF TypeOK, client
    <2>2. RowsOK' /\ PositionsOK'
      BY <1>1, <1>2 DEF RowsOK, PositionsOK, Handled
    <2>3. (WiresOK /\ ShownOK /\ UnmountedOK /\ OneConnection)'
      BY <1>1, <1>2 DEF WiresOK, ShownOK, UnmountedOK, OneConnection, client
    <2> QED
      BY <2>1, <2>2, <2>3, ShownTicksHaveRows, PTL
  <1>3. CASE /\ handler'[t] = "done"
             /\ count' = count + 1
             /\ position' = [position EXCEPT ![t] = count + 1]
             /\ wire' \in {wire, Sent(t)}
    <2>1. /\ count \in Nat
          /\ \A u \in Ticks : position[u] \in Nat /\ position[u] <= count
          /\ \A u \in Ticks : position'[u] = IF u = t THEN count + 1 ELSE position[u]
          /\ \A u \in Ticks : position[u] > 0 => position'[u] = position[u]
      BY <1>1, <1>3 DEF TypeOK, PositionsOK
    <2>2. \A k \in Sockets : wire'[k] \in {wire[k], Append(wire[k], t)}
      BY <1>3 DEF Sent
    <2>3. wire' \in [Sockets -> Seq(Ticks)]
      <3>1. \A k \in Sockets : Append(wire[k], t) \in Seq(Ticks)
        BY DEF TypeOK
      <3> QED
        BY <1>3, <3>1 DEF Sent, TypeOK
    <2>4. TypeOK'
      BY <1>1, <1>3, <2>3 DEF TypeOK, client
    <2>5. RowsOK' /\ PositionsOK'
      BY <1>1, <1>3, <2>1 DEF RowsOK, PositionsOK, Handled
    <2>6. ASSUME NEW k \in Sockets
          PROVE  \/ wire'[k] = wire[k]
                 \/ /\ Len(wire'[k]) = Len(wire[k]) + 1
                    /\ \A i \in 1..Len(wire[k]) : wire'[k][i] = wire[k][i]
                    /\ wire'[k][Len(wire[k]) + 1] = t
      <3>1. wire[k] \in Seq(Ticks)
        BY DEF TypeOK
      <3> QED
        BY <2>2, <3>1
    <2>7. ASSUME NEW k \in Sockets
          PROVE  /\ Len(wire[k]) \in Nat
                 /\ \A i \in 1..Len(wire[k]) : wire[k][i] \in Ticks
      BY DEF TypeOK
    <2>8. WiresOK'
      <3>1. ASSUME NEW k \in Sockets
            PROVE  /\ \A i \in 1..Len(wire'[k]) : position'[wire'[k][i]] > 0
                   /\ \A i, j \in 1..Len(wire'[k]) :
                         i < j => position'[wire'[k][i]] < position'[wire'[k][j]]
        <4>1. /\ \A i \in 1..Len(wire[k]) : position'[wire[k][i]] = position[wire[k][i]]
              /\ \A i \in 1..Len(wire[k]) : position'[wire[k][i]] > 0 /\ position'[wire[k][i]] < count + 1
              /\ \A i, j \in 1..Len(wire[k]) : i < j => position'[wire[k][i]] < position'[wire[k][j]]
          <5>1. /\ \A i \in 1..Len(wire[k]) : wire[k][i] \in Ticks /\ position[wire[k][i]] > 0
                /\ \A i, j \in 1..Len(wire[k]) : i < j => position[wire[k][i]] < position[wire[k][j]]
            BY <2>7 DEF WiresOK
          <5>2. \A i \in 1..Len(wire[k]) : /\ position'[wire[k][i]] = position[wire[k][i]]
                                           /\ position[wire[k][i]] \in Nat
                                           /\ position[wire[k][i]] <= count
            BY <2>1, <5>1
          <5> QED
            BY <2>1, <5>1, <5>2, SMTT(30)
        <4>2. CASE wire'[k] = wire[k]
          BY <4>1, <4>2
        <4>3. CASE /\ Len(wire'[k]) = Len(wire[k]) + 1
                   /\ \A i \in 1..Len(wire[k]) : wire'[k][i] = wire[k][i]
                   /\ wire'[k][Len(wire[k]) + 1] = t
          <5>1. \A i \in 1..Len(wire'[k]) : i \in 1..Len(wire[k]) \/ i = Len(wire[k]) + 1
            BY <2>7, <4>3
          <5>2. position'[t] = count + 1 /\ count \in Nat
            BY <2>1
          <5>3. ASSUME NEW i \in 1..Len(wire'[k])
                PROVE  position'[wire'[k][i]] > 0
            BY <4>1, <4>3, <5>1, <5>2, SMTT(30)
          <5>4. ASSUME NEW i \in 1..Len(wire'[k]), NEW j \in 1..Len(wire'[k]), i < j
                PROVE  position'[wire'[k][i]] < position'[wire'[k][j]]
            <6>1. i \in 1..Len(wire[k])
              BY <2>7, <4>3, <5>1, <5>4
            <6>2. CASE j \in 1..Len(wire[k])
              BY <4>1, <4>3, <5>4, <6>1, <6>2
            <6>3. CASE j = Len(wire[k]) + 1
              BY <4>1, <4>3, <5>2, <6>1, <6>3
            <6> QED
              BY <5>1, <6>2, <6>3
          <5> QED
            BY <5>3, <5>4
        <4> QED
          BY <2>6, <4>2, <4>3
      <3> QED
        BY <3>1 DEF WiresOK
    <2>9. ShownOK'
      <3>1. UNCHANGED <<shown, socket>>
        BY <1>1 DEF client
      <3>2. ASSUME NEW s \in Symbols, shown[s] # NULL
            PROVE  /\ shown[s].symbol = s
                   /\ position'[shown[s]] > 0 /\ position'[shown[s]] = position[shown[s]]
                   /\ position[shown[s]] < count + 1
        <4>1. shown[s] \in Ticks /\ shown[s].symbol = s /\ position[shown[s]] > 0
          BY <3>2 DEF ShownOK, TypeOK
        <4> QED
          BY <2>1, <4>1
      <3>3. ASSUME NEW s \in Symbols, shown[s] # NULL, NEW k \in Sockets,
                   socket[k] \in {"connecting", "open"}, NEW i \in 1..Len(wire'[k])
            PROVE  position'[shown[s]] < position'[wire'[k][i]]
        <4>1. \A j \in 1..Len(wire[k]) :
                 position[shown[s]] < position[wire[k][j]] /\ position'[wire[k][j]] = position[wire[k][j]]
          BY <2>1, <2>7, <3>3 DEF ShownOK, WiresOK
        <4>2. \/ i \in 1..Len(wire[k]) /\ wire'[k][i] = wire[k][i]
              \/ wire'[k][i] = t
          BY <2>6, <2>7
        <4>3. position'[t] = count + 1
          BY <2>1
        <4> QED
          BY <3>2, <3>3, <4>1, <4>2, <4>3
      <3> QED
        BY <3>1, <3>2, <3>3 DEF ShownOK
    <2>10. (UnmountedOK /\ OneConnection)'
      BY <1>1 DEF UnmountedOK, OneConnection, client
    <2> QED
      BY <2>4, <2>5, <2>8, <2>9, <2>10, ShownTicksHaveRows, PTL
  <1> QED
    BY <1>2, <1>3 DEF PublishTick, TypeOK

\* FeedInv survives what happens to the gateway: neither table nor client notice yet.
LEMMA GatewayInv ==
    ASSUME FeedInv, GatewayDown \/ GatewayUp \/ \E k \in Sockets : Accept(k)
    PROVE  FeedInv'
  <1>1. /\ up' \in BOOLEAN /\ clients' \subseteq Sockets
        /\ UNCHANGED <<wire, ingestion, client>>
    BY DEF GatewayDown, GatewayUp, Accept, FeedInv, TypeOK
  <1>2. TypeOK'
    BY <1>1 DEF FeedInv, TypeOK, ingestion, client
  <1>3. (RowsOK /\ PositionsOK /\ WiresOK /\ ShownOK /\ UnmountedOK /\ OneConnection)'
    BY <1>1 DEF FeedInv, RowsOK, PositionsOK, WiresOK, ShownOK, UnmountedOK, OneConnection,
                ingestion, client
  <1> QED
    BY <1>2, <1>3, ShownTicksHaveRows, PTL DEF FeedInv

\* A wire is a sequence of ticks, and so is what is left of it when one is delivered.
LEMMA WireTail ==
    ASSUME TypeOK, NEW k \in Sockets, wire[k] # <<>>
    PROVE  /\ Head(wire[k]) = wire[k][1] /\ wire[k][1] \in Ticks
           /\ Tail(wire[k]) \in Seq(Ticks)
           /\ Len(wire[k]) \in Nat /\ 1 \in 1..Len(wire[k])
           /\ \A i \in 1..Len(Tail(wire[k])) : i + 1 \in 1..Len(wire[k]) /\ Tail(wire[k])[i] = wire[k][i + 1]
  <1>1. wire[k] \in Seq(Ticks)
    BY DEF TypeOK
  <1> QED
    BY <1>1

\* FeedInv survives the delivery of a tick: what is shown next precedes the rest of the
\* wire, and no other socket is live.
LEMMA TickEventInv ==
    ASSUME FeedInv, NEW k \in Sockets, TickEvent(k)
    PROVE  /\ FeedInv'
           /\ \A s \in Symbols : shown'[s] # shown[s] =>
                 /\ shown'[s] # NULL
                 /\ shown[s] # NULL => position[shown[s]] < position[shown'[s]]
  <1> USE DEF FeedInv
  <1> DEFINE t == wire[k][1]
  <1>1. /\ socket[k] = "open" /\ wire[k] # <<>>
        /\ t \in Ticks /\ t.symbol \in Symbols /\ t # NULL
        /\ shown' = [shown EXCEPT ![t.symbol] = t]
        /\ wire' = [wire EXCEPT ![k] = Tail(@)]
        /\ UNCHANGED <<socket, ws, status, retrying, timers, life, up, clients, ingestion>>
    BY WireTail, TickType, NullAssumption DEF TickEvent
  <1>2. /\ \A s \in Symbols : shown'[s] = IF s = t.symbol THEN t ELSE shown[s]
        /\ \A x \in Sockets : wire'[x] = IF x = k THEN Tail(wire[k]) ELSE wire[x]
        /\ UNCHANGED <<position, handler>>
    BY <1>1 DEF TypeOK, ingestion
  <1>3. \A x \in Sockets \ {k} : socket[x] \notin {"connecting", "open"}
    BY <1>1 DEF OneConnection, UnmountedOK, TypeOK
  <1>4. /\ position[t] > 0
        /\ \A i \in 1..Len(wire'[k]) :
              /\ i + 1 \in 1..Len(wire[k])
              /\ wire'[k][i] = wire[k][i + 1]
              /\ position[t] < position[wire'[k][i]]
    <2>1. \A i \in 1..Len(wire'[k]) : /\ i + 1 \in 1..Len(wire[k])
                                      /\ wire'[k][i] = wire[k][i + 1]
                                      /\ 1 < i + 1
      <3>1. wire'[k] = Tail(wire[k]) /\ Len(wire'[k]) \in Nat
        BY <1>1, <1>2, WireTail
      <3>2. \A i \in 1..Len(wire'[k]) : 1 < i + 1
        BY <3>1
      <3> QED
        BY <1>1, <3>1, <3>2, WireTail
    <2> QED
      BY <1>1, <2>1, WireTail DEF WiresOK
  <1>5. \A s \in Symbols : shown[s] # NULL => position[shown[s]] < position[t]
    BY <1>1, WireTail DEF ShownOK
  <1>6. TypeOK'
    BY <1>1, WireTail DEF TypeOK, ingestion
  <1>7. (RowsOK /\ PositionsOK /\ UnmountedOK /\ OneConnection)'
    BY <1>1 DEF RowsOK, PositionsOK, UnmountedOK, OneConnection, ingestion
  <1>8. WiresOK'
    <2>1. ASSUME NEW x \in Sockets
          PROVE  /\ \A i \in 1..Len(wire'[x]) : position'[wire'[x][i]] > 0
                 /\ \A i, j \in 1..Len(wire'[x]) :
                       i < j => position'[wire'[x][i]] < position'[wire'[x][j]]
      <3>1. CASE x # k
        BY <1>2, <3>1 DEF WiresOK
      <3>2. CASE x = k
        <4>1. ASSUME NEW i \in 1..Len(wire'[k]), NEW j \in 1..Len(wire'[k]), i < j
              PROVE  position[wire[k][i + 1]] < position[wire[k][j + 1]]
          <5>1. i + 1 \in 1..Len(wire[k]) /\ j + 1 \in 1..Len(wire[k]) /\ i + 1 < j + 1
            BY <1>4, <4>1
          <5> QED
            BY <5>1 DEF WiresOK
        <4>2. \A i \in 1..Len(wire'[k]) : position[wire[k][i + 1]] > 0
          BY <1>4 DEF WiresOK
        <4>3. position' = position /\ \A i \in 1..Len(wire'[k]) : wire'[k][i] = wire[k][i + 1]
          BY ONLY <1>2, <1>4
        <4>4. \A i \in 1..Len(wire'[k]) : position'[wire'[k][i]] > 0
          BY ONLY <4>2, <4>3
        <4>5. \A i, j \in 1..Len(wire'[k]) : i < j => position'[wire'[k][i]] < position'[wire'[k][j]]
          BY ONLY <4>1, <4>3
        <4> QED
          BY ONLY <3>2, <4>4, <4>5
      <3> QED
        BY <3>1, <3>2
    <2> QED
      BY <2>1 DEF WiresOK
  <1>9. ShownOK'
    <2>1. ASSUME NEW s \in Symbols, shown'[s] # NULL
          PROVE  /\ shown'[s].symbol = s
                 /\ position'[shown'[s]] > 0
                 /\ \A x \in Sockets : socket'[x] \in {"connecting", "open"} =>
                       \A i \in 1..Len(wire'[x]) : position'[shown'[s]] < position'[wire'[x][i]]
      <3>1. \A x \in Sockets : socket'[x] \in {"connecting", "open"} => x = k
        BY <1>1, <1>3
      <3>2. CASE s = t.symbol
        BY <1>1, <1>2, <1>4, <3>1, <3>2
      <3>3. CASE s # t.symbol
        <4>1. /\ shown'[s] = shown[s] /\ shown[s] # NULL
              /\ shown[s].symbol = s /\ position[shown[s]] > 0
              /\ \A i \in 1..Len(wire[k]) : position[shown[s]] < position[wire[k][i]]
          BY <1>1, <1>2, <2>1, <3>3 DEF ShownOK
        <4> QED
          BY <1>2, <1>4, <3>1, <4>1, SMTT(30)
      <3> QED
        BY <3>2, <3>3
    <2> QED
      BY <2>1 DEF ShownOK
  <1>10. FeedInv'
    BY <1>6, <1>7, <1>8, <1>9, ShownTicksHaveRows, PTL
  <1> QED
    BY <1>1, <1>2, <1>5, <1>10

\* open() on a closed socket, when no other is live, keeps the wires and what is shown in order.
LEMMA OpenKeepsOrder ==
    ASSUME FeedInv, Open, UNCHANGED <<shown, position>>
    PROVE  WiresOK' /\ ShownOK'
  <1> USE DEF FeedInv
  <1>1. PICK k \in Sockets :
           /\ \A x \in Sockets : wire'[x] = IF x = k THEN <<>> ELSE wire[x]
           /\ \A x \in Sockets : x # k => socket'[x] = socket[x]
    BY DEF Open, TypeOK
  <1>2. Len(wire'[k]) = 0
    BY <1>1
  <1>3. WiresOK'
    BY <1>1, <1>2 DEF WiresOK
  <1>4. ShownOK'
    BY <1>1, <1>2 DEF ShownOK
  <1> QED
    BY <1>3, <1>4

\* FeedInv survives the mount of the component.
LEMMA MountInv ==
    ASSUME FeedInv, Mount
    PROVE  FeedInv'
  <1> USE DEF FeedInv
  <1>1. /\ life = "new" /\ life' = "mounted" /\ timers = 0 /\ timers' = 0
        /\ \A x \in Sockets : socket[x] = "closed"
        /\ UNCHANGED <<retrying, shown, up, clients, ingestion>>
    BY DEF Mount, UnmountedOK
  <1>2. PICK k \in Sockets :
           /\ socket' = [socket EXCEPT ![k] = "connecting"]
           /\ wire' = [wire EXCEPT ![k] = <<>>]
           /\ ws' = k
           /\ status' \in {"connecting", "reconnecting"}
    BY DEF Mount, Open
  <1>3. <<>> \in Seq(Ticks)
    OBVIOUS
  <1>4. TypeOK'
    BY <1>1, <1>2, <1>3 DEF TypeOK, ingestion
  <1>5. (RowsOK /\ PositionsOK /\ UnmountedOK)'
    BY <1>1 DEF RowsOK, PositionsOK, UnmountedOK, ingestion
  <1>6. OneConnection'
    BY <1>1, <1>2, NullAssumption DEF OneConnection, TypeOK
  <1>7. WiresOK' /\ ShownOK'
    BY <1>1, OpenKeepsOrder DEF Mount, ingestion
  <1> QED
    BY <1>4, <1>5, <1>6, <1>7, ShownTicksHaveRows, PTL

\* FeedInv survives the "open" event.
LEMMA OpenEventInv ==
    ASSUME FeedInv, NEW k \in Sockets, OpenEvent(k)
    PROVE  FeedInv'
  <1> USE DEF FeedInv
  <1>1. /\ socket[k] = "connecting"
        /\ socket' = [socket EXCEPT ![k] = "open"]
        /\ retrying' = FALSE /\ status' = "open"
        /\ UNCHANGED <<ws, timers, life, shown, gateway, ingestion>>
    BY DEF OpenEvent
  <1>2. life = "mounted" /\ timers = 0 /\ ws = k /\ \A x \in Sockets \ {k} : socket[x] = "closed"
    BY <1>1 DEF OneConnection, UnmountedOK, TypeOK
  <1>3. TypeOK'
    BY <1>1 DEF TypeOK, gateway, ingestion
  <1>4. (RowsOK /\ PositionsOK /\ WiresOK /\ UnmountedOK)'
    BY <1>1, <1>2 DEF RowsOK, PositionsOK, WiresOK, UnmountedOK, gateway, ingestion
  <1>5. ShownOK'
    BY <1>1 DEF ShownOK, TypeOK, gateway, ingestion
  <1>6. OneConnection'
    BY <1>1, <1>2, NullAssumption DEF OneConnection, TypeOK
  <1> QED
    BY <1>3, <1>4, <1>5, <1>6, ShownTicksHaveRows, PTL

\* FeedInv survives a "close" event: the one live socket gives way to the one timer.
LEMMA CloseEventInv ==
    ASSUME FeedInv, NEW k \in Sockets, CloseEvent(k)
    PROVE  FeedInv'
  <1> USE DEF FeedInv
  <1>1. /\ socket[k] \in {"connecting", "open", "closing"}
        /\ socket' = [socket EXCEPT ![k] = "closed"]
        /\ clients' = clients \ {k}
        /\ UNCHANGED <<ws, life, shown, up, wire, ingestion>>
    BY DEF CloseEvent, Gone
  <1>2. CASE life # "closed" /\ status' = "disconnected" /\ retrying' = TRUE /\ timers' = timers + 1
    <2>1. /\ life = "mounted" /\ timers = 0
          /\ \A x \in Sockets \ {k} : socket[x] = "closed"
      BY <1>1, <1>2 DEF OneConnection, UnmountedOK, TypeOK
    <2>2. TypeOK'
      BY <1>1, <1>2 DEF TypeOK, ingestion
    <2>3. (RowsOK /\ PositionsOK /\ WiresOK /\ UnmountedOK)'
      BY <1>1, <2>1 DEF RowsOK, PositionsOK, WiresOK, UnmountedOK, ingestion
    <2>4. ShownOK'
      BY <1>1 DEF ShownOK, TypeOK, ingestion
    <2>5. OneConnection'
      BY <1>1, <1>2, <2>1 DEF OneConnection, TypeOK
    <2> QED
      BY <2>2, <2>3, <2>4, <2>5, ShownTicksHaveRows, PTL
  <1>3. CASE life = "closed" /\ UNCHANGED <<status, retrying, timers>>
    <2>1. TypeOK'
      BY <1>1, <1>3 DEF TypeOK, ingestion
    <2>2. (RowsOK /\ PositionsOK /\ WiresOK /\ UnmountedOK)'
      BY <1>1, <1>3 DEF RowsOK, PositionsOK, WiresOK, UnmountedOK, ingestion
    <2>3. ShownOK'
      BY <1>1 DEF ShownOK, TypeOK, ingestion
    <2>4. OneConnection'
      BY <1>1, <1>3 DEF OneConnection, TypeOK
    <2> QED
      BY <2>1, <2>2, <2>3, <2>4, ShownTicksHaveRows, PTL
  <1> QED
    BY <1>2, <1>3 DEF CloseEvent, ScheduleReconnect

\* FeedInv survives the reconnect timer, the only one there is.
LEMMA TimerFiresInv ==
    ASSUME FeedInv, TimerFires
    PROVE  FeedInv'
  <1> USE DEF FeedInv
  <1>1. /\ timers = 1 /\ timers' = 0 /\ life = "mounted" /\ life' = "mounted"
        /\ \A x \in Sockets : socket[x] = "closed"
        /\ Open
        /\ UNCHANGED <<retrying, shown, up, clients, ingestion>>
    BY DEF TimerFires, OneConnection, UnmountedOK, TypeOK
  <1>2. PICK k \in Sockets :
           /\ socket' = [socket EXCEPT ![k] = "connecting"]
           /\ wire' = [wire EXCEPT ![k] = <<>>]
           /\ ws' = k
           /\ status' \in {"connecting", "reconnecting"}
    BY <1>1 DEF Open
  <1>3. <<>> \in Seq(Ticks)
    OBVIOUS
  <1>4. TypeOK'
    BY <1>1, <1>2, <1>3 DEF TypeOK, ingestion
  <1>5. (RowsOK /\ PositionsOK /\ UnmountedOK)'
    BY <1>1 DEF RowsOK, PositionsOK, UnmountedOK, ingestion
  <1>6. OneConnection'
    BY <1>1, <1>2, NullAssumption DEF OneConnection, TypeOK
  <1>7. WiresOK' /\ ShownOK'
    BY <1>1, OpenKeepsOrder DEF ingestion
  <1> QED
    BY <1>4, <1>5, <1>6, <1>7, ShownTicksHaveRows, PTL

\* FeedInv survives the unmount: it clears the timer or closes the one live socket.
LEMMA UnmountInv ==
    ASSUME FeedInv, Unmount
    PROVE  FeedInv'
  <1> USE DEF FeedInv
  <1>1. /\ life = "mounted" /\ life' = "closed" /\ timers' = 0 /\ ws' = NULL
        /\ UNCHANGED <<status, retrying, shown, gateway, ingestion>>
    BY DEF Unmount, OneConnection, TypeOK
  <1>2. /\ socket' \in [Sockets -> {"closed", "connecting", "open", "closing"}]
        /\ \A x \in Sockets : socket'[x] \in {socket[x], "closing"}
        /\ \A x \in Sockets : socket'[x] \in {"closed", "closing"}
    <2>1. socket' = [x \in Sockets |-> IF x = ws /\ socket[x] # "closed" THEN "closing" ELSE socket[x]]
      BY DEF Unmount
    <2> QED
      BY <1>1, <2>1 DEF OneConnection, TypeOK
  <1>3. TypeOK'
    BY <1>1, <1>2 DEF TypeOK, gateway, ingestion
  <1>4. (RowsOK /\ PositionsOK /\ WiresOK /\ UnmountedOK)'
    BY <1>1 DEF RowsOK, PositionsOK, WiresOK, UnmountedOK, gateway, ingestion
  <1>5. ShownOK'
    BY <1>1, <1>2 DEF ShownOK, gateway, ingestion
  <1>6. OneConnection'
    BY <1>1, <1>2 DEF OneConnection
  <1> QED
    BY <1>3, <1>4, <1>5, <1>6, ShownTicksHaveRows, PTL

-------------------------------------------------------------------------------
(* The theorems.                                                               *)

\* Every step, and every stutter, preserves FeedInv.
LEMMA StepInv == FeedInv /\ [Next]_vars => FeedInv'
  <1> SUFFICES ASSUME FeedInv, [Next]_vars PROVE FeedInv'
    OBVIOUS
  <1>1. CASE Ingest
    BY <1>1, TickArrivesInv, InsertTickInv, PublishTickInv DEF Ingest
  <1>2. CASE GatewayDown \/ GatewayUp \/ \E k \in Sockets : Accept(k)
    BY <1>2, GatewayInv
  <1>3. CASE \E k \in Sockets : SocketEvent(k)
    BY <1>3, OpenEventInv, TickEventInv, CloseEventInv DEF SocketEvent
  <1>4. CASE Mount \/ TimerFires \/ Unmount
    BY <1>4, MountInv, TimerFiresInv, UnmountInv
  <1>5. CASE UNCHANGED vars
    BY <1>5 DEF vars, ingestion, gateway, client, FeedInv, TypeOK, RowsOK, PositionsOK, WiresOK,
                ShownOK, UnmountedOK, OneConnection, ShownIsStored, StoredAs
  <1> QED
    BY <1>1, <1>2, <1>3, <1>4, <1>5 DEF Next

\* The conjunction that the facts about the feed and its client follow from is inductive.
THEOREM FeedInvariance == Spec => []FeedInv
  BY InitInv, StepInv, PTL DEF Spec

\* No tick reaches the screen before its row is in market_ticks (handleTick: insert, then
\* publish).
THEOREM ShownTicksAreStored == Spec => []ShownIsStored
  <1>1. FeedInv => ShownIsStored
    BY DEF FeedInv
  <1> QED
    BY <1>1, FeedInvariance, PTL

\* A mounted client has exactly one timer or one socket, an unmounted one has no timer
\* (MarketStreamConnection).
THEOREM ConnectionIsUnique == Spec => []OneConnection
  <1>1. FeedInv => OneConnection
    BY DEF FeedInv
  <1> QED
    BY <1>1, FeedInvariance, PTL

\* The ticks of a symbol appear in the order of their publication, across reconnects: only
\* the delivery of a tick changes what is shown.
THEOREM TicksAdvance == Spec => PublicationOrder
  <1> DEFINE Advance == \A s \in Symbols :
                           shown'[s] # shown[s] =>
                               /\ shown'[s] # NULL
                               /\ shown[s] # NULL => position[shown[s]] < position[shown'[s]]
  <1>1. ASSUME FeedInv, Next PROVE Advance
    <2>1. CASE \E k \in Sockets : TickEvent(k)
      BY <1>1, <2>1, TickEventInv
    <2>2. CASE UNCHANGED shown
      BY <2>2
    <2> QED
      BY <1>1, <2>1, <2>2 DEF Next, Ingest, TickArrives, InsertTick, PublishTick, GatewayDown,
            GatewayUp, Accept, SocketEvent, OpenEvent, CloseEvent, Mount, TimerFires, Unmount, client
  <1>2. FeedInv /\ [Next]_vars => [Advance]_vars
    BY <1>1
  <1>3. [][Advance]_vars <=> PublicationOrder
    BY PTL DEF PublicationOrder
  <1> QED
    BY <1>2, <1>3, FeedInvariance, PTL DEF Spec

\* After close() nothing happens to the status, the ticks or the sockets of the component but
\* the end of the socket it closed.
THEOREM ClosedIsSilent == Spec => SilentAfterClose
  <1> DEFINE Silent == life = "closed" =>
                           /\ UNCHANGED <<status, shown, life>>
                           /\ \A k \in Sockets : socket[k] = "closed" => socket'[k] = "closed"
  <1>1. ASSUME FeedInv, Next, life = "closed"
        PROVE  /\ UNCHANGED <<status, shown, life>>
               /\ \A k \in Sockets : socket[k] = "closed" => socket'[k] = "closed"
    <2>1. timers = 0 /\ \A k \in Sockets : socket[k] \in {"closed", "closing"}
      BY <1>1 DEF FeedInv, OneConnection
    <2>2. CASE UNCHANGED client
      BY <2>2 DEF client
    <2>3. CASE \E k \in Sockets : CloseEvent(k)
      BY <1>1, <2>3 DEF CloseEvent, FeedInv, TypeOK
    <2> QED
      BY <1>1, <2>1, <2>2, <2>3 DEF Next, Ingest, TickArrives, InsertTick, PublishTick, GatewayDown,
            GatewayUp, Accept, SocketEvent, OpenEvent, TickEvent, Mount, TimerFires, Unmount
  <1>2. FeedInv /\ [Next]_vars => [Silent]_vars
    BY <1>1
  <1>3. [][Silent]_vars <=> SilentAfterClose
    BY PTL DEF SilentAfterClose
  <1> QED
    BY <1>2, <1>3, FeedInvariance, PTL DEF Spec

-------------------------------------------------------------------------------
(* Sums and averages.                                                          *)

\* A total is reached step by step.
LEMMA PartialSums ==
    ASSUME NEW v \in Seq(Int)
    PROVE  \E p \in [0..Len(v) -> Int] :
              /\ p[0] = 0 /\ p[Len(v)] = Total(v)
              /\ \A n \in 1..Len(v) : p[n] = p[n-1] + v[n]
  <1> DEFINE m == Len(v)
             next == [x \in Int \X (1..m) |-> x[1] + v[x[2]]]
             Solves(g) == g = [s \in SUBSET DOMAIN v |->
                                  IF s = {} THEN 0 ELSE g[s \ {Max(s)}] + v[Max(s)]]
  <1>1. m \in Nat /\ DOMAIN v = 1..m /\ next \in [Int \X (1..m) -> Int]
    OBVIOUS
  <1>2. \E g : Solves(g)
    <2>1. PICK g \in [SUBSET (1..m) -> Int] : IsFold(g, m, 0, next)
      <3> DEFINE zero == 0
      <3>1. zero \in Int
        OBVIOUS
      <3> HIDE DEF next, m, zero
      <3>2. \E g \in [SUBSET (1..m) -> Int] : IsFold(g, m, zero, next)
        BY <1>1, <3>1, FoldExists
      <3> QED BY <3>2 DEF zero
    <2>2. ASSUME NEW s \in SUBSET (1..m), s # {}
          PROVE  g[s] = g[s \ {Max(s)}] + v[Max(s)]
      <3>1. Max(s) \in 1..m /\ s \ {Max(s)} \in SUBSET (1..m)
        BY <1>1, <2>2, MaxOfPlaces
      <3> QED BY <2>1, <2>2, <3>1 DEF IsFold
    <2> HIDE DEF next, m
    <2>3. Solves(g)
      BY <1>1, <2>1, <2>2 DEF IsFold
    <2> QED BY <2>3
  <1>3. PICK g : Solves(g) /\ Total(v) = g[1..m]
    <2>1. Total(v) = (CHOOSE g : Solves(g))[DOMAIN v]
      BY DEF Total, FoldLeft, MapThenFoldSet
    <2> HIDE DEF Solves, m
    <2> QED BY <1>1, <1>2, <2>1
  <1> DEFINE p == [n \in 0..m |-> g[1..n]]
  <1> HIDE DEF m, next
  <1>4. p[0] = 0
    <2>1. {} \in SUBSET DOMAIN v /\ 1..0 = {}
      OBVIOUS
    <2> QED BY <1>1, <1>3, <2>1
  <1>5. ASSUME NEW n \in 1..m
        PROVE  p[n] = p[n-1] + v[n]
    <2>1. n \in Nat /\ n \in 1..n /\ n \in 0..m /\ n - 1 \in 0..m
      BY <1>1
    <2>4. 1..n \in SUBSET DOMAIN v
      BY <1>1
    <2>2. Max(1..n) = n /\ (1..n) \ {n} = 1..(n-1)
      BY <2>1, MaxOfAll
    <2>3. g[1..n] = g[(1..n) \ {n}] + v[n]
      BY <1>3, <2>1, <2>2, <2>4
    <2> QED BY <2>1, <2>2, <2>3
  <1>6. p \in [0..m -> Int]
    <2> DEFINE S == {n \in 0..m : p[n] \in Int}
    <2> HIDE DEF p
    <2>1. 0 \in S
      BY <1>1, <1>4
    <2>2. ASSUME NEW n \in 0..(m-1), n \in S
          PROVE  n + 1 \in S
      <3>1. p[n+1] = p[n] + v[n+1] /\ v[n+1] \in Int
        BY <1>1, <1>5
      <3> QED BY <1>1, <2>2, <3>1
    <2>3. \A n \in 0..m : n \in S
      <3> HIDE DEF S
      <3> QED BY <1>1, <2>1, <2>2, InductionTo
    <2> QED BY <2>3 DEF p
  <1>7. p[m] = Total(v)
    BY <1>1, <1>3
  <1> HIDE DEF p
  <1> QED BY <1>1, <1>4, <1>5, <1>6, <1>7 DEF m

\* What holds term by term holds of totals.  (It gives every bound on a sum or an average.)
LEMMA TotalMonotone ==
    ASSUME NEW u \in Seq(Int), NEW w \in Seq(Int), NEW a \in Int, NEW k \in Int, Len(u) = Len(w),
           \A i \in 1..Len(u) : a * u[i] <= k * w[i]
    PROVE  a * Total(u) <= k * Total(w)
  <1> DEFINE m == Len(u)
  <1>1. PICK p \in [0..m -> Int] :
           p[0] = 0 /\ p[m] = Total(u) /\ \A n \in 1..m : p[n] = p[n-1] + u[n]
    BY PartialSums
  <1>2. PICK q \in [0..m -> Int] :
           q[0] = 0 /\ q[m] = Total(w) /\ \A n \in 1..m : q[n] = q[n-1] + w[n]
    BY PartialSums, ZenonT(60)
  <1> DEFINE S == {n \in 0..m : a * p[n] <= k * q[n]}
  <1>3. m \in Nat
    OBVIOUS
  <1> HIDE DEF m
  <1>4. 0 \in S
    <2>1. 0 \in 0..m /\ a * 0 = 0 /\ k * 0 = 0
      BY <1>3
    <2> QED BY <1>1, <1>2, <2>1
  <1>5. ASSUME NEW n \in 0..(m-1), n \in S
        PROVE  n + 1 \in S
    <2>1. n + 1 \in 1..m /\ n + 1 \in 0..m /\ (n + 1) - 1 = n
      BY <1>3
    <2>2. p[n+1] = p[n] + u[n+1] /\ q[n+1] = q[n] + w[n+1]
      BY <1>1, <1>2, <2>1
    <2>3. u[n+1] \in Int /\ w[n+1] \in Int /\ a * u[n+1] <= k * w[n+1]
      BY <2>1 DEF m
    <2>4. p[n] \in Int /\ q[n] \in Int /\ a * p[n] <= k * q[n]
      BY <1>5
    <2>5. \A c, x, y \in Int : c * (x + y) = c * x + c * y /\ c * x \in Int /\ c * y \in Int
      OBVIOUS
    <2>6. a * (p[n] + u[n+1]) = a * p[n] + a * u[n+1] /\ a * p[n] \in Int /\ a * u[n+1] \in Int
      BY <2>3, <2>4, <2>5
    <2>7. k * (q[n] + w[n+1]) = k * q[n] + k * w[n+1] /\ k * q[n] \in Int /\ k * w[n+1] \in Int
      BY <2>3, <2>4, <2>5, ZenonT(60)
    <2>8. a * p[n] + a * u[n+1] <= k * q[n] + k * w[n+1]
      <3>1. \A b, c, d, e \in Int : b <= d /\ c <= e => b + c <= d + e
        OBVIOUS
      <3> QED BY <2>3, <2>4, <2>6, <2>7, <3>1
    <2> QED BY <2>1, <2>2, <2>6, <2>7, <2>8
  <1>6. \A n \in 0..m : n \in S
    <2> HIDE DEF S
    <2> QED BY <1>3, <1>4, <1>5, InductionTo
  <1>7. m \in 0..m
    BY <1>3
  <1> QED BY <1>1, <1>2, <1>6, <1>7

\* A total of figures that are not negative is positive as soon as one of them is.
LEMMA TotalPositive ==
    ASSUME NEW v \in Seq(Int), \A i \in 1..Len(v) : v[i] >= 0,
           NEW j \in 1..Len(v), v[j] > 0
    PROVE  Total(v) > 0
  <1> DEFINE m == Len(v)
  <1>1. PICK p \in [0..m -> Int] :
           p[0] = 0 /\ p[m] = Total(v) /\ \A n \in 1..m : p[n] = p[n-1] + v[n]
    BY PartialSums
  <1> DEFINE S == {n \in 0..m : p[n] >= 0 /\ (n >= j => p[n] > 0)}
  <1>2. m \in Nat /\ \A n \in 1..m : v[n] \in Int
    OBVIOUS
  <1>3. 0 \in S
    BY <1>1, <1>2
  <1>4. ASSUME NEW n \in 0..(m-1), n \in S
        PROVE  n + 1 \in S
    <2>0. m \in Nat
      BY <1>2
    <2>1. n + 1 \in 1..m /\ n + 1 \in 0..m /\ (n + 1) - 1 = n /\ n \in 0..m
      BY <2>0
    <2>2. p[n+1] = p[n] + v[n+1] /\ v[n+1] \in Int /\ v[n+1] >= 0
      BY <1>1, <1>2, <2>1
    <2>3. p[n] \in Int /\ p[n] >= 0 /\ (n >= j => p[n] > 0)
      BY <1>4, <2>1
    <2>4. n + 1 >= j => p[n+1] > 0
      <3>1. CASE n >= j
        BY <2>2, <2>3, <3>1
      <3>2. CASE n + 1 = j
        BY <2>2, <2>3, <3>2
      <3>3. n \in Int /\ j \in Int
        OBVIOUS
      <3> QED BY <3>1, <3>2, <3>3
    <2> QED BY <2>1, <2>2, <2>3, <2>4
  <1>5. \A n \in 0..m : n \in S
    <2> HIDE DEF S
    <2>1. m \in Nat
      BY <1>2
    <2> HIDE DEF m
    <2> QED BY <2>1, <1>3, <1>4, InductionTo
  <1>6. m \in 0..m /\ m >= j
    BY <1>2
  <1> QED BY <1>1, <1>5, <1>6

\* A total of integers is one.
LEMMA TotalType ==
    ASSUME NEW v \in Seq(Int)
    PROVE  Total(v) \in Int
  BY PartialSums

\* The total of one figure more.
LEMMA TotalAppend ==
    ASSUME NEW v \in Seq(Int), NEW x \in Int
    PROVE  Total(Append(v, x)) = Total(v) + x
  <1> DEFINE m == Len(v)
             u == Append(v, x)
  <1>1. /\ m \in Nat /\ u \in Seq(Int) /\ Len(u) = m + 1
        /\ u[m+1] = x /\ \A n \in 1..m : u[n] = v[n]
    OBVIOUS
  <1> HIDE DEF u
  <1>2. PICK p \in [0..m -> Int] :
           p[0] = 0 /\ p[m] = Total(v) /\ \A n \in 1..m : p[n] = p[n-1] + v[n]
    BY PartialSums
  <1>3. PICK q \in [0..(m+1) -> Int] :
           q[0] = 0 /\ q[m+1] = Total(u) /\ \A n \in 1..(m+1) : q[n] = q[n-1] + u[n]
    <2>1. \E q \in [0..Len(u) -> Int] :
             /\ q[0] = 0 /\ q[Len(u)] = Total(u)
             /\ \A n \in 1..Len(u) : q[n] = q[n-1] + u[n]
      BY <1>1, PartialSums
    <2>2. Len(u) = m + 1
      BY <1>1
    <2> HIDE DEF m
    <2> QED BY <2>1, <2>2
  <1> DEFINE S == {n \in 0..m : p[n] = q[n]}
  <1> HIDE DEF m
  <1>4. 0 \in S
    BY <1>1, <1>2, <1>3
  <1>5. ASSUME NEW n \in 0..(m-1), n \in S
        PROVE  n + 1 \in S
    <2>1. n + 1 \in 1..m /\ n + 1 \in 0..m /\ n + 1 \in 1..(m+1) /\ (n + 1) - 1 = n
      BY <1>1
    <2>2. p[n+1] = p[n] + v[n+1] /\ q[n+1] = q[n] + v[n+1]
      BY <1>1, <1>2, <1>3, <2>1
    <2> QED BY <1>5, <2>1, <2>2
  <1>6. \A n \in 0..m : n \in S
    <2>1. m \in Nat
      BY <1>1
    <2> HIDE DEF S
    <2> QED BY <2>1, <1>4, <1>5, InductionTo
  <1>7. q[m+1] = q[m] + x
    <2>1. m + 1 \in 1..(m+1) /\ (m + 1) - 1 = m
      BY <1>1
    <2> QED BY <1>1, <1>3, <2>1
  <1>8. m \in 0..m
    BY <1>1
  <1> QED BY <1>2, <1>3, <1>6, <1>7, <1>8 DEF u

\* A total does not depend on the direction it is taken in.
LEMMA TotalReverse ==
    ASSUME NEW v \in Seq(Int)
    PROVE  Total(Reverse(v)) = Total(v)
  <1> DEFINE m == Len(v)
             u == Reverse(v)
  <1>1. m \in Nat /\ u \in Seq(Int) /\ Len(u) = m /\ \A n \in 1..m : u[n] = v[m - n + 1]
    BY DEF Reverse
  <1> HIDE DEF u
  <1>2. PICK p \in [0..m -> Int] :
           p[0] = 0 /\ p[m] = Total(v) /\ \A n \in 1..m : p[n] = p[n-1] + v[n]
    BY PartialSums
  <1>3. PICK q \in [0..m -> Int] :
           q[0] = 0 /\ q[m] = Total(u) /\ \A n \in 1..m : q[n] = q[n-1] + u[n]
    BY <1>1, PartialSums, SMTT(30)
  <1> DEFINE S == {n \in 0..m : q[n] = p[m] - p[m - n]}
  <1>4. \A n \in 1..m : v[n] \in Int
    OBVIOUS
  <1> HIDE DEF m
  <1>5. 0 \in S
    <2>1. m - 0 = m /\ m \in 0..m /\ 0 \in 0..m
      BY <1>1
    <2>2. p[m] \in Int
      BY <2>1
    <2> QED BY <1>3, <2>1, <2>2
  <1>6. ASSUME NEW n \in 0..(m-1), n \in S
        PROVE  n + 1 \in S
    <2>0. m \in Nat /\ n \in 0..(m-1)
      BY <1>1
    <2>1. n + 1 \in 1..m /\ n + 1 \in 0..m /\ (n + 1) - 1 = n /\ m \in 0..m
      BY <2>0
    <2>2. m - n \in 1..m /\ (m - n) - 1 = m - (n + 1) /\ m - (n + 1) \in 0..m
          /\ m - (n + 1) + 1 = m - n /\ m - n \in 0..m
      BY <2>0
    <2>3. q[n+1] = q[n] + v[m - n]
      <3>1. q[n+1] = q[(n+1) - 1] + u[n+1]
        BY <1>3, <2>1
      <3>2. u[n+1] = v[m - (n+1) + 1]
        BY <1>1, <2>1
      <3> QED BY <2>1, <2>2, <3>1, <3>2
    <2>4. p[m - n] = p[m - (n + 1)] + v[m - n]
      BY <1>2, <2>2
    <2>5. p[m] \in Int /\ p[m - n] \in Int /\ p[m - (n + 1)] \in Int /\ v[m - n] \in Int
      BY <1>4, <2>1, <2>2
    <2>6. q[n] = p[m] - p[m - n]
      BY <1>6
    <2>7. q[n+1] = p[m] - p[m - (n + 1)]
      <3> DEFINE a == p[m - n]
                 b == p[m - (n + 1)]
                 c == p[m]
                 d == v[m - n]
      <3>1. a \in Int /\ b \in Int /\ c \in Int /\ d \in Int /\ a = b + d
        BY <2>4, <2>5
      <3>2. q[n+1] = (c - a) + d
        BY <2>3, <2>6
      <3> HIDE DEF a, b, c, d
      <3>3. (c - a) + d = c - b
        BY ONLY <3>1
      <3>4. q[n+1] = c - b
        BY <3>2, <3>3
      <3> QED BY <3>4 DEF b, c
    <2> QED BY <2>1, <2>7
  <1>7. \A n \in 0..m : n \in S
    <2>1. m \in Nat
      BY <1>1
    <2> HIDE DEF S
    <2> QED BY <2>1, <1>5, <1>6, InductionTo
  <1>8. q[m] = p[m] - p[0] /\ p[m] \in Int
    <2>1. m \in 0..m /\ m - m = 0
      BY <1>1
    <2> QED BY <1>7, <2>1
  <1> QED BY <1>2, <1>3, <1>8 DEF u

\* Rounding moves a quotient by a half at most.
LEMMA Rounding ==
    ASSUME NEW c \in Int, NEW n \in Int, n > 0
    PROVE  /\ Round(c, n) \in Int
           /\ 2 * (n * Round(c, n)) <= 2 * c + n
           /\ 2 * c < 2 * (n * Round(c, n)) + n
  <1> DEFINE r == (2 * c + n) \div (2 * n)
  <1>1. 2 * n > 0 /\ 2 * n \in Int /\ 2 * c + n \in Int
    OBVIOUS
  <1>2. r \in Int /\ (2 * n) * r <= 2 * c + n /\ 2 * c + n < (2 * n) * r + 2 * n
    BY <1>1, Quotient
  <1> HIDE DEF r
  <1>3. (2 * n) * r = 2 * (n * r) /\ n * r \in Int
    BY <1>2
  <1>4. Round(c, n) = r
    BY DEF Round, r
  <1> QED BY <1>2, <1>3, <1>4

\* And to no other number.
LEMMA RoundedTo ==
    ASSUME NEW c \in Int, NEW n \in Int, n > 0, NEW r \in Int,
           2 * (n * r) <= 2 * c + n, 2 * c < 2 * (n * r) + n
    PROVE  Round(c, n) = r
  <1>1. 2 * n > 0 /\ 2 * n \in Int /\ 2 * c + n \in Int
    OBVIOUS
  <1>2. (2 * n) * r = 2 * (n * r) /\ n * r \in Int
    OBVIOUS
  <1>3. (2 * n) * r <= 2 * c + n /\ 2 * c + n < (2 * n) * r + 2 * n
    BY <1>2
  <1> QED BY <1>1, <1>3, QuotientIs DEF Round

\* An average of figures from 0 to k is from 0 to k.
LEMMA RoundBetween ==
    ASSUME NEW c \in Int, NEW n \in Int, n > 0, NEW k \in Int, 0 <= c, c <= k * n
    PROVE  Round(c, n) \in 0..k
  <1> DEFINE r == Round(c, n)
  <1>1. r \in Int /\ 2 * (n * r) <= 2 * c + n /\ 2 * c < 2 * (n * r) + n
    BY Rounding
  <1> HIDE DEF r
  <1>2. r >= 0
    <2>1. CASE r < 0
      <3>1. n * r <= -n
        BY <1>1, <2>1
      <3> QED BY <1>1, <3>1
    <2> QED BY <1>1, <2>1
  <1>3. r <= k
    <2>1. CASE r > k
      <3>1. n * r >= n * (k + 1)
        BY <1>1, <2>1
      <3>2. n * (k + 1) = k * n + n
        OBVIOUS
      <3> QED BY <1>1, <3>1, <3>2
    <2> QED BY <1>1, <2>1
  <1> QED BY <1>1, <1>2, <1>3 DEF r

\* The average is not larger when there is one share more of the same sum.
LEMMA RoundShrinks ==
    ASSUME NEW c \in Nat, NEW n \in Int, n > 0
    PROVE  Round(c, n + 1) <= Round(c, n) /\ Round(c, n) \in Int
  <1> DEFINE r == Round(c, n)
             s == Round(c, n + 1)
  <1>1. r \in Int /\ 2 * (n * r) <= 2 * c + n /\ 2 * c < 2 * (n * r) + n
    BY Rounding
  <1>2. s \in Int /\ 2 * ((n + 1) * s) <= 2 * c + (n + 1) /\ 2 * c < 2 * ((n + 1) * s) + (n + 1)
    BY Rounding
  <1> HIDE DEF r, s
  <1>3. r >= 0
    <2>1. CASE r < 0
      <3>1. n * r <= -n
        BY <1>1, <2>1
      <3> QED BY <1>1, <3>1
    <2> QED BY <1>1, <2>1
  <1>4. s <= r
    <2>1. CASE s > r
      <3>1. (n + 1) * s >= (n + 1) * (r + 1)
        BY <1>1, <1>2, <2>1
      <3>2. (n + 1) * (r + 1) = n * r + n + r + 1
        BY <1>1
      <3> QED BY <1>1, <1>2, <1>3, <3>1, <3>2
    <2> QED BY <1>1, <1>2, <2>1
  <1> QED BY <1>1, <1>4 DEF r, s

\* Adding the rounded average to the figures does not change it.
LEMMA RoundEchoes ==
    ASSUME NEW c \in Nat, NEW n \in Int, n > 0
    PROVE  Round(c + Round(c, n), n + 1) = Round(c, n)
  <1> DEFINE r == Round(c, n)
  <1>1. r \in Int /\ 2 * (n * r) <= 2 * c + n /\ 2 * c < 2 * (n * r) + n
    BY Rounding
  <1> HIDE DEF r
  <1>2. (n + 1) * r = n * r + r /\ n * r \in Int
    BY <1>1
  <1>3. 2 * ((n + 1) * r) <= 2 * (c + r) + (n + 1) /\ 2 * (c + r) < 2 * ((n + 1) * r) + (n + 1)
    BY <1>1, <1>2
  <1>4. Round(c + r, n + 1) = r
    BY <1>1, <1>3, RoundedTo
  <1> QED BY <1>4 DEF r

\* Every quotient is some verdict.
LEMMA VerdictType ==
    ASSUME NEW s \in Int, NEW c \in Int
    PROVE  scoreToVerdict(s, c) \in Verdicts
  BY DEF scoreToVerdict, Verdicts, VERDICT_SCORES

\* A score between two whole scores gets a verdict between theirs.
LEMMA VerdictBetween ==
    ASSUME NEW s \in Int, NEW c \in Int, c > 0, NEW j \in -2..2, NEW k \in -2..2,
           j * c <= s, s <= k * c
    PROVE  verdictScore(scoreToVerdict(s, c)) \in j..k
  BY DEF scoreToVerdict, verdictScore, VERDICT_SCORES

\* A further vote for the verdict that a score gets, of any confidence, leaves the verdict.
LEMMA VerdictEchoes ==
    ASSUME NEW s \in Int, NEW c \in Int, c > 0, NEW r \in Nat
    PROVE  scoreToVerdict(s + r * verdictScore(scoreToVerdict(s, c)), c + r) = scoreToVerdict(s, c)
  BY DEF scoreToVerdict, verdictScore, VERDICT_SCORES

\* A verdict is on the side its score is on.
LEMMA VerdictSide ==
    ASSUME NEW s \in Int, NEW c \in Int, c > 0
    PROVE  /\ verdictScore(scoreToVerdict(s, c)) > 0 => s > 0
           /\ verdictScore(scoreToVerdict(s, c)) < 0 => s < 0
           /\ verdictScore(scoreToVerdict(s, c)) \in -2..2
  BY DEF scoreToVerdict, verdictScore, VERDICT_SCORES

-------------------------------------------------------------------------------
(* Council: the consensus.                                                     *)

IsCouncil(ops) == ops \in Seq(expertOpinion)

\* What the opinions of a council add to the sums of its consensus.
Weights(ops)     == [i \in DOMAIN ops |-> weightOf(ops[i].expert)]
Confidences(ops) == [i \in DOMAIN ops |-> Weigh(ops[i])]
Scores(ops)      == [i \in DOMAIN ops |-> Contribute(ops[i])]

\* The experts with a weight are those decision D8 gives a vote.
LEMMA WeightIs ==
    ASSUME NEW o \in expertOpinion
    PROVE  /\ weightOf(o.expert) \in {0, 1}
           /\ HasVote(o) => weightOf(o.expert) = 1
           /\ ~ HasVote(o) => weightOf(o.expert) = 0
           /\ Votes(o) <=> HasVote(o)
  BY DEF weightOf, DOMAIN_WEIGHTS, HasVote, Votes, expertOpinion

\* What an opinion adds to the sums: its confidence and its score if it has a vote, else nothing.
LEMMA ScoreIs ==
    ASSUME NEW o \in expertOpinion
    PROVE  /\ o.confidence \in 0..100
           /\ verdictScore(o.verdict) \in -2..2
           /\ HasVote(o) => /\ Weigh(o) = o.confidence
                            /\ Contribute(o) = o.confidence * verdictScore(o.verdict)
           /\ ~ HasVote(o) \/ o.confidence = 0 => Weigh(o) = 0 /\ Contribute(o) = 0
           /\ ScoreOf(o) \in Int /\ Weigh(o) \in 0..100 /\ Contribute(o) \in Int
  <1>1. o.confidence \in 0..100 /\ verdictScore(o.verdict) \in -2..2
    BY DEF expertOpinion, Verdicts, verdictScore, VERDICT_SCORES
  <1>2. \A x, y \in Int : x * y \in Int /\ 1 * x = x /\ 0 * x = 0
    OBVIOUS
  <1>3. ScoreOf(o) \in Int /\ (o.confidence = 0 => ScoreOf(o) = 0)
    BY <1>1, <1>2 DEF ScoreOf
  <1>4. CASE HasVote(o)
    <2>1. weightOf(o.expert) = 1
      BY <1>4, WeightIs
    <2> QED BY <1>1, <1>2, <1>3, <1>4, <2>1 DEF Weigh, Contribute, ScoreOf
  <1>5. CASE ~ HasVote(o)
    <2>1. weightOf(o.expert) = 0
      BY <1>5, WeightIs
    <2> QED BY <1>1, <1>2, <1>3, <1>5, <2>1 DEF Weigh, Contribute
  <1> QED BY <1>4, <1>5

\* A silent expert adds as little as one without a vote.
LEMMA SilentScore ==
    ASSUME NEW o \in expertOpinion, ~ (HasVote(o) /\ o.confidence > 0)
    PROVE  Weigh(o) = 0 /\ Contribute(o) = 0
  <1>1. o.confidence \in 0..100
    BY ScoreIs
  <1>2. CASE HasVote(o)
    <2>1. o.confidence = 0
      BY <1>1, <1>2
    <2> QED BY <2>1, ScoreIs
  <1>3. CASE ~ HasVote(o)
    BY <1>3, ScoreIs
  <1> QED BY <1>2, <1>3

\* The places and the opinions of a council.
LEMMA CouncilIs ==
    ASSUME NEW ops, IsCouncil(ops)
    PROVE  /\ Len(ops) \in Nat /\ DOMAIN ops = 1..Len(ops)
           /\ \A i \in DOMAIN ops : ops[i] \in expertOpinion
  BY DEF IsCouncil

\* What the opinions add to the three sums.
LEMMA SumsAreSequences ==
    ASSUME NEW ops, IsCouncil(ops)
    PROVE  /\ Weights(ops) \in Seq(Int) /\ Len(Weights(ops)) = Len(ops)
           /\ Confidences(ops) \in Seq(Int) /\ Len(Confidences(ops)) = Len(ops)
           /\ Scores(ops) \in Seq(Int) /\ Len(Scores(ops)) = Len(ops)
  <1>1. DOMAIN ops = 1..Len(ops) /\ Len(ops) \in Nat
    BY CouncilIs
  <1>2. ASSUME NEW i \in DOMAIN ops
        PROVE  weightOf(ops[i].expert) \in Int /\ Weigh(ops[i]) \in Int /\ Contribute(ops[i]) \in Int
    <2>1. ops[i] \in expertOpinion
      BY CouncilIs
    <2>2. weightOf(ops[i].expert) \in {0, 1}
      BY <2>1, WeightIs
    <2>3. Weigh(ops[i]) \in 0..100 /\ Contribute(ops[i]) \in Int
      BY <2>1, ScoreIs
    <2> QED BY <2>2, <2>3
  <1>3. Weights(ops) \in [DOMAIN ops -> Int]
    BY <1>2 DEF Weights
  <1>4. Confidences(ops) \in [DOMAIN ops -> Int]
    BY <1>2 DEF Confidences
  <1>5. Scores(ops) \in [DOMAIN ops -> Int]
    BY <1>2 DEF Scores
  <1>6. \A v \in [DOMAIN ops -> Int] : v \in Seq(Int) /\ Len(v) = Len(ops)
    BY <1>1
  <1> QED BY <1>3, <1>4, <1>5, <1>6

\* The sums.
WeightSum(ops)     == Total(Weights(ops))
ConfidenceSum(ops) == Total(Confidences(ops))
ScoreSum(ops)      == Total(Scores(ops))

\* The consensus by its three sums.
LEMMA ConsensusIs ==
    ASSUME NEW ops
    PROVE  /\ computeConsensus(ops).verdict =
                  IF ConfidenceSum(ops) = 0 THEN "neutral"
                  ELSE scoreToVerdict(ScoreSum(ops), ConfidenceSum(ops))
           /\ computeConsensus(ops).confidence =
                  IF ConfidenceSum(ops) = 0 THEN 0 ELSE Round(ConfidenceSum(ops), WeightSum(ops))
  BY DEF computeConsensus, SumOver, WeightSum, ConfidenceSum, ScoreSum, Weights, Confidences, Scores

\* The sums of a council: a confidence is at most 100 for each vote, and the score is between
\* the bounds that the scores of those with a vote who are not silent have.
LEMMA SumsAreBounded ==
    ASSUME NEW ops, IsCouncil(ops)
    PROVE  /\ WeightSum(ops) \in Nat /\ ConfidenceSum(ops) \in Nat /\ ScoreSum(ops) \in Int
           /\ ConfidenceSum(ops) <= 100 * WeightSum(ops)
           /\ \A k \in -2..2 :
                 (\A i \in DOMAIN ops : HasVote(ops[i]) /\ ops[i].confidence > 0
                                              => verdictScore(ops[i].verdict) <= k)
                    => ScoreSum(ops) <= k * ConfidenceSum(ops)
           /\ \A k \in -2..2 :
                 (\A i \in DOMAIN ops : HasVote(ops[i]) /\ ops[i].confidence > 0
                                              => k <= verdictScore(ops[i].verdict))
                    => k * ConfidenceSum(ops) <= ScoreSum(ops)
  <1> DEFINE c == Confidences(ops)
             w == Weights(ops)
             s == Scores(ops)
  <1>1. /\ w \in Seq(Int) /\ Len(w) = Len(ops)
        /\ c \in Seq(Int) /\ Len(c) = Len(ops)
        /\ s \in Seq(Int) /\ Len(s) = Len(ops)
    BY SumsAreSequences
  <1>2. ASSUME NEW i \in DOMAIN ops
        PROVE  /\ ops[i] \in expertOpinion
               /\ w[i] = weightOf(ops[i].expert) /\ c[i] = Weigh(ops[i]) /\ s[i] = Contribute(ops[i])
    BY CouncilIs DEF Weights, Confidences, Scores
  <1>3. ASSUME NEW i \in DOMAIN ops
        PROVE  0 <= w[i] /\ 0 <= c[i] /\ c[i] <= 100 * w[i]
    <2>1. w[i] \in {0, 1} /\ c[i] \in 0..100
      BY <1>2, WeightIs, ScoreIs
    <2>2. CASE HasVote(ops[i])
      <3>1. w[i] = 1
        BY <1>2, <2>2, WeightIs
      <3> QED BY <2>1, <3>1
    <2>3. CASE ~ HasVote(ops[i])
      <3>1. c[i] = 0
        BY <1>2, <2>3, ScoreIs
      <3> QED BY <2>1, <3>1
    <2> QED BY <2>2, <2>3
  <1>4. WeightSum(ops) \in Int /\ ConfidenceSum(ops) \in Int /\ ScoreSum(ops) \in Int
    BY <1>1, TotalType DEF WeightSum, ConfidenceSum, ScoreSum
  <1> HIDE DEF c, w, s
  <1>9. WeightSum(ops) = Total(w) /\ ConfidenceSum(ops) = Total(c) /\ ScoreSum(ops) = Total(s)
    BY DEF c, w, s, WeightSum, ConfidenceSum, ScoreSum
  <1>5. 0 <= WeightSum(ops) /\ 0 <= ConfidenceSum(ops)
    <2> DEFINE zero == 0
               one == 1
    <2>1. zero \in Int /\ one \in Int
      OBVIOUS
    <2>2. \A x \in Int : zero * x = 0 /\ one * x = x
      OBVIOUS
    <2>0. DOMAIN ops = 1..Len(w) /\ DOMAIN ops = 1..Len(c)
      BY <1>1, CouncilIs
    <2>3. \A i \in 1..Len(w) : w[i] \in Int /\ c[i] \in Int
      BY <1>1
    <2>4. \A i \in 1..Len(w) : zero * w[i] <= one * w[i]
      BY <1>1, <1>3, <2>0, <2>2, <2>3
    <2>5. \A i \in 1..Len(c) : zero * c[i] <= one * c[i]
      BY <1>1, <1>3, <2>0, <2>2, <2>3
    <2> HIDE DEF zero, one
    <2>6. zero * Total(w) <= one * Total(w)
      BY <1>1, <2>1, <2>4, TotalMonotone
    <2>7. zero * Total(c) <= one * Total(c)
      BY <1>1, <2>1, <2>5, TotalMonotone
    <2> QED BY <1>4, <1>9, <2>2, <2>6, <2>7
  <1>6. ConfidenceSum(ops) <= 100 * WeightSum(ops)
    <2> DEFINE one == 1
               hundred == 100
    <2>1. one \in Int /\ hundred \in Int
      OBVIOUS
    <2>2. \A x \in Int : one * x = x
      OBVIOUS
    <2>0. DOMAIN ops = 1..Len(c) /\ \A i \in 1..Len(c) : c[i] \in Int
      BY <1>1, CouncilIs
    <2>3. \A i \in 1..Len(c) : one * c[i] <= hundred * w[i]
      BY <1>3, <2>0, <2>2
    <2> HIDE DEF one, hundred
    <2>4. one * Total(c) <= hundred * Total(w)
      BY <1>1, <2>1, <2>3, TotalMonotone
    <2> QED BY <1>4, <1>9, <2>2, <2>4 DEF hundred
  <1>7. ASSUME NEW k \in -2..2,
               \A i \in DOMAIN ops : HasVote(ops[i]) /\ ops[i].confidence > 0
                                           => verdictScore(ops[i].verdict) <= k
        PROVE  ScoreSum(ops) <= k * ConfidenceSum(ops)
    <2> DEFINE one == 1
    <2>1. one \in Int /\ k \in Int /\ \A x \in Int : one * x = x
      OBVIOUS
    <2>2. ASSUME NEW i \in 1..Len(s)
          PROVE  one * s[i] <= k * c[i]
      <3>1. i \in DOMAIN ops
        BY <1>1, CouncilIs
      <3>2. CASE HasVote(ops[i]) /\ ops[i].confidence > 0
        <4>1. verdictScore(ops[i].verdict) <= k
          BY <1>7, <3>1, <3>2
        <4>2. \A x \in 0..100, y \in -2..2, z \in -2..2 : y <= z => x * y <= z * x
          OBVIOUS
        <4>3. ops[i].confidence * verdictScore(ops[i].verdict) <= k * ops[i].confidence
          BY <1>2, <3>1, <4>1, <4>2, ScoreIs
        <4>4. s[i] = ops[i].confidence * verdictScore(ops[i].verdict) /\ c[i] = ops[i].confidence
              /\ s[i] \in Int
          BY <1>2, <3>1, <3>2, ScoreIs
        <4> QED BY <2>1, <4>3, <4>4
      <3>3. CASE ~ (HasVote(ops[i]) /\ ops[i].confidence > 0)
        <4>1. s[i] = 0 /\ c[i] = 0
          <5>1. Weigh(ops[i]) = 0 /\ Contribute(ops[i]) = 0
            BY <1>2, <3>1, <3>3, SilentScore
          <5> QED BY <1>2, <3>1, <5>1
        <4> QED BY <4>1
      <3> QED BY <3>2, <3>3
    <2> HIDE DEF one
    <2>3. one * Total(s) <= k * Total(c)
      BY <1>1, <2>1, <2>2, TotalMonotone
    <2> QED BY <1>4, <1>9, <2>1, <2>3
  <1>8. ASSUME NEW k \in -2..2,
               \A i \in DOMAIN ops : HasVote(ops[i]) /\ ops[i].confidence > 0
                                           => k <= verdictScore(ops[i].verdict)
        PROVE  k * ConfidenceSum(ops) <= ScoreSum(ops)
    <2> DEFINE one == 1
    <2>1. one \in Int /\ k \in Int /\ \A x \in Int : one * x = x
      OBVIOUS
    <2>2. ASSUME NEW i \in 1..Len(c)
          PROVE  k * c[i] <= one * s[i]
      <3>1. i \in DOMAIN ops
        BY <1>1, CouncilIs
      <3>2. CASE HasVote(ops[i]) /\ ops[i].confidence > 0
        <4>1. k <= verdictScore(ops[i].verdict)
          BY <1>8, <3>1, <3>2
        <4>2. \A x \in 0..100, y \in -2..2, z \in -2..2 : z <= y => z * x <= x * y
          OBVIOUS
        <4>3. k * ops[i].confidence <= ops[i].confidence * verdictScore(ops[i].verdict)
          BY <1>2, <3>1, <4>1, <4>2, ScoreIs
        <4>4. s[i] = ops[i].confidence * verdictScore(ops[i].verdict) /\ c[i] = ops[i].confidence
              /\ s[i] \in Int
          BY <1>2, <3>1, <3>2, ScoreIs
        <4> QED BY <2>1, <4>3, <4>4
      <3>3. CASE ~ (HasVote(ops[i]) /\ ops[i].confidence > 0)
        <4>1. s[i] = 0 /\ c[i] = 0
          <5>1. Weigh(ops[i]) = 0 /\ Contribute(ops[i]) = 0
            BY <1>2, <3>1, <3>3, SilentScore
          <5> QED BY <1>2, <3>1, <5>1
        <4> QED BY <4>1
      <3> QED BY <3>2, <3>3
    <2> HIDE DEF one
    <2>3. k * Total(c) <= one * Total(s)
      BY <1>1, <2>1, <2>2, TotalMonotone
    <2> QED BY <1>4, <1>9, <2>1, <2>3
  <1> QED BY <1>4, <1>5, <1>6, <1>7, <1>8

\* A council with one opinion more.
LEMMA CouncilAppend ==
    ASSUME NEW ops, IsCouncil(ops), NEW o \in expertOpinion
    PROVE  /\ IsCouncil(Append(ops, o))
           /\ Len(Append(ops, o)) = Len(ops) + 1
           /\ DOMAIN Append(ops, o) = (DOMAIN ops) \cup {Len(ops) + 1}
           /\ \A i \in DOMAIN ops : Append(ops, o)[i] = ops[i]
           /\ Append(ops, o)[Len(ops) + 1] = o
           /\ Weights(Append(ops, o)) = Append(Weights(ops), weightOf(o.expert))
           /\ Confidences(Append(ops, o)) = Append(Confidences(ops), Weigh(o))
           /\ Scores(Append(ops, o)) = Append(Scores(ops), Contribute(o))
  <1> DEFINE new == Append(ops, o)
             n == Len(ops)
  <1>1. /\ IsCouncil(new) /\ Len(new) = n + 1 /\ DOMAIN new = 1..(n + 1) /\ n \in Nat
        /\ DOMAIN ops = 1..n /\ new[n + 1] = o /\ \A i \in DOMAIN ops : new[i] = ops[i]
    BY DEF IsCouncil
  <1> HIDE DEF new, n
  <1>2. DOMAIN new = DOMAIN ops \cup {n + 1}
    BY <1>1
  <1>3. ASSUME NEW v \in Seq(Int), NEW x \in Int, Len(v) = n
        PROVE  Append(v, x) = [i \in 1..(n + 1) |-> IF i = n + 1 THEN x ELSE v[i]]
    <2>1. DOMAIN Append(v, x) = 1..(n + 1)
      BY <1>1, <1>3
    <2>2. \A i \in 1..(n + 1) : Append(v, x)[i] = IF i = n + 1 THEN x ELSE v[i]
      BY <1>1, <1>3
    <2>3. Append(v, x) = [i \in DOMAIN Append(v, x) |-> Append(v, x)[i]]
      <3>1. Append(v, x) \in Seq(Int)
        OBVIOUS
      <3>2. \A t \in Seq(Int) : t = [i \in DOMAIN t |-> t[i]]
        OBVIOUS
      <3> QED BY <3>1, <3>2
    <2> QED BY <2>1, <2>2, <2>3
  <1>4. /\ Weights(ops) \in Seq(Int) /\ Len(Weights(ops)) = n
        /\ Confidences(ops) \in Seq(Int) /\ Len(Confidences(ops)) = n
        /\ Scores(ops) \in Seq(Int) /\ Len(Scores(ops)) = n
    BY SumsAreSequences DEF n
  <1>5. weightOf(o.expert) \in Int /\ Weigh(o) \in Int /\ Contribute(o) \in Int
    <2>1. weightOf(o.expert) \in {0, 1}
      BY WeightIs
    <2>2. Weigh(o) \in 0..100 /\ Contribute(o) \in Int
      BY ScoreIs
    <2> QED BY <2>1, <2>2
  <1>6. Weights(new) = Append(Weights(ops), weightOf(o.expert))
    <2>1. Append(Weights(ops), weightOf(o.expert)) =
             [i \in 1..(n + 1) |-> IF i = n + 1 THEN weightOf(o.expert) ELSE Weights(ops)[i]]
      BY <1>3, <1>4, <1>5
    <2>2. \A i \in DOMAIN new : weightOf(new[i].expert) =
             IF i = n + 1 THEN weightOf(o.expert) ELSE Weights(ops)[i]
      <3>1. \A i \in DOMAIN ops : i # n + 1 /\ Weights(ops)[i] = weightOf(ops[i].expert)
        BY <1>1 DEF Weights
      <3> QED BY <1>1, <1>2, <3>1
    <2> QED BY <1>1, <2>1, <2>2 DEF Weights
  <1>7. Confidences(new) = Append(Confidences(ops), Weigh(o))
    <2>1. Append(Confidences(ops), Weigh(o)) =
             [i \in 1..(n + 1) |-> IF i = n + 1 THEN Weigh(o) ELSE Confidences(ops)[i]]
      BY <1>3, <1>4, <1>5
    <2>2. \A i \in DOMAIN new : Weigh(new[i]) =
             IF i = n + 1 THEN Weigh(o) ELSE Confidences(ops)[i]
      <3>1. \A i \in DOMAIN ops : i # n + 1 /\ Confidences(ops)[i] = Weigh(ops[i])
        BY <1>1 DEF Confidences
      <3> QED BY <1>1, <1>2, <3>1
    <2> QED BY <1>1, <2>1, <2>2 DEF Confidences
  <1>8. Scores(new) = Append(Scores(ops), Contribute(o))
    <2>1. Append(Scores(ops), Contribute(o)) =
             [i \in 1..(n + 1) |-> IF i = n + 1 THEN Contribute(o) ELSE Scores(ops)[i]]
      BY <1>3, <1>4, <1>5
    <2>2. \A i \in DOMAIN new : Contribute(new[i]) =
             IF i = n + 1 THEN Contribute(o) ELSE Scores(ops)[i]
      <3>1. \A i \in DOMAIN ops : i # n + 1 /\ Scores(ops)[i] = Contribute(ops[i])
        BY <1>1 DEF Scores
      <3> QED BY <1>1, <1>2, <3>1
    <2> QED BY <1>1, <2>1, <2>2 DEF Scores
  <1> QED BY <1>1, <1>2, <1>6, <1>7, <1>8 DEF new, n

\* The sums of a council with one opinion more.
LEMMA SumsAppend ==
    ASSUME NEW ops, IsCouncil(ops), NEW o \in expertOpinion
    PROVE  /\ WeightSum(Append(ops, o)) = WeightSum(ops) + weightOf(o.expert)
           /\ ConfidenceSum(Append(ops, o)) = ConfidenceSum(ops) + Weigh(o)
           /\ ScoreSum(Append(ops, o)) = ScoreSum(ops) + Contribute(o)
  <1>1. weightOf(o.expert) \in Int
    <2>1. weightOf(o.expert) \in {0, 1}
      BY WeightIs
    <2> QED BY <2>1
  <1>2. Weigh(o) \in Int /\ Contribute(o) \in Int
    <2>1. Weigh(o) \in 0..100 /\ Contribute(o) \in Int
      BY ScoreIs
    <2> QED BY <2>1
  <1>3. Weights(ops) \in Seq(Int) /\ Confidences(ops) \in Seq(Int) /\ Scores(ops) \in Seq(Int)
    BY SumsAreSequences
  <1>4. Total(Append(Weights(ops), weightOf(o.expert))) = Total(Weights(ops)) + weightOf(o.expert)
    BY <1>1, <1>3, TotalAppend
  <1>5. Total(Append(Confidences(ops), Weigh(o))) = Total(Confidences(ops)) + Weigh(o)
    BY <1>2, <1>3, TotalAppend
  <1>6. Total(Append(Scores(ops), Contribute(o))) = Total(Scores(ops)) + Contribute(o)
    BY <1>2, <1>3, TotalAppend
  <1> QED BY <1>4, <1>5, <1>6, CouncilAppend DEF WeightSum, ConfidenceSum, ScoreSum

\* The voters of a council are picked one opinion after the other.
LEMMA PartialVoters ==
    ASSUME NEW ops, IsCouncil(ops)
    PROVE  \E K \in [0..Len(ops) -> Seq(expertOpinion)] :
              /\ K[0] = << >> /\ K[Len(ops)] = Voters(ops)
              /\ \A n \in 1..Len(ops) : K[n] = Hear(K[n-1], ops[n])
  <1> DEFINE m == Len(ops)
             A == Seq(expertOpinion)
             none == << >>
             next == [x \in A \X (1..m) |-> Hear(x[1], ops[x[2]])]
             Solves(g) == g = [s \in SUBSET DOMAIN ops |->
                                  IF s = {} THEN none ELSE Hear(g[s \ {Max(s)}], ops[Max(s)])]
  <1>1. m \in Nat /\ DOMAIN ops = 1..m /\ none \in A
    <2>1. none \in A
      OBVIOUS
    <2> HIDE DEF none, A
    <2> QED BY <2>1, CouncilIs
  <1>2. \A v \in A, n \in 1..m : Hear(v, ops[n]) \in A
    BY CouncilIs DEF Hear
  <1>3. next \in [A \X (1..m) -> A]
    BY <1>2
  <1> HIDE DEF A, m
  <1>4. PICK g \in [SUBSET (1..m) -> A] : Solves(g)
    <2>1. PICK g \in [SUBSET (1..m) -> A] : IsFold(g, m, none, next)
      <3> HIDE DEF next, none
      <3> QED BY <1>1, <1>3, FoldExists
    <2>2. ASSUME NEW s \in SUBSET (1..m), s # {}
          PROVE  g[s] = Hear(g[s \ {Max(s)}], ops[Max(s)])
      <3>1. Max(s) \in 1..m /\ s \ {Max(s)} \in SUBSET (1..m)
        BY <1>1, <2>2, MaxOfPlaces
      <3>2. g[s] = next[<<g[s \ {Max(s)}], Max(s)>>]
        BY <2>1, <2>2 DEF IsFold
      <3>3. g[s \ {Max(s)}] \in A
        BY <3>1
      <3> QED BY <3>1, <3>2, <3>3
    <2>3. g[{}] = none
      BY <2>1 DEF IsFold
    <2> HIDE DEF next
    <2>4. Solves(g)
      BY <1>1, <2>1, <2>2, <2>3
    <2> QED BY <2>4
  <1>5. PICK h : Solves(h) /\ Voters(ops) = h[1..m]
    <2>1. Voters(ops) = (CHOOSE h : Solves(h))[DOMAIN ops]
      BY DEF Voters, FoldLeft, MapThenFoldSet
    <2> HIDE DEF Solves
    <2> QED BY <1>1, <1>4, <2>1
  <1> DEFINE K == [n \in 0..m |-> h[1..n]]
  <1>6. K[0] = none
    <2>1. {} \in SUBSET DOMAIN ops /\ 1..0 = {} /\ 0 \in 0..m
      BY <1>1
    <2>2. h[{}] = none
      BY <1>5, <2>1
    <2> QED BY <2>1, <2>2
  <1>7. ASSUME NEW n \in 1..m
        PROVE  K[n] = Hear(K[n-1], ops[n])
    <2>1. n \in Nat /\ n \in 1..n /\ n \in 0..m /\ n - 1 \in 0..m
      BY <1>1
    <2>2. 1..n \in SUBSET DOMAIN ops
      BY <1>1
    <2>3. Max(1..n) = n /\ (1..n) \ {n} = 1..(n-1)
      BY <2>1, MaxOfAll
    <2>4. h[1..n] = Hear(h[(1..n) \ {n}], ops[n])
      BY <1>5, <2>1, <2>2, <2>3
    <2> QED BY <2>1, <2>3, <2>4
  <1>8. K \in [0..m -> A]
    <2> DEFINE S == {n \in 0..m : K[n] \in A}
    <2> HIDE DEF K
    <2>1. 0 \in S
      <3>1. 0 \in 0..m /\ K[0] \in A
        BY <1>1, <1>6
      <3> QED BY <3>1
    <2>2. ASSUME NEW n \in 0..(m-1), n \in S
          PROVE  n + 1 \in S
      <3>1. n + 1 \in 1..m /\ n + 1 \in 0..m /\ (n + 1) - 1 = n
        BY <1>1
      <3>2. K[n+1] = Hear(K[n], ops[n+1])
        BY <1>7, <3>1
      <3> QED BY <1>2, <2>2, <3>1, <3>2
    <2>3. \A n \in 0..m : n \in S
      <3> HIDE DEF S
      <3> QED BY <1>1, <2>1, <2>2, InductionTo
    <2> QED BY <2>3 DEF K
  <1>9. K[m] = Voters(ops)
    BY <1>1, <1>5
  <1> HIDE DEF K
  <1> QED BY <1>6, <1>7, <1>8, <1>9 DEF m, A, none

\* The voters of a council are a council of experts with a vote, of the same sums.
LEMMA VotersAre ==
    ASSUME NEW ops, IsCouncil(ops)
    PROVE  /\ IsCouncil(Voters(ops))
           /\ \A i \in DOMAIN Voters(ops) : HasVote(Voters(ops)[i])
           /\ WeightSum(Voters(ops)) = WeightSum(ops)
           /\ ConfidenceSum(Voters(ops)) = ConfidenceSum(ops)
           /\ ScoreSum(Voters(ops)) = ScoreSum(ops)
  <1> DEFINE m == Len(ops)
             w == Weights(ops)
             c == Confidences(ops)
             s == Scores(ops)
  <1>1. m \in Nat /\ DOMAIN ops = 1..m /\ \A n \in 1..m : ops[n] \in expertOpinion
    BY CouncilIs
  <1>2. PICK K \in [0..m -> Seq(expertOpinion)] :
           /\ K[0] = << >> /\ K[m] = Voters(ops)
           /\ \A n \in 1..m : K[n] = Hear(K[n-1], ops[n])
    BY PartialVoters
  <1>3. /\ w \in Seq(Int) /\ Len(w) = m /\ c \in Seq(Int) /\ Len(c) = m
        /\ s \in Seq(Int) /\ Len(s) = m
    BY SumsAreSequences
  <1>4. \A n \in 1..m : /\ w[n] = weightOf(ops[n].expert) /\ c[n] = Weigh(ops[n])
                        /\ s[n] = Contribute(ops[n])
    BY <1>1 DEF Weights, Confidences, Scores
  <1> HIDE DEF m, w, c, s
  <1>5. PICK p \in [0..m -> Int] :
           p[0] = 0 /\ p[m] = Total(w) /\ \A n \in 1..m : p[n] = p[n-1] + w[n]
    BY <1>3, PartialSums, ZenonT(60)
  <1>6. PICK q \in [0..m -> Int] :
           q[0] = 0 /\ q[m] = Total(c) /\ \A n \in 1..m : q[n] = q[n-1] + c[n]
    BY <1>3, PartialSums, SMTT(40)
  <1>7. PICK r \in [0..m -> Int] :
           r[0] = 0 /\ r[m] = Total(s) /\ \A n \in 1..m : r[n] = r[n-1] + s[n]
    BY <1>3, PartialSums, ZenonT(60)
  <1> DEFINE Agrees(v, n) == /\ IsCouncil(v)
                             /\ \A i \in DOMAIN v : HasVote(v[i])
                             /\ WeightSum(v) = p[n] /\ ConfidenceSum(v) = q[n] /\ ScoreSum(v) = r[n]
             S == {n \in 0..m : Agrees(K[n], n)}
  <1>8. 0 \in S
    <2>1. IsCouncil(<< >>) /\ DOMAIN << >> = {}
      BY DEF IsCouncil
    <2>2. Weights(<< >>) = << >> /\ Confidences(<< >>) = << >> /\ Scores(<< >>) = << >>
      BY <2>1 DEF Weights, Confidences, Scores
    <2>3. Total(<< >>) = 0
      <3>1. << >> \in Seq(Int) /\ Len(<< >>) = 0
        OBVIOUS
      <3> QED BY <3>1, PartialSums
    <2>4. 0 \in 0..m
      BY <1>1
    <2>5. Agrees(<< >>, 0)
      BY <1>5, <1>6, <1>7, <2>1, <2>2, <2>3 DEF WeightSum, ConfidenceSum, ScoreSum
    <2> HIDE DEF Agrees
    <2> QED BY <1>2, <2>4, <2>5
  <1>9. ASSUME NEW n \in 0..(m-1), n \in S
        PROVE  n + 1 \in S
    <2>1. n + 1 \in 1..m /\ n + 1 \in 0..m /\ (n + 1) - 1 = n
      BY <1>1
    <2> DEFINE o == ops[n+1]
               v == K[n]
    <2>2. o \in expertOpinion /\ IsCouncil(v) /\ Agrees(v, n)
      BY <1>1, <1>9, <2>1
    <2>3. K[n+1] = Hear(v, o)
      BY <1>2, <2>1
    <2>4. /\ p[n+1] = p[n] + weightOf(o.expert)
          /\ q[n+1] = q[n] + Weigh(o)
          /\ r[n+1] = r[n] + Contribute(o)
      BY <1>4, <1>5, <1>6, <1>7, <2>1
    <2>5. p[n] \in Int /\ q[n] \in Int /\ r[n] \in Int
      BY <2>1, <1>1
    <2> HIDE DEF o, v
    <2>6. Agrees(Hear(v, o), n + 1)
      <3>1. CASE HasVote(o)
        <4>1. Hear(v, o) = Append(v, o)
          BY <3>1 DEF Hear
        <4>2. IsCouncil(Append(v, o)) /\ \A i \in DOMAIN Append(v, o) : HasVote(Append(v, o)[i])
          <5>1. /\ IsCouncil(Append(v, o))
                /\ DOMAIN Append(v, o) = (DOMAIN v) \cup {Len(v) + 1}
                /\ \A i \in DOMAIN v : Append(v, o)[i] = v[i]
                /\ Append(v, o)[Len(v) + 1] = o
            BY <2>2, CouncilAppend
          <5>2. \A i \in DOMAIN v : HasVote(v[i])
            BY <2>2
          <5> HIDE DEF Agrees
          <5> QED BY <3>1, <5>1, <5>2
        <4> QED BY <2>2, <2>4, <4>1, <4>2, SumsAppend
      <3>2. CASE ~ HasVote(o)
        <4>1. Hear(v, o) = v
          BY <3>2 DEF Hear
        <4>2. weightOf(o.expert) = 0 /\ Weigh(o) = 0 /\ Contribute(o) = 0
          BY <2>2, <3>2, WeightIs, ScoreIs
        <4> QED BY <2>2, <2>4, <2>5, <4>1, <4>2
      <3> QED BY <3>1, <3>2
    <2> HIDE DEF Agrees
    <2> QED BY <2>1, <2>3, <2>6
  <1>10. \A n \in 0..m : n \in S
    <2> HIDE DEF S
    <2> QED BY <1>1, <1>8, <1>9, InductionTo
  <1>11. m \in 0..m
    BY <1>1
  <1>12. Agrees(Voters(ops), m)
    BY <1>2, <1>10, <1>11
  <1> QED BY <1>5, <1>6, <1>7, <1>12 DEF w, c, s, WeightSum, ConfidenceSum, ScoreSum

\* A council read backwards has the same sums.
LEMMA ReverseSums ==
    ASSUME NEW ops, IsCouncil(ops)
    PROVE  /\ WeightSum(Reverse(ops)) = WeightSum(ops)
           /\ ConfidenceSum(Reverse(ops)) = ConfidenceSum(ops)
           /\ ScoreSum(Reverse(ops)) = ScoreSum(ops)
  <1> DEFINE n == Len(ops)
             back == Reverse(ops)
  <1>1. /\ n \in Nat /\ DOMAIN ops = 1..n /\ DOMAIN back = 1..n
        /\ \A i \in 1..n : back[i] = ops[(n - i) + 1] /\ (n - i) + 1 \in 1..n
    BY DEF IsCouncil, Reverse
  <1>2. /\ Weights(ops) \in Seq(Int) /\ Len(Weights(ops)) = n
        /\ Confidences(ops) \in Seq(Int) /\ Len(Confidences(ops)) = n
        /\ Scores(ops) \in Seq(Int) /\ Len(Scores(ops)) = n
    BY SumsAreSequences
  <1> HIDE DEF n, back
  <1>3. Weights(back) = Reverse(Weights(ops))
    BY <1>1, <1>2 DEF Weights, Reverse
  <1>4. Confidences(back) = Reverse(Confidences(ops))
    BY <1>1, <1>2 DEF Confidences, Reverse
  <1>5. Scores(back) = Reverse(Scores(ops))
    BY <1>1, <1>2 DEF Scores, Reverse
  <1>6. /\ Total(Reverse(Weights(ops))) = Total(Weights(ops))
        /\ Total(Reverse(Confidences(ops))) = Total(Confidences(ops))
        /\ Total(Reverse(Scores(ops))) = Total(Scores(ops))
    BY <1>2, TotalReverse
  <1> QED BY <1>3, <1>4, <1>5, <1>6 DEF back, WeightSum, ConfidenceSum, ScoreSum

\* One expert with a vote who is not silent gives the council confidence.
LEMMA HeardCouncil ==
    ASSUME NEW ops, IsCouncil(ops), NEW i \in DOMAIN ops, HasVote(ops[i]), ops[i].confidence > 0
    PROVE  ConfidenceSum(ops) > 0
  <1> DEFINE c == Confidences(ops)
  <1>1. c \in Seq(Int) /\ Len(c) = Len(ops) /\ DOMAIN ops = 1..Len(ops)
    BY SumsAreSequences, CouncilIs
  <1>2. \A j \in DOMAIN ops : c[j] = Weigh(ops[j]) /\ ops[j] \in expertOpinion
    BY CouncilIs DEF Confidences
  <1>3. \A j \in DOMAIN ops : c[j] >= 0
    <2> SUFFICES ASSUME NEW j \in DOMAIN ops PROVE c[j] >= 0
      OBVIOUS
    <2>1. c[j] \in 0..100
      BY <1>2, ScoreIs
    <2> QED BY <2>1
  <1>4. c[i] = ops[i].confidence
    BY <1>2, ScoreIs
  <1>5. c[i] > 0
    BY <1>4
  <1> HIDE DEF c
  <1>6. Total(c) > 0
    BY <1>1, <1>3, <1>5, TotalPositive
  <1> QED BY <1>6 DEF ConfidenceSum, c

\* A verdict is between the bounds of the verdicts of those who are heard.
LEMMA CallBetween ==
    ASSUME NEW ops, IsCouncil(ops), NEW j \in -2..2, NEW k \in -2..2, ConfidenceSum(ops) > 0,
           \A i \in DOMAIN ops : HasVote(ops[i]) /\ ops[i].confidence > 0
              => j <= verdictScore(ops[i].verdict) /\ verdictScore(ops[i].verdict) <= k
    PROVE  verdictScore(computeConsensus(ops).verdict) \in j..k
  <1>1. ScoreSum(ops) <= k * ConfidenceSum(ops) /\ j * ConfidenceSum(ops) <= ScoreSum(ops)
    BY SumsAreBounded
  <1>2. ConfidenceSum(ops) \in Int /\ ScoreSum(ops) \in Int
    <2>1. ConfidenceSum(ops) \in Nat /\ ScoreSum(ops) \in Int
      BY SumsAreBounded
    <2> QED BY <2>1
  <1>3. computeConsensus(ops).verdict = scoreToVerdict(ScoreSum(ops), ConfidenceSum(ops))
    BY ConsensusIs
  <1> QED BY <1>1, <1>2, <1>3, VerdictBetween

\* The least and the greatest of some scores.
LEMMA LeastAndGreatest ==
    ASSUME NEW T \in SUBSET (-2..2), T # {}
    PROVE  /\ Min(T) \in -2..2 /\ Max(T) \in -2..2
           /\ \A x \in T : Min(T) <= x /\ x <= Max(T)
  <1>1. \E x \in T : \A y \in T : x <= y
    <2>1. PICK z \in T : TRUE
      OBVIOUS
    <2>2. CASE -2 \in T
      BY <2>2
    <2>3. CASE -2 \notin T /\ -1 \in T
      BY <2>3
    <2>4. CASE -2 \notin T /\ -1 \notin T /\ 0 \in T
      BY <2>4
    <2>5. CASE -2 \notin T /\ -1 \notin T /\ 0 \notin T /\ 1 \in T
      BY <2>5
    <2>6. CASE -2 \notin T /\ -1 \notin T /\ 0 \notin T /\ 1 \notin T
      BY <2>1, <2>6
    <2> QED BY <2>2, <2>3, <2>4, <2>5, <2>6
  <1>2. \E x \in T : \A y \in T : x >= y
    <2>1. PICK z \in T : TRUE
      OBVIOUS
    <2>2. CASE 2 \in T
      BY <2>2
    <2>3. CASE 2 \notin T /\ 1 \in T
      BY <2>3
    <2>4. CASE 2 \notin T /\ 1 \notin T /\ 0 \in T
      BY <2>4
    <2>5. CASE 2 \notin T /\ 1 \notin T /\ 0 \notin T /\ -1 \in T
      BY <2>5
    <2>6. CASE 2 \notin T /\ 1 \notin T /\ 0 \notin T /\ -1 \notin T
      BY <2>1, <2>6
    <2> QED BY <2>2, <2>3, <2>4, <2>5, <2>6
  <1>3. Min(T) \in T /\ \A y \in T : Min(T) <= y
    BY <1>1 DEF Min
  <1>4. Max(T) \in T /\ \A y \in T : Max(T) >= y
    BY <1>2 DEF Max
  <1> QED BY <1>3, <1>4

\* Councils of the same sums come to the same verdict and the same confidence.
LEMMA SameSums ==
    ASSUME NEW ops1, NEW ops2, WeightSum(ops1) = WeightSum(ops2),
           ConfidenceSum(ops1) = ConfidenceSum(ops2), ScoreSum(ops1) = ScoreSum(ops2)
    PROVE  SameCall(ops1, ops2)
  BY ConsensusIs DEF SameCall

\* A council with confidence has a vote.
LEMMA SomeVoter ==
    ASSUME NEW ops, IsCouncil(ops), ConfidenceSum(ops) # 0
    PROVE  ConfidenceSum(ops) > 0 /\ WeightSum(ops) > 0
  <1>1. /\ WeightSum(ops) \in Nat /\ ConfidenceSum(ops) \in Nat
        /\ ConfidenceSum(ops) <= 100 * WeightSum(ops)
    BY SumsAreBounded
  <1> QED BY <1>1

\* A gap in research leaves the verdict, and does not raise the confidence.
LEMMA GapOnlyLowers ==
    ASSUME NEW ops, IsCouncil(ops)
    PROVE  LET call == computeConsensus(ops)
               withGap == computeConsensus(Append(ops, gapOpinion("sector")))
           IN  withGap.verdict = call.verdict /\ withGap.confidence <= call.confidence
  <1> DEFINE gap == gapOpinion("sector")
             new == Append(ops, gap)
  <1>1. gap \in expertOpinion /\ HasVote(gap) /\ gap.confidence = 0
    BY DEF gapOpinion, Opinion, expertOpinion, Experts, Verdicts, VERDICT_SCORES, HasVote
  <1>2. weightOf(gap.expert) = 1 /\ Weigh(gap) = 0 /\ Contribute(gap) = 0
    BY <1>1, WeightIs, ScoreIs
  <1>3. WeightSum(ops) \in Nat /\ ConfidenceSum(ops) \in Nat /\ ScoreSum(ops) \in Int
    BY SumsAreBounded
  <1>4. /\ WeightSum(new) = WeightSum(ops) + 1 /\ ConfidenceSum(new) = ConfidenceSum(ops)
        /\ ScoreSum(new) = ScoreSum(ops)
    <2>1. /\ WeightSum(new) = WeightSum(ops) + weightOf(gap.expert)
          /\ ConfidenceSum(new) = ConfidenceSum(ops) + Weigh(gap)
          /\ ScoreSum(new) = ScoreSum(ops) + Contribute(gap)
      BY <1>1, SumsAppend
    <2> QED BY <1>2, <1>3, <2>1
  <1> HIDE DEF gap, new
  <1>5. computeConsensus(new).verdict = computeConsensus(ops).verdict
    BY <1>4, ConsensusIs
  <1>6. computeConsensus(new).confidence <= computeConsensus(ops).confidence
    <2>1. CASE ConfidenceSum(ops) = 0
      BY <1>4, <2>1, ConsensusIs
    <2>2. CASE ConfidenceSum(ops) # 0
      <3>1. WeightSum(ops) > 0
        BY <2>2, SomeVoter
      <3>2. Round(ConfidenceSum(ops), WeightSum(ops) + 1) <= Round(ConfidenceSum(ops), WeightSum(ops))
        BY <1>3, <3>1, RoundShrinks
      <3> QED BY <1>4, <2>2, <3>2, ConsensusIs
    <2> QED BY <2>1, <2>2
  <1> QED BY <1>5, <1>6 DEF gap, new

\* The verdict is between those of the voters who are not silent.
LEMMA CallWithinVotes ==
    ASSUME NEW ops, IsCouncil(ops)
    PROVE  LET voters == Voters(ops)
               heard  == {i \in DOMAIN voters : voters[i].confidence > 0}
               scores == {verdictScore(voters[i].verdict) : i \in heard}
           IN  heard # {} => verdictScore(computeConsensus(ops).verdict) \in Min(scores)..Max(scores)
  <1> DEFINE voters == Voters(ops)
             heard  == {i \in DOMAIN voters : voters[i].confidence > 0}
             scores == {verdictScore(voters[i].verdict) : i \in heard}
  <1> SUFFICES ASSUME heard # {}
               PROVE  verdictScore(computeConsensus(ops).verdict) \in Min(scores)..Max(scores)
    OBVIOUS
  <1>1. IsCouncil(voters) /\ \A i \in DOMAIN voters : HasVote(voters[i])
    BY VotersAre
  <1>2. computeConsensus(voters).verdict = computeConsensus(ops).verdict
    BY VotersAre, SameSums DEF SameCall
  <1> HIDE DEF voters
  <1>3. PICK i \in DOMAIN voters : voters[i].confidence > 0
    OBVIOUS
  <1>4. \A j \in DOMAIN voters : verdictScore(voters[j].verdict) \in -2..2
    <2> SUFFICES ASSUME NEW j \in DOMAIN voters PROVE verdictScore(voters[j].verdict) \in -2..2
      OBVIOUS
    <2>1. voters[j] \in expertOpinion
      BY <1>1, CouncilIs
    <2> QED BY <2>1, ScoreIs
  <1>5. scores \in SUBSET (-2..2) /\ scores # {}
    BY <1>4
  <1>6. ConfidenceSum(voters) > 0
    BY <1>1, <1>3, HeardCouncil
  <1>7. \A j \in DOMAIN voters : voters[j].confidence > 0 => verdictScore(voters[j].verdict) \in scores
    OBVIOUS
  <1> HIDE DEF scores
  <1>8. /\ Min(scores) \in -2..2 /\ Max(scores) \in -2..2
        /\ \A x \in scores : Min(scores) <= x /\ x <= Max(scores)
    BY <1>5, LeastAndGreatest
  <1>9. \A j \in DOMAIN voters : HasVote(voters[j]) /\ voters[j].confidence > 0
           => Min(scores) <= verdictScore(voters[j].verdict) /\ verdictScore(voters[j].verdict) <= Max(scores)
    BY <1>7, <1>8
  <1>10. verdictScore(computeConsensus(voters).verdict) \in Min(scores)..Max(scores)
    BY <1>1, <1>6, <1>8, <1>9, CallBetween
  <1> QED BY <1>2, <1>10

\* The sums of opinions whoever gave them, and that they are those of the consensus when all
\* have a vote.
LEMMA BlendIs ==
    ASSUME NEW ops, IsCouncil(ops)
    PROVE  /\ SumOver(ops, ConfidenceOf) \in Nat
           /\ SumOver(ops, ScoreOf) \in Int
           /\ SumOver(ops, ConfidenceOf) <= 100 * Len(ops)
           /\ (\A i \in DOMAIN ops : HasVote(ops[i])) =>
                 /\ SumOver(ops, ConfidenceOf) = ConfidenceSum(ops)
                 /\ SumOver(ops, ScoreOf) = ScoreSum(ops)
                 /\ Len(ops) = WeightSum(ops)
  <1> DEFINE c == [i \in DOMAIN ops |-> ConfidenceOf(ops[i])]
             s == [i \in DOMAIN ops |-> ScoreOf(ops[i])]
             u == [i \in DOMAIN ops |-> 1]
  <1>1. Len(ops) \in Nat /\ DOMAIN ops = 1..Len(ops) /\ \A i \in DOMAIN ops : ops[i] \in expertOpinion
    BY CouncilIs
  <1>2. \A i \in DOMAIN ops : ConfidenceOf(ops[i]) \in 0..100 /\ ScoreOf(ops[i]) \in Int
    BY <1>1, ScoreIs DEF ConfidenceOf
  <1>3. c \in Seq(Int) /\ s \in Seq(Int) /\ Len(c) = Len(ops) /\ u \in Seq(Int) /\ Len(u) = Len(ops)
    <2>1. c \in [DOMAIN ops -> Int] /\ s \in [DOMAIN ops -> Int] /\ u \in [DOMAIN ops -> Int]
      BY <1>2
    <2>2. \A v \in [DOMAIN ops -> Int] : v \in Seq(Int) /\ Len(v) = Len(ops)
      BY <1>1
    <2> HIDE DEF c, s, u
    <2> QED BY <2>1, <2>2
  <1>4. SumOver(ops, ConfidenceOf) = Total(c) /\ SumOver(ops, ScoreOf) = Total(s)
    BY DEF SumOver
  <1>5. Total(u) = Len(ops)
    <2>1. PICK p \in [0..Len(u) -> Int] :
             p[0] = 0 /\ p[Len(u)] = Total(u) /\ \A n \in 1..Len(u) : p[n] = p[n-1] + u[n]
      BY <1>3, PartialSums
    <2> DEFINE m == Len(u)
               S == {n \in 0..m : p[n] = n}
    <2>2. m \in Nat /\ \A n \in 1..m : u[n] = 1
      BY <1>1, <1>3
    <2> HIDE DEF m, u
    <2>3. 0 \in S
      BY <2>1, <2>2
    <2>4. ASSUME NEW n \in 0..(m-1), n \in S
          PROVE  n + 1 \in S
      <3>1. n + 1 \in 1..m /\ n + 1 \in 0..m /\ (n + 1) - 1 = n
        BY <2>2
      <3>2. p[n+1] = p[n] + 1 /\ p[n] = n
        BY <2>1, <2>2, <2>4, <3>1 DEF m
      <3> QED BY <3>1, <3>2
    <2>5. \A n \in 0..m : n \in S
      <3> HIDE DEF S
      <3> QED BY <2>2, <2>3, <2>4, InductionTo
    <2>6. m \in 0..m
      BY <2>2
    <2> QED BY <1>3, <2>1, <2>5, <2>6 DEF m
  <1>6. Total(c) \in Int /\ Total(s) \in Int
    BY <1>3, TotalType
  <1>7. 0 <= Total(c) /\ Total(c) <= 100 * Len(ops)
    <2> DEFINE zero == 0
               one == 1
               hundred == 100
    <2>1. zero \in Int /\ one \in Int /\ hundred \in Int
      OBVIOUS
    <2>2. \A x \in Int : zero * x = 0 /\ one * x = x /\ hundred * x = 100 * x
      OBVIOUS
    <2>3. \A i \in DOMAIN ops : /\ zero * c[i] <= one * c[i]
                                /\ one * c[i] <= hundred * u[i]
      <3> SUFFICES ASSUME NEW i \in DOMAIN ops
                   PROVE  zero * c[i] <= one * c[i] /\ one * c[i] <= hundred * u[i]
        OBVIOUS
      <3>1. c[i] \in 0..100 /\ u[i] = 1
        BY <1>2
      <3> HIDE DEF c, u
      <3> QED BY <3>1
    <2> HIDE DEF zero, one, hundred, c, u
    <2>4. zero * Total(c) <= one * Total(c)
      <3>1. \A i \in 1..Len(c) : zero * c[i] <= one * c[i]
        BY <1>1, <1>3, <2>3
      <3> QED BY <1>3, <2>1, <3>1, TotalMonotone
    <2>5. one * Total(c) <= hundred * Total(u)
      <3>1. \A i \in 1..Len(c) : one * c[i] <= hundred * u[i]
        BY <1>1, <1>3, <2>3
      <3>2. Len(c) = Len(u)
        BY <1>3
      <3> QED BY <1>3, <2>1, <3>1, <3>2, TotalMonotone
    <2> QED BY <1>1, <1>5, <1>6, <2>2, <2>4, <2>5
  <1>8. ASSUME \A i \in DOMAIN ops : HasVote(ops[i])
        PROVE  c = Confidences(ops) /\ s = Scores(ops) /\ u = Weights(ops)
    <2>1. \A i \in DOMAIN ops : ConfidenceOf(ops[i]) = Weigh(ops[i])
      BY <1>1, <1>8, ScoreIs DEF ConfidenceOf
    <2>2. \A i \in DOMAIN ops : weightOf(ops[i].expert) = 1
      BY <1>1, <1>8, WeightIs
    <2>3. \A i \in DOMAIN ops : ScoreOf(ops[i]) = Contribute(ops[i])
      <3>1. \A x \in Int : 1 * x = x
        OBVIOUS
      <3> QED BY <1>2, <2>2, <3>1 DEF Contribute
    <2> QED BY <2>1, <2>2, <2>3 DEF Confidences, Scores, Weights
  <1> HIDE DEF c, s, u
  <1> QED BY <1>1, <1>4, <1>5, <1>6, <1>7, <1>8 DEF WeightSum, ConfidenceSum, ScoreSum

\* The opinion of the strategy expert about voters changes nothing when it joins them.
LEMMA EchoKeepsTheCall ==
    ASSUME NEW ops, IsCouncil(ops), \A i \in DOMAIN ops : HasVote(ops[i]), ops # << >>
    PROVE  SameCall(Append(ops, StrategyAgent(ops)), ops)
  <1> DEFINE n == WeightSum(ops)
             c == ConfidenceSum(ops)
             s == ScoreSum(ops)
             r == Round(c, n)
             verdict == IF c = 0 THEN "neutral" ELSE scoreToVerdict(s, c)
             own == StrategyAgent(ops)
             new == Append(ops, own)
  <1>1. /\ n \in Nat /\ c \in Nat /\ s \in Int /\ c <= 100 * n
        /\ SumOver(ops, ConfidenceOf) = c /\ SumOver(ops, ScoreOf) = s /\ Len(ops) = n
    BY SumsAreBounded, BlendIs
  <1>2. own = Opinion("strategy", verdict, r)
    BY <1>1 DEF StrategyAgent, Blend
  <1>3. n > 0
    <2>1. Len(ops) # 0
      BY DEF IsCouncil
    <2> HIDE DEF n
    <2> QED BY <1>1, <2>1
  <1>4. /\ computeConsensus(ops).verdict = verdict
        /\ computeConsensus(ops).confidence = IF c = 0 THEN 0 ELSE r
    BY ConsensusIs
  <1> HIDE DEF n, c, s
  <1>5. n \in Int /\ c \in Int /\ 0 <= c
    BY <1>1
  <1>6. r \in 0..100
    <2> DEFINE hundred == 100
    <2>1. hundred \in Int /\ c <= hundred * n
      BY <1>1
    <2> HIDE DEF hundred, r
    <2>2. Round(c, n) \in 0..hundred
      BY <1>3, <1>5, <2>1, RoundBetween
    <2> QED BY <2>2 DEF hundred, r
  <1>7. verdict \in Verdicts
    BY <1>1, <1>5, VerdictType DEF Verdicts, VERDICT_SCORES
  <1>8. own \in expertOpinion /\ HasVote(own) /\ own.confidence = r /\ own.verdict = verdict
    BY <1>2, <1>6, <1>7 DEF Opinion, expertOpinion, Experts, HasVote
  <1> HIDE DEF own
  <1>9. weightOf(own.expert) = 1 /\ Weigh(own) = r /\ Contribute(own) = r * verdictScore(verdict)
    BY <1>8, WeightIs, ScoreIs
  <1>10. /\ WeightSum(new) = n + 1 /\ ConfidenceSum(new) = c + r
         /\ ScoreSum(new) = s + r * verdictScore(verdict)
    BY <1>8, <1>9, SumsAppend DEF n, c, s
  <1> HIDE DEF new
  <1>11. computeConsensus(new).verdict = verdict /\ computeConsensus(new).confidence = IF c = 0 THEN 0 ELSE r
    <2>1. CASE c = 0
      <3>1. r = 0
        <4> DEFINE zero == 0
        <4>1. zero \in Int /\ 2 * (n * zero) <= 2 * c + n /\ 2 * c < 2 * (n * zero) + n
          BY <1>3, <1>5, <2>1
        <4> HIDE DEF zero
        <4>2. Round(c, n) = zero
          BY <1>3, <1>5, <4>1, RoundedTo
        <4> QED BY <4>2 DEF zero
      <3>2. ConfidenceSum(new) = 0
        BY <1>10, <2>1, <3>1
      <3> QED BY <2>1, <3>2, ConsensusIs
    <2>2. CASE c # 0
      <3>2. verdict = scoreToVerdict(s, c)
        BY <2>2
      <3>3. Round(c + r, n + 1) = r
        BY <1>1, <1>3, <1>5, RoundEchoes
      <3> HIDE DEF r, verdict
      <3>1. c > 0 /\ r \in Nat
        BY <1>5, <1>6, <2>2
      <3>4. scoreToVerdict(s + r * verdictScore(verdict), c + r) = verdict
        BY <1>1, <1>5, <3>1, <3>2, VerdictEchoes
      <3>5. c + r # 0
        BY <1>5, <3>1
      <3> QED BY <1>10, <2>2, <3>3, <3>4, <3>5, ConsensusIs
    <2> QED BY <2>1, <2>2
  <1> HIDE DEF verdict, r
  <1>12. SameCall(new, ops)
    BY <1>4, <1>11 DEF SameCall
  <1> QED BY <1>12 DEF new, own

\* Any council counts votes once.
LEMMA VotesCount ==
    ASSUME IsCouncil(opinions)
    PROVE  VotesCountOnce
  <1>1. SameCall(opinions, Voters(opinions))
    BY VotersAre, SameSums
  <1>2. SameCall(opinions, Reverse(opinions))
    BY ReverseSums, SameSums
  <1>3. OnlyVotersVote
    BY <1>1, <1>2, CallWithinVotes, GapOnlyLowers DEF OnlyVotersVote
  <1>4. StrategyEchoes
    BY VotersAre, EchoKeepsTheCall DEF StrategyEchoes
  <1> QED BY <1>3, <1>4 DEF VotesCountOnce

\* An entry of the trace adds what its opinion does, when no voter speaks twice.
LEMMA TraceOf ==
    ASSUME NEW ops, IsCouncil(ops), DistinctVoters(ops), NEW i \in DOMAIN ops
    PROVE  LET e == buildExplainabilityTrace(ops, computeConsensus(ops))[i]
           IN  /\ (IF e.included THEN e.weight * e.confidence ELSE 0) = Weigh(ops[i])
               /\ (IF e.included THEN e.contribution ELSE 0) = Contribute(ops[i])
  <1> DEFINE consensus == computeConsensus(ops)
             all == consensus.contributions
             own == {j \in DOMAIN all : all[j].expert = ops[i].expert}
             e == buildExplainabilityTrace(ops, consensus)[i]
             part == [expert |-> ops[i].expert, contribution |-> Contribute(ops[i]),
                      weight |-> weightOf(ops[i].expert)]
  <1>1. \A j \in DOMAIN ops : ops[j] \in expertOpinion
    BY CouncilIs
  <1>2. all = [j \in {x \in DOMAIN ops : Votes(ops[x])} |->
                  [expert |-> ops[j].expert, contribution |-> Contribute(ops[j]),
                   weight |-> weightOf(ops[j].expert)]]
    BY DEF computeConsensus
  <1>3. \A j \in DOMAIN ops : Votes(ops[j]) <=> HasVote(ops[j])
    BY <1>1, WeightIs
  <1>4. own = {j \in DOMAIN ops : HasVote(ops[j]) /\ ops[j].expert = ops[i].expert}
    BY <1>2, <1>3
  <1>5. e.confidence = ops[i].confidence
    BY DEF buildExplainabilityTrace
  <1> HIDE DEF consensus
  <1>6. CASE HasVote(ops[i])
    <2>1. own = {i}
      BY <1>4, <1>6 DEF DistinctVoters
    <2>2. Max(own) = i
      <3>1. DOMAIN ops \subseteq Nat
        BY CouncilIs
      <3> QED BY <2>1, <3>1 DEF Max
    <2>3. all[i] = part
      BY <1>2, <1>3, <1>6
    <2>4. part # UNDEFINED
      <3>1. weightOf(ops[i].expert) \in {0, 1} /\ Contribute(ops[i]) \in Int
        BY <1>1, WeightIs, ScoreIs
      <3>2. ops[i].expert \in Experts
        BY <1>1 DEF expertOpinion
      <3>3. weightOf(ops[i].expert) \in Int
        BY <3>1
      <3>4. part \in [expert : Experts, contribution : Int, weight : Int]
        BY <3>1, <3>2, <3>3
      <3> QED BY <3>4, GapsAssumption
    <2>5. ContributionOf(consensus, ops[i].expert) = part
      BY <2>1, <2>2, <2>3 DEF ContributionOf
    <2> HIDE DEF part
    <2>6. e.included = TRUE /\ e.weight = part.weight /\ e.contribution = part.contribution
      BY <2>4, <2>5 DEF buildExplainabilityTrace
    <2>7. part.weight = weightOf(ops[i].expert) /\ part.contribution = Contribute(ops[i])
      BY DEF part
    <2> HIDE DEF e
    <2> QED BY <1>5, <2>6, <2>7 DEF Weigh, consensus, e
  <1>7. CASE ~ HasVote(ops[i])
    <2>1. own = {}
      BY <1>4, <1>7 DEF HasVote
    <2>2. ContributionOf(consensus, ops[i].expert) = UNDEFINED
      BY <2>1 DEF ContributionOf
    <2>3. e.included = FALSE
      BY <2>2 DEF buildExplainabilityTrace
    <2>4. Weigh(ops[i]) = 0 /\ Contribute(ops[i]) = 0
      BY <1>1, <1>7, ScoreIs
    <2> HIDE DEF e
    <2> QED BY <2>3, <2>4 DEF consensus, e
  <1> QED BY <1>6, <1>7

\* So the trace of such a council has its verdict.
LEMMA TraceReproduces ==
    ASSUME NEW ops, IsCouncil(ops), DistinctVoters(ops)
    PROVE  reproduceVerdictFromTrace(buildExplainabilityTrace(ops, computeConsensus(ops)))
              = computeConsensus(ops).verdict
  <1> DEFINE trace == buildExplainabilityTrace(ops, computeConsensus(ops))
             c == [i \in DOMAIN trace |->
                      IF trace[i].included THEN trace[i].weight * trace[i].confidence ELSE 0]
             s == [i \in DOMAIN trace |-> IF trace[i].included THEN trace[i].contribution ELSE 0]
  <1>1. DOMAIN trace = DOMAIN ops
    BY DEF buildExplainabilityTrace
  <1>2. \A i \in DOMAIN ops :
           /\ (IF trace[i].included THEN trace[i].weight * trace[i].confidence ELSE 0) = Weigh(ops[i])
           /\ (IF trace[i].included THEN trace[i].contribution ELSE 0) = Contribute(ops[i])
    BY TraceOf
  <1> HIDE DEF trace
  <1>3. c = Confidences(ops) /\ s = Scores(ops)
    BY <1>1, <1>2 DEF Confidences, Scores
  <1>4. reproduceVerdictFromTrace(trace) =
           IF Total(c) = 0 THEN "neutral" ELSE scoreToVerdict(Total(s), Total(c))
    BY DEF reproduceVerdictFromTrace, SumOver
  <1> HIDE DEF c, s
  <1> QED BY <1>3, <1>4, ConsensusIs DEF trace, ConfidenceSum, ScoreSum

-------------------------------------------------------------------------------
(* Council: trade ideas.                                                       *)

\* A context of a request the gateway accepts.
IsContext(context) ==
    /\ context.referencePrice \in Int /\ context.dataValid \in BOOLEAN
    /\ \A field \in portfolioRiskContext : context[field] \in Int
    /\ \A field \in thresholds : context[field] \in Int \cup {UNDEFINED}

\* Rounding prices to a cent does not carry them over the entry price.
LEMMA PriceOfIdea ==
    ASSUME NEW p \in Int, NEW x \in Int, p > 0, x > 0, NEW k \in Int, k > 0
    PROVE  /\ Round(p * k - x, k) \in Int /\ Round(p * k - x, k) <= p
           /\ Round(p * k + x, k) \in Int /\ Round(p * k + x, k) >= p
  <1> DEFINE a == Round(p * k - x, k)
             b == Round(p * k + x, k)
  <1>1. p * k - x \in Int /\ p * k + x \in Int
    OBVIOUS
  <1>2. a \in Int /\ 2 * (k * a) <= 2 * (p * k - x) + k
    BY <1>1, Rounding
  <1>3. b \in Int /\ 2 * (p * k + x) < 2 * (k * b) + k
    BY <1>1, Rounding
  <1> HIDE DEF a, b
  <1>4. a <= p
    <2>1. CASE a > p
      <3>1. k * a >= k * (p + 1)
        BY <1>2, <2>1
      <3>2. k * (p + 1) = p * k + k
        OBVIOUS
      <3>3. k * a \in Int /\ p * k \in Int
        BY <1>2
      <3> QED BY <1>2, <3>1, <3>2, <3>3
    <2> QED BY <1>2, <2>1
  <1>5. b >= p
    <2>1. CASE b < p
      <3>1. k * b <= k * (p - 1)
        BY <1>3, <2>1
      <3>2. k * (p - 1) = p * k - k
        OBVIOUS
      <3>3. k * b \in Int /\ p * k \in Int
        BY <1>3
      <3> QED BY <1>3, <3>1, <3>2, <3>3
    <2> QED BY <1>3, <2>1
  <1> QED BY <1>2, <1>3, <1>4, <1>5 DEF a, b

\* No reward is a ratio of zero.
LEMMA NoReward ==
    ASSUME NEW risk \in Int, risk > 0
    PROVE  Round(0, risk) = 0
  <1> DEFINE zero == 0
  <1>1. zero \in Int /\ 2 * (risk * zero) <= 2 * zero + risk /\ 2 * zero < 2 * (risk * zero) + risk
    OBVIOUS
  <1> HIDE DEF zero
  <1>2. Round(zero, risk) = zero
    BY <1>1, RoundedTo
  <1> QED BY <1>2 DEF zero

\* A trade idea: the stop is on the losing side and the target is not, its ratio is that of its
\* prices, and its side that of the verdict.
LEMMA IdeaPrices ==
    ASSUME NEW context, IsContext(context), NEW verdict, verdictScore(verdict) \in Int,
           NEW idea, idea = generateTradeIdea(verdict, context), idea # THROWN, idea # UNDEFINED
    PROVE  LET side   == IF idea.direction = "long" THEN 1 ELSE -1
               risk   == side * (idea.entry - idea.stopLoss)
               reward == side * (idea.target - idea.entry)
           IN  /\ risk \in Int /\ reward \in Int /\ risk > 0 /\ reward >= 0
               /\ idea.riskRewardRatio = Round(100 * reward, risk)
               /\ side * verdictScore(verdict) > 0
  <1> DEFINE price == context.referencePrice
             stop  == stopLossPctOf(context)
             ratio == targetRiskRewardRatioOf(context)
             prices == PricesOf(verdict, context)
             x == price * stop
             y == x * ratio
  <1>1. price \in Int /\ stop \in Int /\ ratio \in Int
    BY DEF IsContext, stopLossPctOf, targetRiskRewardRatioOf, OrDefault, thresholds
  <1>2. /\ price > 0 /\ stop > 0 /\ ratio > 0
        /\ verdictScore(verdict) # 0 /\ prices.entry # prices.stopLoss
        /\ idea = IdeaOf(prices, RatioOf(prices))
    <2> HIDE DEF prices
    <2> QED BY <1>1 DEF generateTradeIdea, prices
  <1>3. /\ idea.direction = prices.direction /\ idea.entry = prices.entry
        /\ idea.stopLoss = prices.stopLoss /\ idea.target = prices.target
        /\ idea.riskRewardRatio = RatioOf(prices)
    <2> HIDE DEF prices
    <2> QED BY <1>2 DEF IdeaOf
  <1>4. x \in Int /\ x > 0
    <2> HIDE DEF price, stop
    <2> QED BY <1>1, <1>2
  <1>5. y \in Int /\ y > 0
    <2> HIDE DEF x, ratio
    <2> QED BY <1>1, <1>2, <1>4
  <1>6. /\ Round(price * 100 - x, 100) \in Int /\ Round(price * 100 - x, 100) <= price
        /\ Round(price * 100 + x, 100) \in Int /\ Round(price * 100 + x, 100) >= price
        /\ Round(price * 10000 - y, 10000) \in Int /\ Round(price * 10000 - y, 10000) <= price
        /\ Round(price * 10000 + y, 10000) \in Int /\ Round(price * 10000 + y, 10000) >= price
    <2> DEFINE k == 100
               l == 10000
    <2>1. k \in Int /\ k > 0 /\ l \in Int /\ l > 0
      OBVIOUS
    <2> HIDE DEF price, x, y, k, l
    <2>2. /\ Round(price * k - x, k) \in Int /\ Round(price * k - x, k) <= price
          /\ Round(price * k + x, k) \in Int /\ Round(price * k + x, k) >= price
      BY <1>1, <1>2, <1>4, <2>1, PriceOfIdea
    <2>3. /\ Round(price * l - y, l) \in Int /\ Round(price * l - y, l) <= price
          /\ Round(price * l + y, l) \in Int /\ Round(price * l + y, l) >= price
      BY <1>1, <1>2, <1>5, <2>1, PriceOfIdea
    <2> QED BY <2>2, <2>3 DEF k, l
  <1>7. CASE verdictScore(verdict) > 0
    <2>1. /\ prices.direction = "long" /\ prices.entry = price
          /\ prices.stopLoss = Round(price * 100 - 1 * x, 100)
          /\ prices.target = Round(price * 10000 + 1 * x * ratio, 10000)
      BY <1>7 DEF PricesOf
    <2>2. 1 * x = x /\ 1 * x * ratio = y
      BY <1>4
    <2> DEFINE a == prices.stopLoss
               b == prices.target
    <2>3. a \in Int /\ a <= price /\ b \in Int /\ b >= price
      <3> HIDE DEF x, y, price, prices
      <3> QED BY <1>6, <2>1, <2>2
    <2>4. RatioOf(prices) = Round(100 * Distance(b, price), Distance(price, a))
      BY <2>1 DEF RatioOf
    <2> HIDE DEF a, b, price
    <2>5. a # price
      BY <1>2, <2>1 DEF a
    <2>6. Distance(b, price) = 1 * (b - price) /\ Distance(price, a) = 1 * (price - a)
      BY <1>1, <2>3, <2>5 DEF Distance
    <2>7. 1 * (price - a) > 0 /\ 1 * (b - price) >= 0 /\ 1 * (price - a) \in Int /\ 1 * (b - price) \in Int
      BY <1>1, <2>3, <2>5
    <2>8. idea.direction = "long" /\ idea.entry = price /\ idea.stopLoss = a /\ idea.target = b
          /\ idea.riskRewardRatio = RatioOf(prices)
      BY <1>3, <2>1 DEF a, b, price
    <2>9. 1 * verdictScore(verdict) > 0
      BY <1>7
    <2> HIDE DEF prices
    <2> QED BY <2>4, <2>6, <2>7, <2>8, <2>9
  <1>8. CASE ~ (verdictScore(verdict) > 0)
    <2>1. /\ prices.direction = "short" /\ prices.entry = price
          /\ prices.stopLoss = Round(price * 100 - (-1) * x, 100)
          /\ prices.target = Round(price * 10000 + (-1) * x * ratio, 10000)
      BY <1>8 DEF PricesOf
    <2>2. price * 100 - (-1) * x = price * 100 + x /\ price * 10000 + (-1) * x * ratio = price * 10000 - y
      <3>1. (-1) * x = -x /\ (-x) * ratio = -(x * ratio)
        <4> HIDE DEF x, ratio
        <4> QED BY <1>1, <1>4
      <3>2. \A c, d \in Int : c - (-d) = c + d /\ c + (-d) = c - d
        OBVIOUS
      <3>3. price * 100 \in Int /\ price * 10000 \in Int
        BY <1>1
      <3> HIDE DEF price, x, ratio
      <3> QED BY <1>4, <1>5, <3>1, <3>2, <3>3
    <2> DEFINE a == prices.stopLoss
               b == prices.target
    <2>3. a \in Int /\ a >= price /\ b \in Int /\ b <= price
      <3> HIDE DEF x, y, price, prices
      <3> QED BY <1>6, <2>1, <2>2
    <2>4. RatioOf(prices) = Round(100 * Distance(b, price), Distance(price, a))
      BY <2>1 DEF RatioOf
    <2> HIDE DEF a, b, price
    <2>5. a # price
      BY <1>2, <2>1 DEF a
    <2>6. Distance(b, price) = (-1) * (b - price) /\ Distance(price, a) = (-1) * (price - a)
      BY <1>1, <2>3, <2>5 DEF Distance
    <2>7. (-1) * (price - a) > 0 /\ (-1) * (b - price) >= 0 /\ (-1) * (price - a) \in Int /\ (-1) * (b - price) \in Int
      BY <1>1, <2>3, <2>5
    <2>8. idea.direction = "short" /\ idea.entry = price /\ idea.stopLoss = a /\ idea.target = b
          /\ idea.riskRewardRatio = RatioOf(prices)
      BY <1>3, <2>1 DEF a, b, price
    <2>9. (-1) * verdictScore(verdict) > 0
      BY <1>2, <1>8
    <2> HIDE DEF prices
    <2> QED BY <2>4, <2>6, <2>7, <2>8, <2>9
  <1> QED BY <1>7, <1>8

\* A consensus is a verdict with a percentage of confidence.
LEMMA CallType ==
    ASSUME NEW ops, IsCouncil(ops)
    PROVE  LET call == computeConsensus(ops)
           IN  call.verdict \in Verdicts /\ call.confidence \in 0..100
  <1>1. /\ WeightSum(ops) \in Nat /\ ConfidenceSum(ops) \in Nat /\ ScoreSum(ops) \in Int
        /\ ConfidenceSum(ops) <= 100 * WeightSum(ops)
    BY SumsAreBounded
  <1> DEFINE n == WeightSum(ops)
             c == ConfidenceSum(ops)
             s == ScoreSum(ops)
  <1>2. computeConsensus(ops).verdict \in Verdicts
    BY <1>1, ConsensusIs, VerdictType DEF Verdicts, VERDICT_SCORES
  <1>3. CASE c = 0
    <2>1. computeConsensus(ops).confidence = 0
      BY <1>3, ConsensusIs
    <2> QED BY <1>2, <2>1
  <1>4. CASE c # 0
    <2>1. c > 0 /\ n > 0
      BY <1>4, SomeVoter
    <2> DEFINE hundred == 100
    <2>2. hundred \in Int /\ n \in Int /\ c \in Int /\ 0 <= c /\ c <= hundred * n
      BY <1>1
    <2> HIDE DEF n, c, hundred
    <2>3. Round(c, n) \in 0..hundred
      BY <2>1, <2>2, RoundBetween
    <2>4. computeConsensus(ops).confidence = Round(c, n)
      BY <1>4, ConsensusIs DEF c, n
    <2> QED BY <1>2, <2>3, <2>4 DEF hundred
  <1> QED BY <1>3, <1>4

\* A verdict on one side has an expert with a vote, not silent, on that side.
LEMMA SideHasVoter ==
    ASSUME NEW ops, IsCouncil(ops), NEW side \in {1, -1},
           side * verdictScore(computeConsensus(ops).verdict) > 0
    PROVE  \E i \in DOMAIN ops : /\ HasVote(ops[i]) /\ ops[i].confidence > 0
                                 /\ side * verdictScore(ops[i].verdict) > 0
  <1> DEFINE c == ConfidenceSum(ops)
             s == ScoreSum(ops)
             call == computeConsensus(ops)
  <1>1. c \in Nat /\ s \in Int
    BY SumsAreBounded
  <1>2. c # 0
    <2>1. ASSUME c = 0 PROVE FALSE
      <3>1. call.verdict = "neutral"
        BY <2>1, ConsensusIs
      <3>2. verdictScore("neutral") = 0
        BY DEF verdictScore, VERDICT_SCORES
      <3> QED BY <3>1, <3>2
    <2> QED BY <2>1
  <1>3. call.verdict = scoreToVerdict(s, c)
    BY <1>2, ConsensusIs
  <1> HIDE DEF c, s, call
  <1>4. c \in Int /\ c > 0
    BY <1>1, <1>2
  <1>5. side = 1 => s > 0
    <2>1. side = 1 => verdictScore(scoreToVerdict(s, c)) > 0
      <3>1. verdictScore(scoreToVerdict(s, c)) \in -2..2
        BY <1>1, <1>4, VerdictSide
      <3> QED BY <1>3, <3>1 DEF call
    <2> QED BY <1>1, <1>4, <2>1, VerdictSide
  <1>6. side = -1 => s < 0
    <2>1. side = -1 => verdictScore(scoreToVerdict(s, c)) < 0
      <3>1. verdictScore(scoreToVerdict(s, c)) \in -2..2
        BY <1>1, <1>4, VerdictSide
      <3> QED BY <1>3, <3>1 DEF call
    <2> QED BY <1>1, <1>4, <2>1, VerdictSide
  <1> SUFFICES ASSUME ~ \E i \in DOMAIN ops : /\ HasVote(ops[i]) /\ ops[i].confidence > 0
                                              /\ side * verdictScore(ops[i].verdict) > 0
               PROVE  FALSE
    OBVIOUS
  <1>7. \A i \in DOMAIN ops : verdictScore(ops[i].verdict) \in -2..2
    BY CouncilIs, ScoreIs
  <1> DEFINE zero == 0
  <1>8. zero \in -2..2 /\ zero * c = 0
    BY <1>4
  <1>9. CASE side = 1
    <2>1. \A i \in DOMAIN ops : HasVote(ops[i]) /\ ops[i].confidence > 0
             => verdictScore(ops[i].verdict) <= zero
      BY <1>7, <1>9
    <2> HIDE DEF zero
    <2>2. ScoreSum(ops) <= zero * ConfidenceSum(ops)
      BY <1>8, <2>1, SumsAreBounded
    <2> QED BY <1>1, <1>5, <1>8, <1>9, <2>2 DEF s, c
  <1>10. CASE side = -1
    <2>1. \A i \in DOMAIN ops : HasVote(ops[i]) /\ ops[i].confidence > 0
             => zero <= verdictScore(ops[i].verdict)
      BY <1>7, <1>10
    <2> HIDE DEF zero
    <2>2. zero * ConfidenceSum(ops) <= ScoreSum(ops)
      BY <1>8, <2>1, SumsAreBounded
    <2> QED BY <1>1, <1>6, <1>8, <1>10, <2>2 DEF s, c
  <1> QED BY <1>9, <1>10

\* A verdict about to be published is that of the council and its context.
VerdictIsDue ==
    HasVerdict => /\ IsContext(verdictCall.context)
                  /\ verdictCall.verdict = buildCioVerdict(opinions, verdictCall.context)
                  /\ verdictCall.verdict # THROWN

\* A verdict worked out of a council and a context has sound ideas.
LEMMA IdeasFollow ==
    ASSUME IsCouncil(opinions), VerdictIsDue
    PROVE  IdeasAreSound
  <1> SUFFICES ASSUME HasVerdict, NEW idea \in verdictCall.verdict.tradeIdeas
               PROVE  LET context == verdictCall.context
                          side    == IF idea.direction = "long" THEN 1 ELSE -1
                          risk    == side * (idea.entry - idea.stopLoss)
                          reward  == side * (idea.target - idea.entry)
                      IN  /\ risk > 0 /\ reward >= 0
                          /\ minRiskRewardRatioOf(context) > 0 => reward > 0
                          /\ Round(100 * reward, risk) >= minRiskRewardRatioOf(context)
                          /\ \E i \in DOMAIN opinions :
                                /\ HasVote(opinions[i]) /\ opinions[i].confidence > 0
                                /\ side * verdictScore(opinions[i].verdict) > 0
                          /\ verdictCall.verdict.confidence >= minConfidenceOf(context)
                          /\ context.dataValid
                          /\ context.drawdown < context.maxDrawdown /\ context.exposure < context.maxExposure
    BY DEF IdeasAreSound
  <1> DEFINE context == verdictCall.context
             call == computeConsensus(opinions)
             made == generateTradeIdea(call.verdict, context)
             gate == evaluateRiskGate(context, call.confidence, FirstBy(opinions, "risk"), made)
             side    == IF idea.direction = "long" THEN 1 ELSE -1
             risk    == side * (idea.entry - idea.stopLoss)
             reward  == side * (idea.target - idea.entry)
  <1>1. IsContext(context) /\ call.verdict \in Verdicts /\ call.confidence \in 0..100
    BY CallType DEF VerdictIsDue
  <1>2. /\ made # THROWN
        /\ verdictCall.verdict.confidence = call.confidence
        /\ verdictCall.verdict.tradeIdeas = IF gate.approved /\ made # UNDEFINED THEN {made} ELSE {}
    <2>1. verdictCall.verdict = buildCioVerdict(opinions, context) /\ verdictCall.verdict # THROWN
      BY DEF VerdictIsDue
    <2> HIDE DEF call, made, gate, context
    <2>2. made # THROWN
      BY <2>1 DEF buildCioVerdict, made, call
    <2> QED BY <2>1, <2>2 DEF buildCioVerdict, made, call, gate
  <1>3. gate.approved /\ made # UNDEFINED /\ idea = made
    <2> HIDE DEF gate, made
    <2> QED BY <1>2
  <1>4. /\ context.dataValid
        /\ ~ (context.drawdown >= context.maxDrawdown) /\ ~ (context.exposure >= context.maxExposure)
        /\ ~ (call.confidence < minConfidenceOf(context))
        /\ ~ (idea.riskRewardRatio < minRiskRewardRatioOf(context))
    <2> HIDE DEF call, made, context
    <2> QED BY <1>3 DEF evaluateRiskGate
  <1>5. /\ context.drawdown \in Int /\ context.maxDrawdown \in Int
        /\ context.exposure \in Int /\ context.maxExposure \in Int
    BY <1>1 DEF IsContext, portfolioRiskContext
  <1>6. minConfidenceOf(context) \in Int /\ minRiskRewardRatioOf(context) \in Int
    BY <1>1 DEF IsContext, thresholds, minConfidenceOf, minRiskRewardRatioOf, OrDefault
  <1>7. verdictScore(call.verdict) \in Int
    BY <1>1 DEF verdictScore, Verdicts, VERDICT_SCORES
  <1> HIDE DEF context, call, made, gate
  <1>8. /\ risk \in Int /\ reward \in Int /\ risk > 0 /\ reward >= 0
        /\ idea.riskRewardRatio = Round(100 * reward, risk)
        /\ side * verdictScore(call.verdict) > 0
    BY <1>1, <1>2, <1>3, <1>7, IdeaPrices DEF made
  <1>9. side \in {1, -1}
    OBVIOUS
  <1> HIDE DEF side
  <1>10. \E i \in DOMAIN opinions : /\ HasVote(opinions[i]) /\ opinions[i].confidence > 0
                                    /\ side * verdictScore(opinions[i].verdict) > 0
    BY <1>8, <1>9, SideHasVoter DEF call
  <1> HIDE DEF risk, reward
  <1>11. Round(100 * reward, risk) \in Int /\ Round(100 * reward, risk) >= minRiskRewardRatioOf(context)
    <2>1. Round(100 * reward, risk) \in Int
      <3>1. 100 * reward \in Int
        BY <1>8
      <3> QED BY <1>8, <3>1, Rounding
    <2> QED BY <1>4, <1>6, <1>8, <2>1
  <1>12. minRiskRewardRatioOf(context) > 0 => reward > 0
    <2>1. reward = 0 => Round(100 * reward, risk) = 0
      <3>1. reward = 0 => 100 * reward = 0
        OBVIOUS
      <3>2. Round(0, risk) = 0
        BY <1>8, NoReward
      <3> QED BY <3>1, <3>2
    <2> QED BY <1>6, <1>8, <1>11, <2>1
  <1>13. call.confidence >= minConfidenceOf(context)
    <2>1. call.confidence \in Int
      BY <1>1
    <2> QED BY <1>4, <1>6, <2>1
  <1>14. context.drawdown < context.maxDrawdown /\ context.exposure < context.maxExposure
    BY <1>4, <1>5
  <1> QED BY <1>2, <1>4, <1>8, <1>10, <1>11, <1>12, <1>13, <1>14 DEF context, side, risk, reward

\* And a trace that explains it.
LEMMA TraceFollows ==
    ASSUME IsCouncil(opinions), VerdictIsDue
    PROVE  TraceExplains
  <1> SUFFICES ASSUME HasVerdict, DistinctVoters(opinions)
               PROVE  reproduceVerdictFromTrace(verdictCall.verdict.trace) = verdictCall.verdict.verdict
    BY DEF TraceExplains
  <1> DEFINE call == computeConsensus(opinions)
  <1>1. verdictCall.verdict = buildCioVerdict(opinions, verdictCall.context) /\ verdictCall.verdict # THROWN
    BY DEF VerdictIsDue
  <1> HIDE DEF call
  <1>2. /\ verdictCall.verdict.trace = buildExplainabilityTrace(opinions, call)
        /\ verdictCall.verdict.verdict = call.verdict
    BY <1>1 DEF buildCioVerdict, call
  <1> QED BY <1>2, TraceReproduces DEF call

-------------------------------------------------------------------------------
(* Council: the experts.                                                       *)

\* Whatever research reports, the experts who read it give an opinion of the schema.
LEMMA AgentsAreValid ==
    /\ \A bars, reading : reading \in TechnicalReading =>
          /\ TechnicalAgent("technical", analyzeTechnical(bars, reading)) \in expertOpinion
          /\ IndicesAgent(analyzeTechnical(bars, reading)) \in expertOpinion
    /\ \A chain : OptionsAgent(analyzeOptionChain(chain)) \in expertOpinion
    /\ \A bars, strength : SectorAgent(analyzeSector(bars, strength)) \in expertOpinion
    /\ \A bars, zScore : QuantAgent(analyzeQuant(bars, zScore)) \in expertOpinion
    /\ \A figures : FundamentalAgent(analyzeFundamentals(figures)) \in expertOpinion
  <1> USE DEF expertOpinion, Experts, Verdicts, VERDICT_SCORES, Opinion, gapOpinion
  <1>1. ASSUME NEW expert \in {"technical", "indices"}, NEW reading \in TechnicalReading \cup {UNDEFINED}
        PROVE  TechnicalAgent(expert, reading) \in expertOpinion
    <2>1. CASE reading = UNDEFINED
      BY <2>1 DEF TechnicalAgent
    <2>2. CASE reading # UNDEFINED
      <3> DEFINE net == TechnicalNet(reading)
                 score == Greatest(-2, Least(2, net))
                 confidence == Least(95, 50 + Distance(net, 0) * 12)
      <3>1. net \in Int
        BY <2>2 DEF TechnicalNet, TechnicalReading
      <3> HIDE DEF net
      <3>2. score \in -2..2 /\ confidence \in 0..100
        BY <3>1 DEF Greatest, Least, Distance
      <3> HIDE DEF score, confidence
      <3>3. \E verdict \in Verdicts : verdictScore(verdict) = score
        BY <3>2 DEF verdictScore
      <3> DEFINE chosen == CHOOSE verdict \in Verdicts : verdictScore(verdict) = score
      <3>4. chosen \in Verdicts
        BY <3>3
      <3> HIDE DEF chosen
      <3>5. TechnicalAgent(expert, reading) = Opinion(expert, chosen, confidence)
        BY <2>2 DEF TechnicalAgent, chosen, score, confidence, net
      <3> QED BY <3>2, <3>4, <3>5
    <2> QED BY <2>1, <2>2
  <1>2. ASSUME NEW bars, NEW reading \in TechnicalReading
        PROVE  /\ TechnicalAgent("technical", analyzeTechnical(bars, reading)) \in expertOpinion
               /\ IndicesAgent(analyzeTechnical(bars, reading)) \in expertOpinion
    <2>1. analyzeTechnical(bars, reading) \in TechnicalReading \cup {UNDEFINED}
      BY DEF analyzeTechnical
    <2> HIDE DEF expertOpinion
    <2> QED BY <1>1, <2>1 DEF IndicesAgent
  <1>3. ASSUME NEW chain PROVE OptionsAgent(analyzeOptionChain(chain)) \in expertOpinion
    BY DEF OptionsAgent, analyzeOptionChain
  <1>4. ASSUME NEW bars, NEW strength PROVE SectorAgent(analyzeSector(bars, strength)) \in expertOpinion
    BY DEF SectorAgent, analyzeSector
  <1>5. ASSUME NEW bars, NEW zScore PROVE QuantAgent(analyzeQuant(bars, zScore)) \in expertOpinion
    BY DEF QuantAgent, analyzeQuant
  <1>6. ASSUME NEW figures PROVE FundamentalAgent(analyzeFundamentals(figures)) \in expertOpinion
    BY DEF FundamentalAgent, analyzeFundamentals
  <1> QED BY <1>2, <1>3, <1>4, <1>5, <1>6

\* Opinions taken together make a verdict and a percentage.
LEMMA BlendIsValid ==
    ASSUME NEW ops, IsCouncil(ops), ops # << >>
    PROVE  Blend(ops).verdict \in Verdicts /\ Blend(ops).confidence \in 0..100
  <1> DEFINE c == SumOver(ops, ConfidenceOf)
             s == SumOver(ops, ScoreOf)
             n == Len(ops)
             hundred == 100
  <1>1. c \in Nat /\ s \in Int /\ c <= 100 * n
    BY BlendIs
  <1>2. n \in Nat /\ n # 0
    BY DEF IsCouncil
  <1> HIDE DEF c, s, n
  <1>3. n \in Int /\ n > 0 /\ c \in Int /\ 0 <= c /\ hundred \in Int /\ c <= hundred * n
    BY <1>1, <1>2
  <1> HIDE DEF hundred
  <1>4. Round(c, n) \in 0..hundred
    BY <1>3, RoundBetween
  <1>5. Blend(ops).confidence = Round(c, n)
    BY DEF Blend, c, n
  <1>6. Blend(ops).verdict = IF c = 0 THEN "neutral" ELSE scoreToVerdict(s, c)
    BY DEF Blend, c, s
  <1>7. Blend(ops).verdict \in Verdicts
    BY <1>1, <1>3, <1>6, VerdictType DEF Verdicts, VERDICT_SCORES
  <1> QED BY <1>4, <1>5, <1>7 DEF hundred

\* Whatever the council, the experts who read it give an opinion of the schema.
LEMMA ReadersAreValid ==
    ASSUME NEW ops, IsCouncil(ops)
    PROVE  /\ StrategyAgent(ops) \in expertOpinion
           /\ EducationAgent(ops) \in expertOpinion
           /\ \A volatility \in Int \cup {UNDEFINED} : RiskAgent(ops, volatility) \in expertOpinion
  <1>1. \A expert \in Experts, verdict \in Verdicts, confidence \in 0..100 :
           Opinion(expert, verdict, confidence) \in expertOpinion
    BY DEF Opinion, expertOpinion
  <1>2. \A expert \in Experts : gapOpinion(expert) \in expertOpinion
    BY <1>1 DEF gapOpinion, Verdicts, VERDICT_SCORES
  <1>3. {"strategy", "education", "risk"} \subseteq Experts
    BY DEF Experts
  <1>4. StrategyAgent(ops) \in expertOpinion /\ EducationAgent(ops) \in expertOpinion
    <2>1. CASE ops = << >>
      BY <1>2, <1>3, <2>1 DEF StrategyAgent, EducationAgent
    <2>2. CASE ops # << >>
      BY <1>1, <1>3, <2>2, BlendIsValid DEF StrategyAgent, EducationAgent
    <2> QED BY <2>1, <2>2
  <1>6. ASSUME NEW volatility \in Int \cup {UNDEFINED}
        PROVE  RiskAgent(ops, volatility) \in expertOpinion
    <2> DEFINE known  == OrDefault(volatility, 0)
               points == (IF known >= 30 THEN 2 ELSE IF known >= 15 THEN 1 ELSE 0)
                            + (IF Spread(ops, 6) THEN 2 ELSE IF Spread(ops, 3) THEN 1 ELSE 0)
               chosen == CHOOSE verdict \in Verdicts : verdictScore(verdict) = 2 - points
               confidence == Greatest(30, 90 - points * 12)
    <2>1. points \in 0..4
      <3>1. (IF known >= 30 THEN 2 ELSE IF known >= 15 THEN 1 ELSE 0) \in 0..2
        OBVIOUS
      <3>2. (IF Spread(ops, 6) THEN 2 ELSE IF Spread(ops, 3) THEN 1 ELSE 0) \in 0..2
        OBVIOUS
      <3> QED BY <3>1, <3>2
    <2> HIDE DEF points
    <2>2. confidence \in 0..100
      BY <2>1 DEF Greatest
    <2>3. \E verdict \in Verdicts : verdictScore(verdict) = 2 - points
      BY <2>1 DEF verdictScore, Verdicts, VERDICT_SCORES
    <2>4. chosen \in Verdicts
      BY <2>3
    <2>5. RiskAgent(ops, volatility) =
             IF ops = << >> /\ volatility = UNDEFINED THEN gapOpinion("risk")
             ELSE Opinion("risk", chosen, confidence)
      BY DEF RiskAgent, points
    <2> HIDE DEF chosen, confidence
    <2> QED BY <1>1, <1>2, <1>3, <2>2, <2>4, <2>5
  <1> QED BY <1>4, <1>6

-------------------------------------------------------------------------------
(* Council: the invariant, and the properties.                                 *)

\* The inductive invariant.
CouncilInv == IsCouncil(opinions) /\ VerdictIsDue

\* The invariant holds before anyone is asked.
LEMMA CouncilInitOK == CouncilInit => CouncilInv
  <1> SUFFICES ASSUME CouncilInit PROVE CouncilInv
    OBVIOUS
  <1>1. IsCouncil(opinions)
    BY DEF CouncilInit, IsCouncil
  <1>2. ~ HasVerdict
    BY DEF CouncilInit, HasVerdict
  <1> QED BY <1>1, <1>2 DEF CouncilInv, VerdictIsDue

\* It holds after an expert is asked.
LEMMA GatherOK ==
    ASSUME CouncilInv, NEW opinion \in expertOpinion, Gather(opinion)
    PROVE  CouncilInv'
  <1>1. opinions' = Append(opinions, opinion) /\ verdictCall' = verdictCall /\ ~ HasVerdict
    BY DEF Gather, Asking, HasVerdict
  <1>2. IsCouncil(opinions')
    BY <1>1, CouncilAppend DEF CouncilInv
  <1>3. ~ HasVerdict'
    BY <1>1 DEF HasVerdict
  <1> QED BY <1>2, <1>3 DEF CouncilInv, VerdictIsDue, IsCouncil

\* Every step keeps it.
LEMMA CouncilNextOK == CouncilInv /\ [CouncilNext]_councilVars => CouncilInv'
  <1> SUFFICES ASSUME CouncilInv, [CouncilNext]_councilVars PROVE CouncilInv'
    OBVIOUS
  <1>1. IsCouncil(opinions)
    BY DEF CouncilInv
  <1>2. ASSUME opinions' = opinions, verdictCall' = verdictCall PROVE CouncilInv'
    BY <1>2 DEF CouncilInv, VerdictIsDue, HasVerdict, IsCouncil
  <1>3. ASSUME opinions' = opinions, verdictCall'.at # "publishing" PROVE CouncilInv'
    <2>1. ~ HasVerdict'
      BY <1>3 DEF HasVerdict
    <2> QED BY <1>1, <1>3, <2>1 DEF CouncilInv, VerdictIsDue, IsCouncil
  <1>4. CASE UNCHANGED councilVars
    BY <1>2, <1>4 DEF councilVars
  <1>5. ASSUME NEW batch, InsertFinancials(batch) PROVE CouncilInv'
    BY <1>2, <1>5 DEF InsertFinancials
  <1>6. CASE AskTechnical
    <2>1. PICK bars \in BarCounts, reading \in Readings :
             Gather(TechnicalAgent("technical", analyzeTechnical(bars, reading)))
      BY <1>6 DEF AskTechnical
    <2>2. reading \in TechnicalReading
      BY InputsAssumption
    <2> QED BY <2>1, <2>2, AgentsAreValid, GatherOK
  <1>7. CASE AskIndices
    <2>1. PICK bars \in BarCounts, reading \in Readings :
             Gather(IndicesAgent(analyzeTechnical(bars, reading)))
      BY <1>7 DEF AskIndices
    <2>2. reading \in TechnicalReading
      BY InputsAssumption
    <2> QED BY <2>1, <2>2, AgentsAreValid, GatherOK
  <1>8. CASE AskOptions
    BY <1>8, AgentsAreValid, GatherOK DEF AskOptions
  <1>9. CASE AskSector
    BY <1>9, AgentsAreValid, GatherOK DEF AskSector
  <1>10. CASE AskQuant
    BY <1>10, AgentsAreValid, GatherOK DEF AskQuant
  <1>11. CASE AskFundamental
    BY <1>11, AgentsAreValid, GatherOK DEF AskFundamental
  <1>12. CASE AskStrategy
    BY <1>1, <1>12, ReadersAreValid, GatherOK DEF AskStrategy
  <1>13. CASE AskEducation
    BY <1>1, <1>13, ReadersAreValid, GatherOK DEF AskEducation
  <1>14. CASE AskRisk
    <2>1. PICK volatility \in Volatilities \cup {UNDEFINED} :
             riskAgentBody(opinions, volatility) /\ Gather(RiskAgent(opinions, volatility))
      BY <1>14 DEF AskRisk
    <2>2. volatility \in Int \cup {UNDEFINED}
      BY <2>1 DEF riskAgentBody
    <2> QED BY <1>1, <2>1, <2>2, ReadersAreValid, GatherOK
  <1>15. ASSUME NEW context \in Contexts, PostVerdict(context) PROVE CouncilInv'
    <2> DEFINE verdict == buildCioVerdict(opinions, context)
    <2>1. /\ opinions' = opinions
          /\ verdictCall' = IF verdict = THROWN THEN [at |-> "failed"]
                            ELSE [at |-> "publishing", context |-> context, verdict |-> verdict]
          /\ IsContext(context)
      BY <1>15 DEF PostVerdict, buildCioVerdictBody, IsContext
    <2> HIDE DEF verdict
    <2>2. CASE verdict = THROWN
      BY <1>3, <2>1, <2>2
    <2>3. CASE verdict # THROWN
      <3>1. verdictCall'.context = context /\ verdictCall'.verdict = verdict
        BY <2>1, <2>3
      <3>2. IsCouncil(opinions')
        BY <1>1, <2>1 DEF IsCouncil
      <3>3. verdict = buildCioVerdict(opinions', context)
        BY <2>1 DEF verdict
      <3> QED BY <2>1, <2>3, <3>1, <3>2, <3>3 DEF CouncilInv, VerdictIsDue, IsCouncil, IsContext
    <2> QED BY <2>2, <2>3
  <1>16. CASE Publish \/ PublishFails
    BY <1>3, <1>16 DEF Publish, PublishFails
  <1> QED BY <1>4, <1>5, <1>6, <1>7, <1>8, <1>9, <1>10, <1>11, <1>12, <1>13, <1>14, <1>15, <1>16
          DEF CouncilNext

\* At every moment, for any contexts and figures: the client has opinions of the schema only, and
\* the verdict that is about to be published is the one worked out of them.
THEOREM CouncilInvariant == CouncilSpec => []CouncilInv
  BY CouncilInitOK, CouncilNextOK, PTL DEF CouncilSpec

\* No agent ever says what the schema refuses (services/ai, opinion-schema.ts): no call for an
\* opinion ends in a 500, whatever the bars, the chains, the figures and the opinions sent.
THEOREM CouncilOpinions == CouncilSpec => []OpinionsAreValid
  <1>1. CouncilInv => OpinionsAreValid
    <2> SUFFICES ASSUME CouncilInv, NEW i \in DOMAIN opinions PROVE ValidOpinion(opinions[i])
      BY DEF OpinionsAreValid
    <2>1. opinions[i] \in expertOpinion
      BY CouncilIs DEF CouncilInv
    <2> QED BY <2>1 DEF ValidOpinion, expertOpinion
  <1> QED BY <1>1, CouncilInvariant, PTL

\* A published trade idea is borne out by its prices, by an expert with a vote, and by the limits
\* of the context (services/cio, trade-idea.ts and risk-gate.ts), for any prices and ratios.
THEOREM CouncilIdeas == CouncilSpec => []IdeasAreSound
  <1>1. CouncilInv => IdeasAreSound
    BY IdeasFollow DEF CouncilInv
  <1> QED BY <1>1, CouncilInvariant, PTL

\* The published trace reproduces the verdict (services/cio, trace.ts) of any council in which no
\* expert with a vote speaks twice.
THEOREM CouncilTraces == CouncilSpec => []TraceExplains
  <1>1. CouncilInv => TraceExplains
    BY TraceFollows DEF CouncilInv
  <1> QED BY <1>1, CouncilInvariant, PTL

\* A vote counts once (services/cio, consensus.ts), in a council of any size and in any order.
THEOREM CouncilVotes == CouncilSpec => []VotesCountOnce
  <1>1. CouncilInv => VotesCountOnce
    BY VotesCount DEF CouncilInv
  <1> QED BY <1>1, CouncilInvariant, PTL

===============================================================================
